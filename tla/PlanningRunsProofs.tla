------------------------- MODULE PlanningRunsProofs -------------------------
(***************************************************************************)
(* The planning loop, the turns it takes and their budget, for every       *)
(* number of versions, every policy and every combination of disturbances: *)
(*  - the loop's bound of six turns never ends a planning that could go    *)
(*    on, and a turn under way has a loop that waits for it unless its end *)
(*    could not be stored;                                                 *)
(*  - a turn of a hard budget is asked for only when the usage of all      *)
(*    earlier turns, of this version and of all those it revises, is known *)
(*    and, unless the version carries an exception, below the limit.       *)
(***************************************************************************)
EXTENDS LivePlanningProofs, WellFoundedInduction

-----------------------------------------------------------------------------
(* The turns and runners of the loop *)

(* The turns a loop has taken are runs of its version's ledger, and a turn *)
(* under way is one that it has not counted yet.                           *)
Taken(v) ==
    /\ turns[v] <= Len(runs[v])
    /\ runner[v] = "TURN" => turns[v] < Len(runs[v])
TurnsTaken == \A v \in Versions : Taken(v)

(* Somebody waits for a turn under way, or the daemon will interrupt it.   *)
Awaited(v) == LatestIs(v, "RUNNING") => runner[v] = "TURN" \/ service = "DOWN"
TurnsAwaited == \A v \in Versions : Awaited(v)

-----------------------------------------------------------------------------
(* What a step may do to a loop and its ledger *)

(* The ledger stays as it is; a loop may begin, end or go on.              *)
Stays(v) ==
    /\ runs'[v] = runs[v]
    /\ turns'[v] \in {turns[v], 0}
    /\ runner'[v] = "TURN" => runner[v] = "TURN" /\ turns'[v] = turns[v]
    /\ runner[v] = "TURN" =>
          runner'[v] = "TURN" \/ service' = "DOWN" \/ "STORAGE" \in Events
    /\ service = "DOWN" => service' = "DOWN"

(* A run is added: a turn that is asked for, or one that is refused.       *)
Asks(v) ==
    /\ Len(runs'[v]) = Len(runs[v]) + 1
    /\ \/ runner'[v] = "TURN" /\ turns'[v] = turns[v]
       \/ runner'[v] = "LOOP" /\ turns'[v] = turns[v] + 1 /\ ~LatestIs(v, "RUNNING")'

(* Something is learned of the turn under way.                             *)
Learns(v) ==
    /\ runner[v] = "TURN" /\ runner'[v] = "TURN"
    /\ turns'[v] = turns[v] /\ Len(runs'[v]) = Len(runs[v])

(* The turn under way ends.                                                *)
Ends(v) ==
    /\ runner[v] = "TURN" /\ runner'[v] = "LOOP"
    /\ turns'[v] = turns[v] + 1 /\ Len(runs'[v]) = Len(runs[v])
    /\ ~LatestIs(v, "RUNNING")'

(* The start of the daemon leaves no turn under way.                       *)
Interrupts(v) ==
    /\ runner[v] = "NONE" /\ runner'[v] = "NONE"
    /\ turns'[v] = turns[v] /\ Len(runs'[v]) = Len(runs[v])
    /\ ~LatestIs(v, "RUNNING")'

Way(v) == Stays(v) \/ Asks(v) \/ Learns(v) \/ Ends(v) \/ Interrupts(v)

-----------------------------------------------------------------------------
(* Every step is one of them *)

(* A loop that no step touches stays.                                      *)
LEMMA UntouchedStays ==
    ASSUME NEW v \in Versions, runs'[v] = runs[v], runner'[v] = runner[v],
           turns'[v] = turns[v], service = "DOWN" => service' = "DOWN"
    PROVE  Stays(v)
BY DEF Stays

(* Steps that leave the ledger alone.                                      *)
LEMMA QuietStays ==
    ASSUME PInv, NEW u \in Versions, QuietStep(u) \/ Grant(u)
               \/ \E p \in Preferences : PlanningRetry(u, p), NEW v \in Versions
    PROVE  Stays(v)
<1>1. TypeOK /\ service' = service /\ runs' = runs
  <2>1. CASE QuietStep(u)
    <3>1. runs' = runs
      BY <2>1, QuietFrame
    <3>2. service' = service
      BY <2>1 DEF QuietStep, PlanningStart, RunPlanning, JobBegin, StopPlanning, TurnLost,
                  PauseTask, ResumeTask, PauseSubtask, Expire, LedgerUnchanged
    <3> QED BY <3>1, <3>2 DEF PInv
  <2>2. CASE Grant(u)
    BY <2>2 DEF Grant, PInv
  <2>3. CASE \E p \in Preferences : PlanningRetry(u, p)
    BY <2>3 DEF PlanningRetry, Accept, PInv
  <2> QED BY <2>1, <2>2, <2>3
<1>2. CASE UNCHANGED loopVars
  BY <1>1, <1>2, UntouchedStays DEF loopVars
<1>3. CASE RunPlanning(u)
  BY <1>1, <1>3 DEF RunPlanning, Stays, TypeOK
<1>4. CASE JobBegin(u)
  BY <1>1, <1>4 DEF JobBegin, Stays, TypeOK
<1>5. CASE StopPlanning(u) \/ TurnLost(u)
  BY <1>1, <1>5 DEF StopPlanning, TurnLost, Leave, Stays, TypeOK
<1>6. UNCHANGED loopVars \/ RunPlanning(u) \/ JobBegin(u) \/ StopPlanning(u) \/ TurnLost(u)
  BY DEF QuietStep, PlanningStart, PauseTask, ResumeTask, PauseSubtask, Expire, Grant,
         PlanningRetry, Accept
<1> QED BY <1>2, <1>3, <1>4, <1>5, <1>6

(* A claim asks or is refused, in the loop of its version.                 *)
LEMMA ClaimAsks ==
    ASSUME PInv, NEW u \in Versions, ClaimTurn(u) \/ ClaimRefused(u), NEW v \in Versions
    PROVE  Stays(v) \/ Asks(v)
<1>1. TypeOK
  BY DEF PInv
<1>2. PICK status \in {"RUNNING", "HUMAN_REQUIRED"}, stop \in StopReasons \cup {"NONE"} :
          /\ Claim(u, status, stop)
          /\ \/ /\ status = "RUNNING" /\ turns' = turns
                /\ runner' = [runner EXCEPT ![u] = "TURN"]
             \/ /\ status = "HUMAN_REQUIRED" /\ turns' = [turns EXCEPT ![u] = @ + 1]
                /\ runner' = runner
  BY DEF ClaimTurn, ClaimRefused, StopReasons
<1>3. /\ \A w \in Versions \ {u} : runs'[w] = runs[w]
      /\ LatestIs(u, status)'
  BY <1>2, ClaimFacts
<1>4. service' = service /\ runner[u] = "LOOP"
  BY <1>2 DEF Claim, LedgerUnchanged
<1>5. CASE v # u
  <2>1. runs'[v] = runs[v] /\ runner'[v] = runner[v] /\ turns'[v] = turns[v]
    BY <1>1, <1>2, <1>3, <1>5 DEF TypeOK
  <2> QED BY <1>4, <2>1, UntouchedStays
<1>6. CASE v = u
  <2>1. Len(runs'[u]) = Len(runs[u]) + 1
    <3>1. runs[u] \in Seq(Run) /\ runs'[u] = Append(runs[u], NextRun(u, status, stop))
      BY <1>1, <1>2 DEF Claim, TypeOK
    <3> QED BY <3>1
  <2>2. status # "RUNNING" => ~LatestIs(u, "RUNNING")'
    BY <1>3 DEF LatestIs
  <2>3. runner'[u] = IF status = "RUNNING" THEN "TURN" ELSE "LOOP"
    BY <1>1, <1>2, <1>4 DEF TypeOK
  <2>4. turns'[u] = IF status = "RUNNING" THEN turns[u] ELSE turns[u] + 1
    BY <1>1, <1>2 DEF TypeOK
  <2> QED BY <1>6, <2>1, <2>2, <2>3, <2>4 DEF Asks
<1> QED BY <1>5, <1>6

(* An observation keeps the turn, an end closes it.                        *)
LEMMA TurnEndsOnce ==
    ASSUME PInv, NEW u \in Versions, Observe(u) \/ FinishTurn(u), NEW v \in Versions
    PROVE  Stays(v) \/ Learns(v) \/ Ends(v)
<1>1. TypeOK /\ Local(u) /\ service' = service /\ runner[u] = "TURN"
  BY DEF PInv, Observe, FinishTurn, RefuseTurn, Propose, Review, RejectAnswer, Answered,
         EndTurn, LedgerUnchanged
<1>2. runs[u] # <<>> /\ runs[u] \in Seq(Run)
  BY <1>1 DEF Local, LatestIs, TypeOK
<1>3. CASE Observe(u)
  <2>1. Turn(u) \in Run
    BY <1>2 DEF Turn, Last
  <2>2. PICK known \in BOOLEAN :
            Rewrite(u, [Turn(u) EXCEPT !.evidence = TRUE, !.usage = known])
    BY <1>3, <2>1 DEF Observe, Run
  <2>3. [Turn(u) EXCEPT !.evidence = TRUE, !.usage = known] \in Run
    BY <2>1 DEF Run
  <2>4. /\ Len(runs'[u]) = Len(runs[u])
        /\ \A w \in Versions \ {u} : runs'[w] = runs[w]
    BY <1>1, <1>2, <2>2, <2>3, RewriteFacts
  <2>5. runner' = runner /\ turns' = turns
    BY <1>3 DEF Observe, loopVars
  <2>6. v # u => Stays(v)
    BY <1>1, <2>4, <2>5, UntouchedStays
  <2> QED BY <1>1, <2>4, <2>5, <2>6 DEF Learns
<1>4. CASE FinishTurn(u)
  <2>1. PICK reason \in StopReasons \cup {"NONE"} : EndTurn(u, reason)
    BY <1>4 DEF FinishTurn, RefuseTurn, Propose, Review, RejectAnswer, Refusal, StopReasons
  <2>2. /\ \A w \in Versions \ {u} : runs'[w] = runs[w]
        /\ Len(runs'[u]) = Len(runs[u]) /\ runs'[u] # <<>>
        /\ Last(runs'[u]).status = IF reason = "NONE" THEN "COMPLETED" ELSE "HUMAN_REQUIRED"
        /\ runner'[u] = "LOOP"
        /\ \A w \in Versions \ {u} : runner'[w] = runner[w] /\ turns'[w] = turns[w]
    BY <2>1, EndTurnFacts
  <2>3. ~LatestIs(u, "RUNNING")'
    BY <2>2 DEF LatestIs
  <2>4. turns'[u] = turns[u] + 1
    BY <1>1, <2>1 DEF EndTurn, TypeOK
  <2>5. v # u => Stays(v)
    BY <1>1, <2>2, UntouchedStays
  <2> QED BY <1>1, <2>2, <2>3, <2>4, <2>5 DEF Ends
<1> QED BY <1>3, <1>4

(* The start of the daemon rewrites the runs that were under way.          *)
LEMMA RestartInterrupts ==
    ASSUME PInv, Restart, NEW v \in Versions
    PROVE  Interrupts(v)
<1>1. TypeOK /\ runner[v] = "NONE" /\ runner' = runner /\ turns' = turns
  BY DEF PInv, Halted, Restart, loopVars
<1>2. CASE ~LatestIs(v, "RUNNING")
  <2>1. runs'[v] = runs[v]
    BY <1>2 DEF Restart
  <2> QED BY <1>1, <1>2, <2>1 DEF Interrupts, LatestIs, Last
<1>3. CASE LatestIs(v, "RUNNING")
  <2>1. runs[v] # <<>> /\ runs[v] \in Seq(Run) /\ Len(runs[v]) \in Nat /\ Len(runs[v]) # 0
    BY <1>1, <1>3 DEF LatestIs, TypeOK
  <2> DEFINE r == [runs[v][Len(runs[v])] EXCEPT !.status = "HUMAN_REQUIRED",
                                                !.stop = "INTERRUPTED"]
  <2>2. Len(runs[v]) \in 1 .. Len(runs[v]) /\ runs[v][Len(runs[v])] \in Run
    BY <2>1
  <2>3. r \in Run /\ r.status = "HUMAN_REQUIRED"
    BY <2>2 DEF Run, StopReasons
  <2>4. runs'[v] = [runs[v] EXCEPT ![Len(runs[v])] = r]
    BY <1>3 DEF Restart
  <2> HIDE DEF r
  <2> DEFINE new == [runs[v] EXCEPT ![Len(runs[v])] = r]
  <2>5. /\ new \in Seq(Run) /\ Len(new) = Len(runs[v])
        /\ new[Len(runs[v])] = r
    BY <2>1, <2>2, <2>3, ExceptSeq
  <2>6. runs'[v] = new
    BY <2>4
  <2> HIDE DEF new
  <2>7. ~LatestIs(v, "RUNNING")'
    BY <2>1, <2>3, <2>5, <2>6 DEF LatestIs, Last
  <2> QED BY <1>1, <2>5, <2>6, <2>7 DEF Interrupts
<1> QED BY <1>2, <1>3

(* There is no other way.                                                  *)
LEMMA LoopWays ==
    ASSUME PInv, [Next]_vars, NEW v \in Versions
    PROVE  Way(v)
<1>1. CASE \E p \in Intakes : Intake(p)
  <2>1. runs' = runs /\ UNCHANGED loopVars /\ service' = service
    BY <1>1 DEF Intake, Accept
  <2> QED BY <2>1, UntouchedStays DEF Way, loopVars
<1>2. CASE \E u \in Versions : \/ QuietStep(u) \/ Grant(u)
                               \/ \E p \in Preferences : PlanningRetry(u, p)
  BY <1>2, QuietStays DEF Way
<1>3. CASE \E u \in Versions : AmendPlanReview(u)
  <2>1. runs' = runs /\ UNCHANGED loopVars /\ service' = service
    BY <1>3 DEF AmendPlanReview, Accept
  <2> QED BY <2>1, UntouchedStays DEF Way, loopVars
<1>4. CASE \E u \in Versions : ClaimTurn(u) \/ ClaimRefused(u)
  BY <1>4, ClaimAsks DEF Way
<1>5. CASE \E u \in Versions : Observe(u) \/ FinishTurn(u)
  BY <1>5, TurnEndsOnce DEF Way
<1>6. CASE QuietWorld \/ UNCHANGED vars
  <2>1. CASE Crash
    BY <2>1 DEF Crash, Stays, Way
  <2>2. CASE PauseProject \/ ResumeProject \/ ChangeContext \/ Shutdown \/ Exit \/ UNCHANGED vars
    <3>1. runs' = runs /\ UNCHANGED loopVars /\ (service = "DOWN" => service' = "DOWN")
      BY <2>2 DEF PauseProject, ResumeProject, ChangeContext, Shutdown, Exit, vars, Serving
    <3> QED BY <3>1, UntouchedStays DEF Way, loopVars
  <2> QED BY <1>6, <2>1, <2>2 DEF QuietWorld
<1>7. CASE Restart
  BY <1>7, RestartInterrupts DEF Way
<1>8. CASE Next
  <2>1. CASE \E u \in Versions :
               Requests(u) \/ JobBegin(u) \/ Loop(u) \/ TurnLost(u) \/ Expire(u)
    <3>1. PICK u \in Versions :
               Requests(u) \/ JobBegin(u) \/ Loop(u) \/ TurnLost(u) \/ Expire(u)
      BY <2>1
    <3>2. CASE Requests(u)
      BY <1>2, <1>3, <3>2 DEF Requests, QuietStep
    <3>3. CASE Loop(u)
      BY <1>2, <1>4, <1>5, <3>3 DEF Loop, QuietStep
    <3>4. CASE JobBegin(u) \/ TurnLost(u) \/ Expire(u)
      BY <1>2, <3>4 DEF QuietStep
    <3> QED BY <3>1, <3>2, <3>3, <3>4
  <2> QED BY <1>1, <1>6, <1>7, <1>8, <2>1 DEF Next, QuietWorld
<1> QED BY <1>6, <1>8

-----------------------------------------------------------------------------
(* The bound of the loop *)

(* Each way keeps the turns of a loop within its version's ledger.         *)
LEMMA TurnsSteps == PInv /\ TurnsTaken /\ [Next]_vars => TurnsTaken'
<1> SUFFICES ASSUME PInv, TurnsTaken, [Next]_vars, NEW v \in Versions PROVE Taken(v)'
  BY DEF TurnsTaken
<1>1. Taken(v) /\ Way(v) /\ TypeOK
  BY LoopWays DEF PInv, TurnsTaken
<1>2. turns[v] \in Nat /\ Len(runs[v]) \in Nat
  <2>1. turns[v] \in 0 .. 6 /\ runs[v] \in Seq(Run)
    BY <1>1 DEF TypeOK
  <2> QED BY <2>1
<1>3. CASE Stays(v)
  BY <1>1, <1>2, <1>3 DEF Stays, Taken
<1>4. CASE Asks(v)
  BY <1>1, <1>2, <1>4 DEF Asks, Taken
<1>5. CASE Learns(v)
  BY <1>1, <1>2, <1>5 DEF Learns, Taken
<1>6. CASE Ends(v)
  BY <1>1, <1>2, <1>6 DEF Ends, Taken
<1>7. CASE Interrupts(v)
  BY <1>1, <1>2, <1>7 DEF Interrupts, Taken
<1> QED BY <1>1, <1>3, <1>4, <1>5, <1>6, <1>7 DEF Way

(* A loop takes no more turns than its version has runs.                   *)
LEMMA TurnsAreRuns == Spec => []TurnsTaken
<1>1. Init => TurnsTaken
  BY DEF Init, TurnsTaken, Taken
<1> QED BY <1>1, TurnsSteps, PlanningInvariant, PTL DEF Spec

(* A loop whose version could take a turn has taken at most five: each of  *)
(* them left a candidate or a decision, and an undecided plan has at most  *)
(* five.                                                                   *)
LEMMA ReadyHasTurns ==
    ASSUME PInv, TurnsTaken, NEW v \in Versions, Phase(v) = "READY"
    PROVE  turns[v] < 6
<1>1. TypeOK /\ Local(v) /\ Taken(v)
  BY DEF PInv, TurnsTaken
<1>2. ReviewPhase(v) \in Undecided /\ (runs[v] = <<>> \/ LatestIs(v, "COMPLETED"))
  BY <1>1, ReadyFacts
<1>3. Open(v) = 0
  BY <1>2 DEF Open
<1>4. /\ candidates[v] \in 0 .. 3 /\ Len(decisions[v]) \in Nat
      /\ candidates[v] + Len(decisions[v]) <= 5
  BY <1>2, UndecidedFacts
<1>5. turns[v] \in Nat /\ Len(runs[v]) \in Nat
  <2>1. turns[v] \in 0 .. 6 /\ runs[v] \in Seq(Run)
    BY <1>1 DEF TypeOK
  <2> QED BY <2>1
<1> QED BY <1>1, <1>3, <1>4, <1>5 DEF Local, Counted, Taken

(* A version that is ready for a turn has a loop that took fewer than its  *)
(* bound of six, so the bound never is what keeps it from taking one.      *)
THEOREM ReadyBelowBound == Spec => [](\A v \in Versions : Phase(v) = "READY" => turns[v] < 6)
<1>1. PInv /\ TurnsTaken => \A v \in Versions : Phase(v) = "READY" => turns[v] < 6
  BY ReadyHasTurns
<1> QED BY <1>1, PlanningInvariant, TurnsAreRuns, PTL

(* Only the bound itself, a pause or a revision would end the loop of such *)
(* a version, so it is never the bound.                                    *)
LEMMA LeavesWithReason ==
    ASSUME PInv, TurnsTaken, [Next]_vars, NEW v \in Existing,
           runner[v] = "LOOP", runner'[v] = "NONE", service' # "DOWN"
    PROVE  Phase(v) # "READY" \/ ~Active(v) \/ HasSuccessor(v)
<1>1. TypeOK /\ v \in Versions
  BY ExistingTyped DEF PInv
<1>2. StopPlanning(v)
  <2>1. ~(\E p \in Intakes : Intake(p))
    BY DEF Intake, Accept, loopVars
  <2>2. ASSUME NEW u \in Versions, Requests(u) PROVE FALSE
    BY <1>1, <2>2 DEF Requests, PlanningStart, RunPlanning, AmendPlanReview, Grant,
         PlanningRetry, Accept, PauseTask, ResumeTask, PauseSubtask, loopVars, TypeOK
  <2>3. ASSUME NEW u \in Versions, JobBegin(u) \/ Expire(u) \/ Observe(u) PROVE FALSE
    BY <1>1, <2>3 DEF JobBegin, Expire, Observe, loopVars, TypeOK
  <2>4. ASSUME NEW u \in Versions, ClaimTurn(u) \/ ClaimRefused(u) PROVE FALSE
    BY <1>1, <2>4 DEF ClaimTurn, ClaimRefused, TypeOK
  <2>5. ASSUME NEW u \in Versions, FinishTurn(u) PROVE FALSE
    <3>1. \E reason : EndTurn(u, reason)
      BY <2>5 DEF FinishTurn, RefuseTurn, Propose, Review, RejectAnswer
    <3> QED BY <1>1, <3>1 DEF EndTurn, TypeOK
  <2>6. ASSUME NEW u \in Versions, TurnLost(u) PROVE FALSE
    BY <1>1, <2>6 DEF TurnLost, Leave, TypeOK
  <2>7. ASSUME NEW u \in Versions, StopPlanning(u) PROVE u = v
    BY <1>1, <2>7 DEF StopPlanning, Leave, TypeOK
  <2>8. ~(PauseProject \/ ResumeProject \/ ChangeContext \/ Shutdown \/ Exit \/ Crash
          \/ Restart \/ UNCHANGED vars)
    BY DEF PauseProject, ResumeProject, ChangeContext, Shutdown, Exit, Crash, Restart,
           vars, loopVars
  <2> QED BY <2>1, <2>2, <2>3, <2>4, <2>5, <2>6, <2>7, <2>8 DEF Next, Loop
<1>3. ~MayClaim(v) \/ HasSuccessor(v)
  BY <1>2 DEF StopPlanning
<1> QED BY <1>1, <1>3, ReadyHasTurns DEF MayClaim

(* Six turns are enough: the loop leaves a version that could go on only   *)
(* because it is paused or revised.                                        *)
THEOREM PlanningIsNeverCutShort == Spec => NeverCutShort
<1>1. PInv /\ TurnsTaken /\ [Next]_vars =>
        [\A v \in Existing :
            runner[v] = "LOOP" /\ runner'[v] = "NONE" /\ service' # "DOWN" =>
                Phase(v) # "READY" \/ ~Active(v) \/ HasSuccessor(v)]_vars
  BY LeavesWithReason
<1> QED BY <1>1, PlanningInvariant, TurnsAreRuns, PTL DEF Spec, NeverCutShort

-----------------------------------------------------------------------------
(* Nobody forgets a turn *)

(* Each way keeps a waiting loop for a turn under way.                     *)
LEMMA AwaitedSteps ==
    ASSUME "STORAGE" \notin Events
    PROVE  PInv /\ TurnsAwaited /\ [Next]_vars => TurnsAwaited'
<1> SUFFICES ASSUME PInv, TurnsAwaited, [Next]_vars, NEW v \in Versions PROVE Awaited(v)'
  BY DEF TurnsAwaited
<1>1. Awaited(v) /\ Way(v)
  BY LoopWays DEF TurnsAwaited
<1>2. CASE Stays(v)
  BY <1>1, <1>2 DEF Stays, Awaited, LatestIs, Last
<1>3. CASE Asks(v) \/ Learns(v) \/ Ends(v) \/ Interrupts(v)
  BY <1>3 DEF Asks, Learns, Ends, Interrupts, Awaited
<1> QED BY <1>1, <1>2, <1>3 DEF Way

(* While the ends of turns can be stored, a turn that the ledger says is   *)
(* under way has a loop that waits for it, or the daemon is down and will  *)
(* interrupt it at its next start.                                         *)
THEOREM TurnsHaveRunners ==
    ASSUME "STORAGE" \notin Events
    PROVE  Spec => []RunningHasRunner
<1>1. Init => TurnsAwaited
  BY DEF Init, TurnsAwaited, Awaited, LatestIs
<1>2. PInv /\ TurnsAwaited => RunningHasRunner
  <2> SUFFICES ASSUME PInv, TurnsAwaited, NEW v \in Existing
               PROVE  /\ runner[v] = "TURN" => Phase(v) = "RUNNING"
                      /\ Phase(v) = "RUNNING" => runner[v] = "TURN" \/ service = "DOWN"
    BY DEF RunningHasRunner
  <2>1. Local(v) /\ Awaited(v)
    BY ExistingTyped DEF PInv, TurnsAwaited
  <2>2. Phase(v) = "RUNNING" => LatestIs(v, "RUNNING")
    BY DEF Phase, ReviewPhase, Replay
  <2>3. LatestIs(v, "RUNNING") => Phase(v) = "RUNNING"
    BY DEF Phase
  <2> QED BY <2>1, <2>2, <2>3 DEF Local, Awaited
<1>3. PInv /\ TurnsAwaited /\ [Next]_vars => TurnsAwaited'
  BY AwaitedSteps
<1> QED BY <1>1, <1>2, <1>3, PlanningInvariant, PTL DEF Spec

-----------------------------------------------------------------------------
(* The family of a version *)

Below == {pair \in Nat \X Nat : pair[1] < pair[2]}

(* Every set of naturals has a least element.                              *)
LEMMA LeastElement ==
    ASSUME NEW T, T \subseteq Nat, T # {}
    PROVE  \E x \in T : \A y \in T : x <= y
<1>1. IsWellFoundedOn(Below, Nat)
  BY NatLessThanWellFounded DEF OpToRel, Below
<1>2. PICK x \in T : \A y \in T : <<y, x>> \notin Below
  BY <1>1, WFMin
<1>3. ASSUME NEW y \in T PROVE x <= y
  <2>1. x \in Nat /\ y \in Nat
    OBVIOUS
  <2>2. ~(y < x)
    BY <1>2, <2>1 DEF Below
  <2> QED BY <2>1, <2>2
<1> QED BY <1>3

(* One number more.                                                        *)
LEMMA UpTo ==
    ASSUME NEW n \in Nat, n > 0
    PROVE  {n} \cup 1 .. (n - 1) = 1 .. n
<1>1. \A i : i \in {n} \cup 1 .. (n - 1) <=> i \in 1 .. n
  OBVIOUS
<1> QED BY <1>1

(* One level of the recursion by which Family follows the parents.         *)
Revised(f) == [u \in Versions |->
    {u} \cup (IF parent[u] \in 1 .. (u - 1) THEN f[parent[u]] ELSE {})]

(* What that level computes when each version revises the one before it.   *)
LEMMA RevisedLevel ==
    ASSUME TypeOK, Lineage, NEW u \in Versions, NEW f
    PROVE  /\ u > count => Revised(f)[u] = {u}
           /\ u = 1 => Revised(f)[u] = {u}
           /\ u > 1 /\ u <= count =>
                /\ u - 1 \in Versions
                /\ Revised(f)[u] = {u} \cup f[u - 1]
<1>1. u \in Nat /\ u > 0 /\ count \in Nat /\ MaxVersions \in Nat /\ u <= MaxVersions
  BY PlanningAssumption DEF TypeOK, Versions
<1>2. parent[u] = IF u <= count THEN u - 1 ELSE 0
  BY DEF Lineage
<1>3. Revised(f)[u] = {u} \cup (IF parent[u] \in 1 .. (u - 1) THEN f[parent[u]] ELSE {})
  BY DEF Revised
<1>4. CASE u > count \/ u = 1
  <2>1. parent[u] = 0
    BY <1>1, <1>2, <1>4
  <2>2. Revised(f)[u] = {u}
    BY <1>3, <2>1
  <2> QED BY <1>1, <1>4, <2>2
<1>5. CASE u > 1 /\ u <= count
  <2>1. parent[u] = u - 1 /\ u - 1 \in 1 .. (u - 1)
    BY <1>1, <1>2, <1>5
  <2>2. u - 1 \in Versions
    BY <1>1, <1>5 DEF Versions
  <2> QED BY <1>1, <1>3, <1>5, <2>1, <2>2
<1> QED BY <1>1, <1>4, <1>5

(* The recursion has a solution.                                           *)
LEMMA RevisedExists ==
    ASSUME TypeOK, Lineage
    PROVE  \E f : f = Revised(f)
<1> DEFINE f == [u \in Versions |-> IF u <= count THEN 1 .. u ELSE {u}]
<1>1. ASSUME NEW u \in Versions PROVE f[u] = Revised(f)[u]
  <2>1. u \in Nat /\ u > 0 /\ count \in Nat
    BY PlanningAssumption DEF TypeOK, Versions
  <2>2. f[u] = IF u <= count THEN 1 .. u ELSE {u}
    OBVIOUS
  <2>3. \A w \in Versions : w <= count => f[w] = 1 .. w
    OBVIOUS
  <2> HIDE DEF f
  <2>4. CASE u > count
    <3>1. Revised(f)[u] = {u}
      BY <2>4, RevisedLevel
    <3>2. ~(u <= count)
      BY <2>1, <2>4
    <3> QED BY <2>2, <3>1, <3>2
  <2>5. CASE u = 1 /\ u <= count
    BY <2>1, <2>2, <2>5, RevisedLevel
  <2>6. CASE u > 1 /\ u <= count
    <3>1. u - 1 \in Versions /\ Revised(f)[u] = {u} \cup f[u - 1]
      BY <2>6, RevisedLevel
    <3>2. f[u - 1] = 1 .. (u - 1)
      BY <2>1, <2>3, <2>6, <3>1
    <3> QED BY <2>1, <2>2, <2>6, <3>1, <3>2, UpTo
  <2> QED BY <2>1, <2>4, <2>5, <2>6
<1>2. f = [u \in Versions |-> f[u]] /\ Revised(f) = [u \in Versions |-> Revised(f)[u]]
  BY DEF Revised
<1>3. f = Revised(f)
  BY <1>1, <1>2
<1> QED BY <1>3

(* A version and all those it revises are the versions up to it: by        *)
(* infinite descent, as there is no least one for which it fails.          *)
LEMMA FamilyIs ==
    ASSUME TypeOK, Lineage, NEW v \in Existing
    PROVE  Family(v) = 1 .. v
<1> DEFINE f == CHOOSE f : f = Revised(f)
<1>1. f = Revised(f)
  BY RevisedExists
<1>2. v \in Versions
  BY ExistingTyped
<1>3. Family(v) = f[v]
  BY <1>2 DEF Family, Revised
<1> HIDE DEF f
<1> DEFINE T == {u \in Existing : f[u] # 1 .. u}
<1>4. ASSUME T # {} PROVE FALSE
  <2>1. T \subseteq Nat
    BY DEF Existing
  <2>2. PICK u \in T : \A w \in T : u <= w
    BY <1>4, <2>1, LeastElement
  <2>3. /\ u \in Existing /\ u \in Versions /\ u \in Nat /\ u > 0 /\ u <= count
        /\ count \in Nat /\ f[u] # 1 .. u
    BY <2>2, ExistingTyped DEF Existing
  <2>4. CASE u = 1
    BY <1>1, <2>3, <2>4, RevisedLevel
  <2>5. CASE u > 1
    <3>1. f[u] = {u} \cup f[u - 1]
      BY <1>1, <2>3, <2>5, RevisedLevel
    <3>2. u - 1 \in Existing /\ ~(u <= u - 1)
      BY <2>3, <2>5 DEF Existing
    <3>3. f[u - 1] = 1 .. (u - 1)
      BY <2>2, <3>2
    <3> QED BY <2>3, <3>1, <3>3, UpTo
  <2> QED BY <2>3, <2>4, <2>5
<1> QED BY <1>3, <1>4

(* The runs that a version accounts for.                                   *)
OfFamily(v, x) == \E u \in 1 .. v : \E i \in DOMAIN runs[u] : x = <<u, i>>
LEMMA AccountedIs ==
    TypeOK /\ Lineage => \A v \in Existing : \A x : x \in AccountedRuns(v) <=> OfFamily(v, x)
<1> SUFFICES ASSUME TypeOK, Lineage, NEW v \in Existing
             PROVE  \A x : x \in AccountedRuns(v) <=> OfFamily(v, x)
  OBVIOUS
<1>1. AccountedRuns(v) = UNION {{<<u, i>> : i \in DOMAIN runs[u]} : u \in 1 .. v}
  BY FamilyIs DEF AccountedRuns
<1>2. ASSUME NEW x PROVE x \in AccountedRuns(v) <=> OfFamily(v, x)
  BY <1>1 DEF OfFamily
<1> QED BY <1>2

(* So are those it accounts for after a step.                              *)
LEMMA AccountedNext ==
    TypeOK' /\ Lineage' =>
        \A v \in Existing' : \A x : x \in AccountedRuns(v)' <=> OfFamily(v, x)'
<1>1. (TypeOK /\ Lineage =>
        \A v \in Existing : \A x : x \in AccountedRuns(v) <=> OfFamily(v, x))'
  BY AccountedIs, PTL
<1> QED BY <1>1

-----------------------------------------------------------------------------
(* The budget of one version *)

Budget(v) ==
    policy[v].hard /\ runs[v] # <<>> =>
        /\ \A x \in EarlierRuns(v) : runs[x[1]][x[2]].usage
        /\ policy[v].exception \/ Cardinality(EarlierRuns(v)) < policy[v].limit
Budgets == \A v \in Existing : Budget(v)

(* The runs of a version are as many as before, and only the latest run of *)
(* the newest version changes.                                             *)
Kept(u) ==
    /\ DOMAIN runs'[u] = DOMAIN runs[u] /\ Len(runs'[u]) = Len(runs[u])
    /\ \A i \in DOMAIN runs[u] :
          ~(u = count /\ i = Len(runs[u])) => runs'[u][i] = runs[u][i]

(* Runs that nobody touches are kept.                                      *)
LEMMA SameKept == ASSUME NEW u, runs'[u] = runs[u] PROVE Kept(u)
BY DEF Kept

(* Rewriting the latest run of the newest version keeps them too.          *)
LEMMA LatestKept ==
    ASSUME TypeOK, NEW u \in Versions, u = count, NEW r,
           runs'[u] = [runs[u] EXCEPT ![Len(runs[u])] = r]
    PROVE  Kept(u)
<1>1. runs[u] \in Seq(Run)
  BY DEF TypeOK
<1>2. PICK n \in Nat : DOMAIN runs[u] = 1 .. n /\ Len(runs[u]) = n
  BY <1>1
<1> DEFINE old == runs[u]
           new == [old EXCEPT ![Len(old)] = r]
<1>3. /\ DOMAIN new = DOMAIN old
      /\ \A i \in DOMAIN old : i # Len(old) => new[i] = old[i]
  OBVIOUS
<1>4. new = [i \in 1 .. n |-> new[i]]
  BY <1>2
<1>5. Len(new) = n
  BY <1>2, <1>4
<1>6. runs'[u] = new
  OBVIOUS
<1> HIDE DEF new
<1>7. \A i \in DOMAIN old : i # Len(old) => runs'[u][i] = old[i]
  BY <1>3, <1>6
<1> QED BY <1>2, <1>3, <1>5, <1>6, <1>7 DEF Kept

(* Every step but a claim of this version keeps its runs.                  *)
LEMMA StepKeeps ==
    ASSUME PInv, [Next]_vars, NEW u \in Versions,
           ~(\E status, stop : Claim(u, status, stop))
    PROVE  Kept(u)
<1>1. TypeOK /\ \A w \in Versions : Local(w)
  BY DEF PInv
<1>2. CASE runs' = runs
  BY <1>2, SameKept
<1>3. CASE \E w \in Versions : ClaimTurn(w) \/ ClaimRefused(w)
  <2>1. PICK w \in Versions : \E status, stop : Claim(w, status, stop)
    BY <1>3 DEF ClaimTurn, ClaimRefused
  <2>2. w # u /\ runs'[u] = runs[u]
    BY <1>1, <2>1 DEF Claim, TypeOK
  <2> QED BY <2>2, SameKept
<1>4. CASE \E w \in Versions : Observe(w) \/ FinishTurn(w)
  <2>1. PICK w \in Versions : runner[w] = "TURN" /\ \E r : Rewrite(w, r)
    BY <1>4 DEF Observe, FinishTurn, RefuseTurn, Propose, Review, RejectAnswer, Answered,
                EndTurn
  <2>2. w = count
    BY <1>1, <2>1 DEF Local, Asked
  <2>3. CASE w = u
    <3>1. PICK r : runs' = [runs EXCEPT ![u][Len(runs[u])] = r]
      BY <2>1, <2>3 DEF Rewrite
    <3>2. runs'[u] = [runs[u] EXCEPT ![Len(runs[u])] = r]
      BY <1>1, <3>1 DEF TypeOK
    <3> QED BY <1>1, <2>2, <2>3, <3>2, LatestKept
  <2>4. CASE w # u
    <3>1. runs'[u] = runs[u]
      BY <1>1, <2>1, <2>4 DEF Rewrite, TypeOK
    <3> QED BY <3>1, SameKept
  <2> QED BY <2>3, <2>4
<1>5. CASE Restart
  <2>1. CASE LatestIs(u, "RUNNING")
    <3>1. u = count
      BY <1>1, <2>1 DEF Local, Asked
    <3>2. runs'[u] = [runs[u] EXCEPT ![Len(runs[u])] =
                        [@ EXCEPT !.status = "HUMAN_REQUIRED", !.stop = "INTERRUPTED"]]
      BY <1>5, <2>1 DEF Restart
    <3> QED BY <1>1, <3>1, <3>2, LatestKept
  <2>2. CASE ~LatestIs(u, "RUNNING")
    BY <1>5, <2>2, SameKept DEF Restart
  <2> QED BY <2>1, <2>2
<1>6. CASE Next
  <2>1. ASSUME NEW w \in Versions, Requests(w) PROVE runs' = runs
    BY <2>1 DEF Requests, PlanningStart, RunPlanning, AmendPlanReview, Grant, PlanningRetry,
                Accept, PauseTask, ResumeTask, PauseSubtask, LedgerUnchanged
  <2>2. ASSUME NEW w \in Versions, JobBegin(w) \/ StopPlanning(w) \/ TurnLost(w) \/ Expire(w)
        PROVE  runs' = runs
    BY <2>2 DEF JobBegin, StopPlanning, TurnLost, Expire
  <2>3. CASE \/ \E p \in Intakes : Intake(p)
             \/ PauseProject \/ ResumeProject \/ ChangeContext \/ Shutdown \/ Exit \/ Crash
    BY <1>2, <2>3 DEF Intake, Accept, PauseProject, ResumeProject, ChangeContext, Shutdown,
                      Exit, Crash
  <2> QED BY <1>2, <1>3, <1>4, <1>5, <1>6, <2>1, <2>2, <2>3 DEF Next, Loop
<1> QED BY <1>2, <1>6 DEF vars

(* A version that stays keeps its policy, and a new one has no runs.       *)
LEMMA VersionsGrow ==
    ASSUME PInv, [Next]_vars, NEW v \in Existing'
    PROVE  \/ v \in Existing /\ policy'[v] = policy[v]
           \/ v \notin Existing /\ runs'[v] = <<>>
<1>1. TypeOK /\ Opened /\ count \in Nat /\ Existing \subseteq Versions
  BY ExistingTyped DEF PInv
<1>2. CASE UNCHANGED <<count, policy>>
  BY <1>2 DEF Existing
<1>3. CASE \E n \in Versions : \E s, p : Accept(n, s, p)
  <2>1. PICK n \in Versions : \E s, p : Accept(n, s, p)
    BY <1>3
  <2>2. /\ n = count + 1 /\ count' = n /\ runs' = runs
        /\ \E p : policy' = [policy EXCEPT ![n] = p]
    BY <2>1 DEF Accept
  <2>3. CASE v = n
    <3>1. v \in Versions \ Existing
      BY <1>1, <2>1, <2>2, <2>3 DEF Existing
    <3> QED BY <1>1, <2>2, <3>1 DEF Opened
  <2>4. CASE v # n
    <3>1. v \in Existing
      BY <1>1, <2>2, <2>4 DEF Existing
    <3> QED BY <1>1, <2>2, <2>4, <3>1 DEF TypeOK
  <2> QED BY <2>3, <2>4
<1>4. UNCHANGED <<count, policy>> \/ \E n \in Versions : \E s, p : Accept(n, s, p)
  <2> USE DEF familyVars, LedgerUnchanged
  <2>1. CASE \E p \in Intakes : Intake(p)
    BY <2>1, PlanningAssumption DEF Intake, Versions
  <2>2. ASSUME NEW w \in Versions, Requests(w)
        PROVE  UNCHANGED <<count, policy>> \/ \E n \in Versions : \E s, p : Accept(n, s, p)
    BY <2>2 DEF Requests, PlanningStart, RunPlanning, AmendPlanReview, Grant, PlanningRetry,
                PauseTask, ResumeTask, PauseSubtask
  <2>3. ASSUME NEW w \in Versions, JobBegin(w) \/ TurnLost(w) \/ Expire(w) \/ Loop(w)
        PROVE  UNCHANGED <<count, policy>>
    BY <2>3 DEF JobBegin, StopPlanning, TurnLost, Expire, Loop, ClaimTurn, ClaimRefused, Claim,
                Observe, FinishTurn, RefuseTurn, Propose, Review, RejectAnswer, EndTurn
  <2>4. CASE PauseProject \/ ResumeProject \/ ChangeContext \/ Shutdown \/ Exit \/ Crash
             \/ Restart \/ UNCHANGED vars
    BY <2>4 DEF PauseProject, ResumeProject, ChangeContext, Shutdown, Exit, Crash, Restart, vars
  <2> QED BY <2>1, <2>2, <2>3, <2>4 DEF Next
<1> QED BY <1>2, <1>3, <1>4

-----------------------------------------------------------------------------
(* The budget is kept *)

(* A version keeps its budget when it and those it revises keep their      *)
(* runs.                                                                   *)
LEMMA KeptBudget ==
    ASSUME PInv, PInv', NEW v \in Existing, v \in Existing', Budget(v),
           policy'[v] = policy[v], \A u \in 1 .. v : Kept(u)
    PROVE  Budget(v)'
<1>1. /\ TypeOK /\ Lineage /\ TypeOK' /\ Lineage'
      /\ v \in Nat /\ v > 0 /\ v <= count /\ count \in Nat /\ v \in Versions
  BY ExistingTyped DEF PInv, Existing
<1>2. AccountedRuns(v)' = AccountedRuns(v)
  <2>1. \A x : x \in AccountedRuns(v) <=>
                  \E u \in 1 .. v : \E i \in DOMAIN runs[u] : x = <<u, i>>
    BY <1>1, AccountedIs DEF OfFamily
  <2>2. \A x : x \in AccountedRuns(v)' <=>
                  \E u \in 1 .. v : \E i \in DOMAIN runs'[u] : x = <<u, i>>
    BY <1>1, AccountedNext DEF OfFamily
  <2>3. \A u \in 1 .. v : DOMAIN runs'[u] = DOMAIN runs[u]
    BY DEF Kept
  <2> QED BY <2>1, <2>2, <2>3
<1>3. Len(runs'[v]) = Len(runs[v]) /\ (runs'[v] # <<>> => runs[v] # <<>>)
  <2>1. v \in 1 .. v
    BY <1>1
  <2>2. Len(runs'[v]) = Len(runs[v])
    BY <2>1 DEF Kept
  <2>3. runs[v] \in Seq(Run) /\ runs'[v] \in Seq(Run)
    BY <1>1 DEF TypeOK
  <2> QED BY <2>2, <2>3
<1>4. EarlierRuns(v)' = EarlierRuns(v)
  BY <1>2, <1>3 DEF EarlierRuns
<1>5. ASSUME NEW x \in EarlierRuns(v), runs[x[1]][x[2]].usage
      PROVE  runs'[x[1]][x[2]].usage
  <2>1. PICK u \in 1 .. v : \E i \in DOMAIN runs[u] : x = <<u, i>>
    BY <1>1, AccountedIs DEF EarlierRuns, OfFamily
  <2>2. PICK i \in DOMAIN runs[u] : x = <<u, i>>
    BY <2>1
  <2>3. Kept(u) /\ x[1] = u /\ x[2] = i
    BY <2>2
  <2>4. ~(u = count /\ i = Len(runs[u]))
    BY <1>1, <2>2 DEF EarlierRuns
  <2> QED BY <1>5, <2>2, <2>3, <2>4 DEF Kept
<1> QED BY <1>3, <1>4, <1>5 DEF Budget

(* A claim finds the usage of all earlier runs known and below the limit.  *)
LEMMA ClaimBudget ==
    ASSUME PInv, PInv', NEW v \in Existing, v \in Existing', NEW status, NEW stop,
           Claim(v, status, stop), policy'[v] = policy[v],
           \A u \in 1 .. (v - 1) : Kept(u)
    PROVE  Budget(v)'
<1>1. /\ TypeOK /\ Lineage /\ TypeOK' /\ Lineage'
      /\ v \in Nat /\ v > 0 /\ v <= count /\ count \in Nat /\ v \in Versions
  BY ExistingTyped DEF PInv, Existing
<1>2. PICK r : runs' = [runs EXCEPT ![v] = Append(@, r)]
  BY DEF Claim
<1>3. /\ runs[v] \in Seq(Run) /\ runs'[v] \in Seq(Run) /\ runs'[v] = Append(runs[v], r)
  BY <1>1, <1>2 DEF TypeOK
<1>4. /\ Len(runs[v]) \in Nat /\ Len(runs'[v]) = Len(runs[v]) + 1
      /\ DOMAIN runs[v] = 1 .. Len(runs[v]) /\ DOMAIN runs'[v] = 1 .. Len(runs'[v])
      /\ \A i \in 1 .. Len(runs[v]) : runs'[v][i] = runs[v][i]
  BY <1>3
<1>5. ~OutOfBudget(v)
  BY DEF Claim, MayClaim, Phase
<1>6. \A x : x \in AccountedRuns(v) <=>
                  \E u \in 1 .. v : \E i \in DOMAIN runs[u] : x = <<u, i>>
  BY <1>1, AccountedIs DEF OfFamily
<1>7. \A x : x \in AccountedRuns(v)' <=>
                  \E u \in 1 .. v : \E i \in DOMAIN runs'[u] : x = <<u, i>>
  BY <1>1, AccountedNext DEF OfFamily
<1>8. \A u \in 1 .. v : u # v => Kept(u)
  BY <1>1
<1>9. EarlierRuns(v)' = AccountedRuns(v)
  <2>1. ASSUME NEW x \in EarlierRuns(v)' PROVE x \in AccountedRuns(v)
    <3>1. PICK u \in 1 .. v : \E i \in DOMAIN runs'[u] : x = <<u, i>>
      BY <1>7, <2>1 DEF EarlierRuns
    <3>2. PICK i \in DOMAIN runs'[u] : x = <<u, i>>
      BY <3>1
    <3>3. x # <<v, Len(runs'[v])>>
      BY <2>1 DEF EarlierRuns
    <3>4. i \in DOMAIN runs[u]
      BY <1>4, <1>8, <3>2, <3>3 DEF Kept
    <3> QED BY <1>6, <3>2, <3>4
  <2>2. ASSUME NEW x \in AccountedRuns(v) PROVE x \in EarlierRuns(v)'
    <3>1. PICK u \in 1 .. v : \E i \in DOMAIN runs[u] : x = <<u, i>>
      BY <1>6, <2>2
    <3>2. PICK i \in DOMAIN runs[u] : x = <<u, i>>
      BY <3>1
    <3>3. i \in DOMAIN runs'[u] /\ <<u, i>> # <<v, Len(runs'[v])>>
      BY <1>4, <1>8, <3>2 DEF Kept
    <3> QED BY <1>7, <3>2, <3>3 DEF EarlierRuns
  <2> QED BY <2>1, <2>2
<1>10. ASSUME policy[v].hard
       PROVE  \A x \in EarlierRuns(v)' : runs'[x[1]][x[2]].usage
  <2>1. Reported(v) = AccountedRuns(v)
    BY <1>5, <1>10 DEF OutOfBudget, UsageComplete
  <2>2. ASSUME NEW x \in AccountedRuns(v) PROVE runs'[x[1]][x[2]].usage
    <3>1. PICK u \in 1 .. v : \E i \in DOMAIN runs[u] : x = <<u, i>>
      BY <1>6, <2>2
    <3>2. PICK i \in DOMAIN runs[u] : x = <<u, i>>
      BY <3>1
    <3>3. runs[u][i].usage
      BY <2>1, <2>2, <3>2 DEF Reported
    <3>4. CASE u = v
      BY <1>4, <3>2, <3>3, <3>4
    <3>5. CASE u # v
      <4>1. u # count
        BY <1>1, <3>5
      <4> QED BY <1>8, <3>2, <3>3, <3>5, <4>1 DEF Kept
    <3> QED BY <3>4, <3>5
  <2> QED BY <1>9, <2>2
<1>11. policy[v].hard /\ ~policy[v].exception => Cardinality(EarlierRuns(v)') < policy[v].limit
  <2>1. ASSUME policy[v].hard, ~policy[v].exception
        PROVE  Cardinality(AccountedRuns(v)) < policy[v].limit
    <3>1. Reported(v) = AccountedRuns(v) /\ ~(TotalTokens(v) >= policy[v].limit)
      BY <1>5, <2>1 DEF OutOfBudget, UsageComplete, Metered
    <3>2. policy[v].limit \in Nat
      BY <1>1 DEF TypeOK, Policy
    <3>3. Cardinality(AccountedRuns(v)) \in Nat
      <4>1. AccountedRuns(v) \subseteq (1 .. v) \X (1 .. 6)
        <5>1. ASSUME NEW x \in AccountedRuns(v) PROVE x \in (1 .. v) \X (1 .. 6)
          <6>1. PICK u \in 1 .. v : \E i \in DOMAIN runs[u] : x = <<u, i>>
            BY <1>6, <5>1
          <6>2. u \in Versions
            BY <1>1, PlanningAssumption DEF Versions
          <6>3. runs[u] \in Seq(Run) /\ Len(runs[u]) <= 6
            BY <1>1, <6>2 DEF TypeOK, PInv, Local, Readable
          <6> QED BY <6>1, <6>3
        <5> QED BY <5>1
      <4>2. IsFiniteSet(1 .. v) /\ IsFiniteSet(1 .. 6)
        <5>1. v \in Int /\ 1 \in Int /\ 6 \in Int
          BY <1>1
        <5> QED BY <5>1, FS_Interval
      <4>3. IsFiniteSet((1 .. v) \X (1 .. 6))
        BY <4>2, FS_Product
      <4> QED BY <4>1, <4>3, FS_Subset, FS_CardinalityType
    <3> QED BY <3>1, <3>2, <3>3 DEF TotalTokens
  <2> QED BY <1>9, <2>1
<1> QED BY <1>10, <1>11 DEF Budget

(* Every step keeps every budget.                                          *)
LEMMA BudgetSteps == PInv /\ Budgets /\ [Next]_vars => Budgets'
<1> SUFFICES ASSUME PInv, Budgets, [Next]_vars, NEW v \in Existing' PROVE Budget(v)'
  BY DEF Budgets
<1>1. PInv'
  BY PlanningSteps
<1>2. CASE v \notin Existing
  BY <1>2, VersionsGrow DEF Budget
<1>3. CASE v \in Existing
  <2>1. policy'[v] = policy[v] /\ Budget(v)
    BY <1>3, VersionsGrow DEF Budgets
  <2>2. v \in Nat /\ v <= count /\ count \in Nat /\ \A u \in 1 .. v : u \in Versions
    BY <1>3, ExistingTyped DEF PInv, Existing
  <2>3. ASSUME NEW u \in Versions, u # count PROVE Kept(u)
    <3>1. ASSUME NEW status, NEW stop, Claim(u, status, stop) PROVE FALSE
      <4>1. u \in Existing /\ ~HasSuccessor(u)
        BY <3>1 DEF Claim, PInv, Opened
      <4> QED BY <2>3, <4>1, NewestIsLast DEF PInv
    <3> QED BY <3>1, StepKeeps
  <2>4. CASE \E status, stop : Claim(v, status, stop)
    <3>1. \A u \in 1 .. (v - 1) : u \in Versions /\ u # count
      BY <2>2
    <3> QED BY <1>1, <1>3, <2>1, <2>3, <2>4, <3>1, ClaimBudget
  <2>5. CASE ~(\E status, stop : Claim(v, status, stop))
    <3>1. ASSUME NEW u \in 1 .. v PROVE Kept(u)
      <4>1. u = v \/ u # count
        BY <2>2
      <4> QED BY <2>2, <2>3, <2>5, <4>1, StepKeeps
    <3> QED BY <1>1, <1>3, <2>1, <3>1, KeptBudget
  <2> QED BY <2>4, <2>5
<1> QED BY <1>2, <1>3

(* No turn of a hard budget was asked for before the usage of every        *)
(* earlier one, in all versions, was known, and, unless that version       *)
(* carries an exception, below the limit.                                  *)
THEOREM BudgetsAreHard == Spec => []HardBudget
<1>1. Init => Budgets
  <2>1. Init => Existing = {}
    BY DEF Init, Existing
  <2> QED BY <2>1 DEF Budgets
<1>2. PInv /\ Budgets => HardBudget
  <2> SUFFICES ASSUME PInv, Budgets, NEW v \in Existing, policy[v].hard, runs[v] # <<>>
               PROVE  /\ EarlierRuns(v) \subseteq Reported(v)
                      /\ policy[v].exception \/ Cardinality(EarlierRuns(v)) < policy[v].limit
    BY DEF HardBudget, EarlierRuns
  <2>1. Budget(v)
    BY DEF Budgets
  <2> QED BY <2>1 DEF Budget, EarlierRuns, Reported
<1> QED BY <1>1, <1>2, BudgetSteps, PlanningInvariant, PTL DEF Spec
=============================================================================
