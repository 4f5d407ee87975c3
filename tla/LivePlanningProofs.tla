------------------------- MODULE LivePlanningProofs -------------------------
(***************************************************************************)
(* One plan that work is done under, for every number of versions, every   *)
(* policy, every interleaving of people, jobs and turns: the ledger stays  *)
(* readable, an approval is fresh, the record of a version that was        *)
(* revised or granted is frozen, and planning implements PlanAuthority.    *)
(***************************************************************************)
EXTENDS LivePlanning, SequenceTheorems, FiniteSetTheorems, TLAPS

Undecided == {"NONE", "AWAITING_REVIEW", "AWAITING_REVISION"}

(* Each version revises the one before it, so only the newest has none     *)
(* that revises it.                                                        *)
Lineage == \A v \in Versions : parent[v] = IF v <= count THEN v - 1 ELSE 0

(* What is queued or runs exists, and what does not exist has no record.   *)
Opened ==
    /\ queue \in Seq(Existing) /\ jobs \subseteq Existing /\ paused \subseteq Existing
    /\ \A v \in Versions \ Existing :
          /\ runner[v] = "NONE"
          /\ candidates[v] = 0 /\ decisions[v] = <<>> /\ runs[v] = <<>>

(* No job and no loop is left when the service is down.                    *)
Halted == service = "DOWN" => jobs = {} /\ \A v \in Versions : runner[v] = "NONE"

OneGrant == granted \subseteq {count} /\ \A v \in granted : ReviewPhase(v) = "APPROVED"

(* The turn under way is that of the newest version, for its undecided     *)
(* plan.                                                                   *)
Asked(v) ==
    /\ v = count
    /\ ReviewPhase(v) \in Undecided
    /\ Last(runs[v]).rev = candidates[v]
    /\ Last(runs[v]).role = IF ReviewPhase(v) = "AWAITING_REVIEW" THEN "REVIEWER" ELSE "PLANNER"

(* Each completed turn left a candidate or a decision.                     *)
Open(v) == IF runs[v] = <<>> \/ LatestIs(v, "COMPLETED") THEN 0 ELSE 1
Counted(v) == Len(runs[v]) <= candidates[v] + Len(decisions[v]) + Open(v)

Readable(v) ==
    /\ Len(runs[v]) <= 6
    /\ \A i \in 1 .. (Len(runs[v]) - 1) : runs[v][i].status = "COMPLETED"

Fresh(v) ==
    ReviewPhase(v) = "APPROVED" /\ ~policy[v].self =>
        /\ LatestIs(v, "COMPLETED")
        /\ Last(runs[v]).role = "REVIEWER"
        /\ Last(runs[v]).rev = candidates[v]

(* The record of one version: every candidate but the last was decided,    *)
(* and turns, candidates and decisions fit each other.                     *)
Local(v) ==
    /\ Len(decisions[v]) <= candidates[v] /\ candidates[v] <= Len(decisions[v]) + 1
    /\ runner[v] = "TURN" => LatestIs(v, "RUNNING") /\ turns[v] < 6
    /\ LatestIs(v, "RUNNING") => Asked(v)
    /\ Counted(v) /\ Readable(v) /\ Fresh(v)

PInv ==
    /\ TypeOK /\ Lineage /\ Opened /\ Halted /\ OneGrant
    /\ \A v \in Versions : Local(v)

-----------------------------------------------------------------------------
(* The replay, runs and queue *)

(* What each phase of the replay says of the candidates and decisions.     *)
LEMMA ReplayFacts ==
    ASSUME NEW n \in 0 .. 3, NEW ds \in Seq(Outcomes),
           Len(ds) <= n, n <= Len(ds) + 1
    PROVE  /\ Replay(n, ds) = "NONE" <=> n = 0
           /\ Replay(n, ds) = "AWAITING_REVIEW" <=> n = Len(ds) + 1
           /\ Replay(n, ds) = "AWAITING_REVISION" => n \in 1 .. 2 /\ n = Len(ds)
           /\ Replay(n, ds) = "APPROVED" => n > 0 /\ n = Len(ds) /\ ds[n] = "APPROVE"
BY DEF Replay, RevisionLimit

(* Only the newest version has no successor.                               *)
LEMMA NewestIsLast ==
    ASSUME TypeOK, Lineage, NEW v \in Existing
    PROVE  HasSuccessor(v) <=> v # count
<1>1. count \in Nat /\ count <= MaxVersions /\ Existing \subseteq Versions /\ v \in Nat
  BY PlanningAssumption DEF TypeOK, Existing, Versions
<1>2. CASE v = count
  BY <1>1, <1>2 DEF Lineage, HasSuccessor, Existing
<1>3. CASE v # count
  <2>1. v + 1 \in Existing /\ parent[v + 1] = v
    BY <1>1, <1>3 DEF Lineage, Existing, Versions
  <2> QED BY <2>1, <1>3 DEF HasSuccessor
<1> QED BY <1>2, <1>3

(* A version that may take a turn has none open and an undecided plan.     *)
LEMMA ReadyFacts ==
    ASSUME TypeOK, NEW v \in Versions, Phase(v) = "READY"
    PROVE  /\ ~LatestIs(v, "RUNNING") /\ ~LatestIs(v, "HUMAN_REQUIRED")
           /\ runs[v] = <<>> \/ LatestIs(v, "COMPLETED")
           /\ ReviewPhase(v) \in Undecided
<1>1. ~LatestIs(v, "RUNNING") /\ ~LatestIs(v, "HUMAN_REQUIRED")
  BY DEF Phase
<1>2. ReviewPhase(v) \notin {"HUMAN_REQUIRED", "APPROVED"}
  BY DEF Phase
<1>3. ReviewPhase(v) \in Undecided
  BY <1>2 DEF ReviewPhase, Replay, Undecided
<1>4. runs[v] = <<>> \/ LatestIs(v, "COMPLETED")
  <2>1. runs[v] \in Seq(Run)
    BY DEF TypeOK
  <2>2. CASE runs[v] # <<>>
    <3>1. runs[v][Len(runs[v])] \in Run
      BY <2>1, <2>2
    <3> QED BY <3>1, <2>2, <1>1 DEF LatestIs, Last, Run
  <2> QED BY <2>2
<1> QED BY <1>1, <1>3, <1>4

(* Draining moves versions from the queue to the jobs.                     *)
LEMMA DrainTyped ==
    ASSUME NEW S, NEW q \in Seq(S), NEW R \in SUBSET S, Drain(q, R)
    PROVE  queue' \in Seq(S) /\ jobs' \subseteq S
<1>1. CASE q # <<>>
  <2>1. Head(q) \in S /\ Tail(q) \in Seq(S)
    BY <1>1, HeadTailProperties
  <2> QED BY <2>1 DEF Drain
<1>2. CASE q = <<>>
  BY <1>2 DEF Drain
<1> QED BY <1>1, <1>2

(* Scheduling adds at most the version to the queue or the jobs.           *)
LEMMA ScheduleTyped ==
    ASSUME NEW S, queue \in Seq(S), jobs \subseteq S, NEW v \in S, Schedule(v)
    PROVE  queue' \in Seq(S) /\ jobs' \subseteq S
<1>1. CASE v \in jobs \/ v \in ToSet(queue)
  BY <1>1 DEF Schedule, jobVars
<1>2. CASE ~(v \in jobs \/ v \in ToSet(queue))
  <2>1. Append(queue, v) \in Seq(S)
    BY AppendProperties
  <2>2. Drain(Append(queue, v), jobs)
    BY <1>2 DEF Schedule
  <2> QED BY <2>1, <2>2, DrainTyped
<1> QED BY <1>1, <1>2

(* Taking a version off leaves a queue.                                    *)
LEMMA UnqueueTyped ==
    ASSUME NEW S, queue \in Seq(S), NEW v, Unqueue(v)
    PROVE  queue' \in Seq(S)
<1>1. CASE v \in ToSet(queue)
  <2>1. PICK i \in DOMAIN queue : queue' = RemoveAt(queue, i)
    BY <1>1 DEF Unqueue
  <2>2. i \in 1 .. Len(queue) /\ Len(queue) \in Nat
    BY <2>1
  <2>3. \A j \in 1 .. Len(queue) : queue[j] \in S
    BY ElementOfSeq
  <2>4. SubSeq(queue, 1, i - 1) \in Seq(S)
    BY <2>2, <2>3, SubSeqProperties
  <2>5. SubSeq(queue, i + 1, Len(queue)) \in Seq(S)
    BY <2>2, <2>3, SubSeqProperties
  <2> QED BY <2>1, <2>4, <2>5, ConcatProperties DEF RemoveAt
<1>2. CASE v \notin ToSet(queue)
  BY <1>2 DEF Unqueue
<1> QED BY <1>1, <1>2

(* Rewriting the latest run keeps the number of runs and all earlier ones. *)
LEMMA RewriteFacts ==
    ASSUME TypeOK, NEW v \in Versions, runs[v] # <<>>, NEW r \in Run, Rewrite(v, r)
    PROVE  /\ runs' \in [Versions -> Seq(Run)]
           /\ Len(runs'[v]) = Len(runs[v]) /\ runs'[v] # <<>>
           /\ Last(runs'[v]) = r
           /\ \A i \in 1 .. (Len(runs[v]) - 1) : runs'[v][i] = runs[v][i]
           /\ \A u \in Versions \ {v} : runs'[u] = runs[u]
<1>1. runs[v] \in Seq(Run) /\ Len(runs[v]) \in 1 .. Len(runs[v]) /\ Len(runs[v]) \in Nat
  BY DEF TypeOK
<1> DEFINE new == [runs[v] EXCEPT ![Len(runs[v])] = r]
<1>2. /\ new \in Seq(Run) /\ Len(new) = Len(runs[v])
      /\ \A j \in 1 .. Len(runs[v]) : new[j] = IF j = Len(runs[v]) THEN r ELSE runs[v][j]
  BY <1>1, ExceptSeq
<1>3. runs' = [runs EXCEPT ![v] = new]
  BY DEF Rewrite
<1>4. runs'[v] = new /\ runs' \in [Versions -> Seq(Run)]
  BY <1>2, <1>3 DEF TypeOK
<1> HIDE DEF new
<1>5. new # <<>> /\ Last(new) = r
  BY <1>1, <1>2 DEF Last
<1>6. \A i \in 1 .. (Len(runs[v]) - 1) : new[i] = runs[v][i]
  BY <1>1, <1>2
<1>7. \A u \in Versions \ {v} : runs'[u] = runs[u]
  BY <1>3 DEF TypeOK
<1> QED BY <1>2, <1>4, <1>5, <1>6, <1>7

-----------------------------------------------------------------------------
(* Initial states and frames *)

(* The invariant holds at the start.                                       *)
LEMMA PlanningStarts == Init => PInv
<1> SUFFICES ASSUME Init PROVE PInv
  OBVIOUS
<1>1. TypeOK
  <2>1. NoPolicy \in Policy
    BY DEF NoPolicy, Policy
  <2>2. /\ count \in 0 .. MaxVersions
        /\ parent \in [Versions -> 0 .. MaxVersions]
        /\ candidates \in [Versions -> 0 .. 3]
        /\ turns \in [Versions -> 0 .. 6]
    BY PlanningAssumption DEF Init
  <2>3. policy \in [Versions -> Policy]
    BY <2>1 DEF Init
  <2>4. decisions \in [Versions -> Seq(Outcomes)] /\ runs \in [Versions -> Seq(Run)]
    BY DEF Init
  <2>5. captured \in [Versions -> Contexts \cup {Dirty}] /\ context \in Contexts \cup {Dirty}
    BY DEF Init
  <2>6. runner \in [Versions -> {"NONE", "LOOP", "TURN"}]
    BY DEF Init
  <2>7. /\ queue \in Seq(Versions) /\ granted \subseteq Versions /\ paused \subseteq Versions
        /\ expired \subseteq Versions /\ jobs \subseteq Versions /\ direct \subseteq Versions
        /\ projectPaused \in BOOLEAN /\ service \in {"UP", "STOPPING", "DOWN"}
    BY EmptySeq DEF Init
  <2> QED BY <2>2, <2>3, <2>4, <2>5, <2>6, <2>7 DEF TypeOK
<1>2. Lineage /\ Opened /\ Halted /\ OneGrant
  BY PlanningAssumption DEF Init, Lineage, Opened, Halted, OneGrant, Existing, Versions
<1>3. ASSUME NEW v \in Versions PROVE Local(v)
  BY <1>3 DEF Init, Local, Counted, Open, Readable, Fresh, LatestIs, ReviewPhase, Replay
<1> QED BY <1>1, <1>2, <1>3 DEF PInv

(* A version whose record is untouched keeps what is known of it.          *)
LEMMA LocalFrame ==
    ASSUME NEW v \in Versions, Local(v),
           runs'[v] = runs[v], candidates'[v] = candidates[v],
           decisions'[v] = decisions[v], policy'[v] = policy[v],
           runner'[v] = "TURN" => runner[v] = "TURN" /\ turns'[v] = turns[v],
           LatestIs(v, "RUNNING") => count' = count
    PROVE  Local(v)'
<1>1. ReviewPhase(v)' = ReviewPhase(v)
  BY DEF ReviewPhase
<1>2. \A s : LatestIs(v, s)' = LatestIs(v, s)
  BY DEF LatestIs, Last
<1>3. Last(runs[v])' = Last(runs[v])
  BY DEF Last
<1>4. Counted(v)' /\ Readable(v)'
  BY <1>2 DEF Local, Counted, Open, Readable
<1>5. Fresh(v)'
  BY <1>1, <1>2, <1>3 DEF Local, Fresh
<1>6. LatestIs(v, "RUNNING")' => Asked(v)'
  BY <1>1, <1>2, <1>3 DEF Local, Asked
<1> QED BY <1>2, <1>4, <1>5, <1>6 DEF Local

(* A step that leaves the ledger alone keeps the invariant.                *)
LEMMA QuietPreserves ==
    ASSUME PInv, UNCHANGED <<familyVars, planVars, runs, granted>>, TypeOK', Halted',
           queue' \in Seq(Existing), jobs' \subseteq Existing, paused' \subseteq Existing,
           \A v \in Versions \ Existing : runner'[v] = "NONE",
           \A v \in Versions :
               runner'[v] = "TURN" => runner[v] = "TURN" /\ turns'[v] = turns[v]
    PROVE  PInv'
<1> USE DEF familyVars, planVars
<1>1. Lineage'
  BY DEF PInv, Lineage
<1>2. Opened'
  BY DEF PInv, Opened, Existing
<1>3. OneGrant'
  BY DEF PInv, OneGrant, ReviewPhase
<1>4. ASSUME NEW v \in Versions PROVE Local(v)'
  BY <1>4, LocalFrame DEF PInv
<1> QED BY <1>1, <1>2, <1>3, <1>4 DEF PInv

-----------------------------------------------------------------------------
(* Steps of people, jobs and the process *)

(* The steps that leave the ledger alone. *)
QuietStep(v) ==
    \/ PlanningStart(v) \/ RunPlanning(v) \/ JobBegin(v) \/ StopPlanning(v)
    \/ TurnLost(v) \/ PauseTask(v) \/ ResumeTask(v) \/ PauseSubtask(v) \/ Expire(v)
QuietWorld == PauseProject \/ ResumeProject \/ ChangeContext \/ Shutdown \/ Exit \/ Crash

(* What the quiet steps of a version leave unchanged.                      *)
LEMMA QuietFrame ==
    ASSUME NEW v \in Versions, QuietStep(v)
    PROVE  UNCHANGED <<familyVars, planVars, runs, granted>>
BY DEF QuietStep, PlanningStart, RunPlanning, JobBegin, StopPlanning, TurnLost,
       PauseTask, ResumeTask, PauseSubtask, Expire, LedgerUnchanged, settingVars

(* The existing versions are versions.                                     *)
LEMMA ExistingTyped ==
    ASSUME TypeOK
    PROVE  /\ count \in Nat /\ Existing \subseteq Versions
           /\ \A n : n \in Versions /\ n <= count <=> n \in Existing
BY PlanningAssumption DEF TypeOK, Existing, Versions

(* Starting and ending jobs and loops keeps the invariant.                 *)
LEMMA QuietJobs ==
    ASSUME PInv, NEW v \in Versions, QuietStep(v)
    PROVE  queue' \in Seq(Existing) /\ jobs' \subseteq Existing
<1>1. queue \in Seq(Existing) /\ jobs \subseteq Existing
  BY DEF PInv, Opened
<1>2. CASE PlanningStart(v)
  BY <1>1, <1>2, ScheduleTyped DEF PlanningStart
<1>3. CASE RunPlanning(v)
  BY <1>1, <1>3 DEF RunPlanning, jobVars
<1>4. CASE JobBegin(v)
  <2>1. jobs \ {v} \in SUBSET Existing
    BY <1>1
  <2>2. CASE UNCHANGED jobVars
    BY <1>1, <2>2 DEF jobVars
  <2>3. CASE Drain(queue, jobs \ {v})
    BY <1>1, <2>1, <2>3, DrainTyped
  <2> QED BY <1>4, <2>2, <2>3 DEF JobBegin
<1>5. CASE StopPlanning(v) \/ TurnLost(v)
  <2>1. Leave(v)
    BY <1>5 DEF StopPlanning, TurnLost
  <2>2. jobs \ {v} \in SUBSET Existing
    BY <1>1
  <2>3. CASE v \in direct
    BY <1>1, <2>1, <2>3 DEF Leave, jobVars
  <2>4. CASE v \notin direct
    BY <1>1, <2>1, <2>2, <2>4, DrainTyped DEF Leave
  <2> QED BY <2>3, <2>4
<1>6. CASE PauseTask(v) \/ PauseSubtask(v)
  <2>1. Unqueue(v) /\ jobs' = jobs
    BY <1>6 DEF PauseTask, PauseSubtask
  <2> QED BY <1>1, <2>1, UnqueueTyped
<1>7. CASE ResumeTask(v)
  <2>1. CASE Schedule(v)
    <3>1. v \in Existing
      BY <1>7, <2>1 DEF ResumeTask, PInv, Opened
    <3> QED BY <1>1, <2>1, <3>1, ScheduleTyped
  <2>2. CASE UNCHANGED jobVars
    BY <1>1, <2>2 DEF jobVars
  <2> QED BY <1>7, <2>1, <2>2 DEF ResumeTask
<1>8. CASE Expire(v)
  BY <1>1, <1>8 DEF Expire, jobVars
<1> QED BY <1>2, <1>3, <1>4, <1>5, <1>6, <1>7, <1>8 DEF QuietStep

(* So do the other quiet steps of a version.                               *)
LEMMA QuietVersion ==
    ASSUME PInv, NEW v \in Versions, QuietStep(v)
    PROVE  PInv'
<1>1. TypeOK /\ Opened
  BY DEF PInv
<1>2. UNCHANGED <<familyVars, planVars, runs, granted>>
  BY QuietFrame
<1>3. queue' \in Seq(Existing) /\ jobs' \subseteq Existing
  BY QuietJobs
<1>4. Existing \subseteq Versions
  BY <1>1, ExistingTyped
<1>5. queue' \in Seq(Versions) /\ jobs' \subseteq Versions
  BY <1>3, <1>4, SeqMonotonic
<1>6. /\ paused' \subseteq Existing /\ projectPaused' \in BOOLEAN /\ context' = context
      /\ expired' \subseteq Versions /\ service' = service
  BY <1>1, <1>4
  DEF QuietStep, PlanningStart, RunPlanning, JobBegin, StopPlanning, TurnLost, PauseTask,
      ResumeTask, PauseSubtask, Expire, LedgerUnchanged, settingVars, worldVars, TypeOK, Opened
<1>7. /\ runner' \in [Versions -> {"NONE", "LOOP", "TURN"}]
      /\ turns' \in [Versions -> 0 .. 6]
      /\ direct' \subseteq Versions
      /\ \A u \in Versions \ Existing : runner'[u] = "NONE"
      /\ \A u \in Versions : runner'[u] = "TURN" => runner[u] = "TURN" /\ turns'[u] = turns[u]
  <2>1. CASE UNCHANGED loopVars
    BY <1>1, <2>1 DEF loopVars, TypeOK, Opened
  <2>2. CASE RunPlanning(v)
    BY <1>1, <2>2 DEF RunPlanning, TypeOK, Opened
  <2>3. CASE JobBegin(v)
    BY <1>1, <2>3 DEF JobBegin, TypeOK, Opened
  <2>4. CASE Leave(v)
    BY <1>1, <2>4 DEF Leave, TypeOK, Opened
  <2>5. QuietStep(v) => UNCHANGED loopVars \/ RunPlanning(v) \/ JobBegin(v) \/ Leave(v)
    BY DEF QuietStep, PlanningStart, StopPlanning, TurnLost, PauseTask, ResumeTask,
           PauseSubtask, Expire
  <2> QED BY <2>1, <2>2, <2>3, <2>4, <2>5
<1>8. TypeOK'
  BY <1>1, <1>2, <1>4, <1>5, <1>6, <1>7 DEF TypeOK, familyVars, planVars
<1>9. Halted'
  <2>1. CASE service # "DOWN"
    BY <1>6, <2>1 DEF Halted
  <2>2. CASE service = "DOWN"
    <3>1. jobs = {} /\ runner[v] = "NONE"
      BY <2>2 DEF PInv, Halted
    <3>2. Expire(v)
      BY <2>2, <3>1 DEF QuietStep, PlanningStart, RunPlanning, JobBegin, StopPlanning,
                        TurnLost, PauseTask, ResumeTask, PauseSubtask, Serving
    <3> QED BY <3>2 DEF Expire, jobVars, loopVars, PInv, Halted
  <2> QED BY <2>1, <2>2
<1> QED BY <1>2, <1>3, <1>6, <1>7, <1>8, <1>9, QuietPreserves

(* So do the steps of the project, the world and the process.              *)
LEMMA QuietProcess ==
    ASSUME PInv, QuietWorld
    PROVE  PInv'
<1>1. TypeOK /\ Opened
  BY DEF PInv
<1>2. UNCHANGED <<familyVars, planVars, runs, granted>>
  BY DEF QuietWorld, PauseProject, ResumeProject, ChangeContext, Shutdown, Exit, Crash,
         settingVars
<1>3. queue' \in Seq(Existing) /\ jobs' \subseteq Existing
  <2>1. queue' \in {queue, <<>>} /\ jobs' \in {jobs, {}}
    BY DEF QuietWorld, PauseProject, ResumeProject, ChangeContext, Shutdown, Exit, Crash,
           jobVars
  <2> QED BY <1>1, <2>1, EmptySeq DEF Opened
<1>4. Existing \subseteq Versions
  BY <1>1, ExistingTyped
<1>5. queue' \in Seq(Versions) /\ jobs' \subseteq Versions
  BY <1>3, <1>4, SeqMonotonic
<1>6. /\ paused' = paused /\ projectPaused' \in BOOLEAN /\ context' \in Contexts \cup {Dirty}
      /\ expired' = expired /\ service' \in {"UP", "STOPPING", "DOWN"}
  BY <1>1
  DEF QuietWorld, PauseProject, ResumeProject, ChangeContext, Shutdown, Exit, Crash,
      settingVars, worldVars, TypeOK
<1>7. /\ runner' \in [Versions -> {"NONE", "LOOP", "TURN"}]
      /\ turns' \in [Versions -> 0 .. 6]
      /\ direct' \subseteq Versions
      /\ \A u \in Versions \ Existing : runner'[u] = "NONE"
      /\ \A u \in Versions : runner'[u] = "TURN" => runner[u] = "TURN" /\ turns'[u] = turns[u]
  <2>1. CASE UNCHANGED loopVars
    BY <1>1, <2>1 DEF loopVars, TypeOK, Opened
  <2>2. CASE Crash
    BY <1>1, <2>2 DEF Crash, TypeOK, Opened
  <2>3. UNCHANGED loopVars \/ Crash
    BY DEF QuietWorld, PauseProject, ResumeProject, ChangeContext, Shutdown, Exit
  <2> QED BY <2>1, <2>2, <2>3
<1>8. paused' \subseteq Existing
  BY <1>1, <1>6 DEF Opened
<1>9. TypeOK'
  BY <1>1, <1>2, <1>5, <1>6, <1>7 DEF TypeOK, familyVars, planVars
<1>10. Halted'
  BY DEF QuietWorld, PauseProject, ResumeProject, ChangeContext, Shutdown, Exit, Crash,
         Serving, jobVars, loopVars, PInv, Halted
<1> QED BY <1>2, <1>3, <1>7, <1>8, <1>9, <1>10, QuietPreserves

-----------------------------------------------------------------------------
(* New versions and the grant *)

(* A new version opens after the newest, which is neither granted nor in a *)
(* turn, with no plan or with one that its planner may have checked.       *)
LEMMA OpenPreserves ==
    ASSUME PInv, NEW n \in Versions, NEW p \in Policy, Accept(n, count, p), Serving,
           granted = {}, ~LatestIs(count, "RUNNING") \/ count = 0,
           NEW c \in {0, 1}, NEW ds \in Seq(Outcomes),
           Len(ds) <= c, ds # <<>> => p.self,
           candidates' = [candidates EXCEPT ![n] = c],
           decisions' = [decisions EXCEPT ![n] = ds],
           paused' \subseteq 1 .. n, queue' \in Seq(1 .. n), jobs' \subseteq 1 .. n
    PROVE  PInv'
<1>1. TypeOK /\ Lineage /\ Opened
  BY DEF PInv
<1>2. /\ n = count + 1 /\ count \in Nat /\ count <= MaxVersions /\ MaxVersions \in Nat
      /\ Existing = 1 .. count /\ Existing' = 1 .. n /\ Existing' \subseteq Versions
      /\ n \in Versions \ Existing
  BY <1>1, PlanningAssumption DEF Accept, TypeOK, Existing, Versions
<1>3. /\ UNCHANGED <<runs, granted, projectPaused, context, expired, service,
                      runner, turns, direct>>
      /\ policy' = [policy EXCEPT ![n] = p] /\ count' = n
      /\ parent' = [parent EXCEPT ![n] = count]
      /\ captured' = [captured EXCEPT ![n] = context]
  BY DEF Accept, worldVars, loopVars
<1>4. queue' \in Seq(Versions) /\ jobs' \subseteq Versions /\ paused' \subseteq Versions
  BY <1>2, SeqMonotonic
<1>5. TypeOK'
  <2>1. /\ count' \in 0 .. MaxVersions
        /\ parent' \in [Versions -> 0 .. MaxVersions]
        /\ candidates' \in [Versions -> 0 .. 3]
    <3>1. count' \in 0 .. MaxVersions /\ count \in 0 .. MaxVersions
      BY <1>1, <1>2, <1>3, n \in 1 .. MaxVersions DEF TypeOK, Versions
    <3>2. parent \in [Versions -> 0 .. MaxVersions] /\ candidates \in [Versions -> 0 .. 3]
      BY <1>1 DEF TypeOK
    <3>3. c \in 0 .. 3
      OBVIOUS
    <3> QED BY <1>3, <3>1, <3>2, <3>3
  <2>2. /\ policy' \in [Versions -> Policy]
        /\ captured' \in [Versions -> Contexts \cup {Dirty}]
        /\ decisions' \in [Versions -> Seq(Outcomes)]
    BY <1>1, <1>2, <1>3 DEF TypeOK
  <2> QED BY <1>1, <1>3, <1>4, <2>1, <2>2 DEF TypeOK
<1>6. Lineage'
  <2> SUFFICES ASSUME NEW u \in Versions
               PROVE  parent'[u] = IF u <= n THEN u - 1 ELSE 0
    BY <1>3 DEF Lineage
  <2>1. u \in Nat /\ parent[u] = IF u <= count THEN u - 1 ELSE 0
    BY <1>1 DEF Lineage, Versions
  <2>2. parent'[u] = IF u = n THEN count ELSE parent[u]
    BY <1>1, <1>3 DEF TypeOK
  <2>3. CASE u = n
    BY <1>2, <2>2, <2>3
  <2>4. CASE u # n
    BY <1>2, <2>1, <2>2, <2>4
  <2> QED BY <2>3, <2>4
<1>7. Opened'
  BY <1>1, <1>2, <1>3 DEF Opened, TypeOK
<1>8. OneGrant' /\ Halted'
  BY <1>3 DEF OneGrant, Halted, Serving
<1>9. ASSUME NEW v \in Versions PROVE Local(v)'
  <2>1. CASE v # n
    <3>1. LatestIs(v, "RUNNING") => count' = count
      <4>1. Local(v)
        BY DEF PInv
      <4>2. LatestIs(v, "RUNNING") => v = count
        BY <4>1 DEF Local, Asked
      <4>3. v # 0
        BY DEF Versions
      <4> QED BY <4>2, <4>3
    <3> QED BY <1>1, <1>3, <2>1, <3>1, LocalFrame DEF PInv, TypeOK
  <2>2. CASE v = n
    <3>1. /\ runs'[v] = <<>> /\ runner'[v] = "NONE"
          /\ candidates'[v] = c /\ decisions'[v] = ds /\ policy'[v] = p
      BY <1>1, <1>2, <1>3, <2>2 DEF Opened, TypeOK
    <3>2. ~LatestIs(v, "RUNNING")' /\ Counted(v)' /\ Readable(v)'
      BY <3>1 DEF LatestIs, Counted, Open, Readable
    <3>3. Fresh(v)'
      <4>1. CASE c = 0
        BY <3>1, <4>1 DEF Fresh, ReviewPhase, Replay
      <4>2. CASE c = 1 /\ ~p.self
        BY <3>1, <4>2 DEF Fresh, ReviewPhase, Replay
      <4>3. CASE p.self
        BY <3>1, <4>3 DEF Fresh
      <4> QED BY <4>1, <4>2, <4>3
    <3>4. Len(ds) <= c /\ c <= Len(ds) + 1
      OBVIOUS
    <3> QED BY <3>1, <3>2, <3>3, <3>4 DEF Local
  <2> QED BY <2>1, <2>2
<1> QED BY <1>5, <1>6, <1>7, <1>8, <1>9 DEF PInv

(* The first version opens.                                                *)
LEMMA IntakePreserves ==
    ASSUME PInv, NEW p \in Intakes, Intake(p) PROVE PInv'
<1>1. TypeOK /\ Opened /\ OneGrant
  BY DEF PInv
<1>2. Serving /\ count = 0 /\ Accept(1, count, p) /\ 1 \in Versions /\ p \in Policy
  BY PlanningAssumption DEF Intake, Versions
<1>3. granted = {}
  BY <1>1, <1>2 DEF OneGrant, TypeOK, Versions
<1>4. candidates[1] = 0 /\ decisions[1] = <<>>
  BY <1>1, <1>2 DEF Opened, Existing
<1>5. candidates' = [candidates EXCEPT ![1] = 0] /\ decisions' = [decisions EXCEPT ![1] = <<>>]
  BY <1>1, <1>2, <1>4 DEF Intake, planVars, TypeOK
<1>6. paused' \subseteq 1 .. 1 /\ queue' \in Seq(1 .. 1) /\ jobs' \subseteq 1 .. 1
  <2>1. Existing \subseteq 1 .. 1
    BY <1>2 DEF Existing
  <2> QED BY <1>1, <2>1, SeqMonotonic DEF Intake, jobVars, Opened
<1> DEFINE none == <<>>
<1>7. none \in Seq(Outcomes) /\ Len(none) <= 0 /\ (none # <<>> => p.self)
  OBVIOUS
<1>8. decisions' = [decisions EXCEPT ![1] = none]
  BY <1>5
<1> HIDE DEF none
<1> QED BY <1>2, <1>3, <1>5, <1>6, <1>7, <1>8, OpenPreserves

(* The newest version is the only one that can be revised, and then nothing*)
(* is granted.                                                             *)
LEMMA RevisedIsNewest ==
    ASSUME PInv, NEW v \in Existing, ~HasSuccessor(v), v \notin granted, Phase(v) # "RUNNING"
    PROVE  v = count /\ granted = {} /\ ~LatestIs(count, "RUNNING")
<1>1. v = count
  BY NewestIsLast DEF PInv
<1>2. granted = {}
  BY <1>1 DEF PInv, OneGrant
<1>3. ~LatestIs(v, "RUNNING")
  BY DEF Phase
<1> QED BY <1>1, <1>2, <1>3

(* A retry opens the next version, or schedules the one there is.          *)
LEMMA RetryPreserves ==
    ASSUME PInv, NEW v \in Versions, NEW p \in Preferences, PlanningRetry(v, p) PROVE PInv'
<1>1. TypeOK /\ Opened /\ v \in Existing /\ p \in Policy /\ Existing \subseteq Versions
      /\ Serving
  BY PlanningAssumption, ExistingTyped DEF PInv, PlanningRetry
<1>2. CASE \E u \in Existing :
              /\ parent[u] = v
              /\ IF Phase(u) = "READY" THEN Schedule(u) ELSE UNCHANGED jobVars
              /\ UNCHANGED <<familyVars, runs, granted, projectPaused,
                             worldVars, service, loopVars>>
  <2>1. PICK u \in Existing :
              /\ IF Phase(u) = "READY" THEN Schedule(u) ELSE UNCHANGED jobVars
              /\ UNCHANGED <<familyVars, runs, granted, projectPaused,
                             worldVars, service, loopVars>>
    BY <1>2
  <2>2. UNCHANGED <<familyVars, planVars, runs, granted>> /\ paused' = paused
    BY <2>1 DEF PlanningRetry
  <2>3. queue' \in Seq(Existing) /\ jobs' \subseteq Existing
    <3>1. queue \in Seq(Existing) /\ jobs \subseteq Existing
      BY <1>1 DEF Opened
    <3>2. CASE Schedule(u)
      BY <3>1, <3>2, ScheduleTyped
    <3>3. CASE UNCHANGED jobVars
      BY <3>1, <3>3 DEF jobVars
    <3> QED BY <2>1, <3>2, <3>3
  <2>4. queue' \in Seq(Versions) /\ jobs' \subseteq Versions
    BY <1>1, <2>3, SeqMonotonic
  <2>5. TypeOK'
    BY <1>1, <2>1, <2>2, <2>4 DEF TypeOK, familyVars, planVars, worldVars, loopVars
  <2>6. Halted'
    BY <1>1, <2>1 DEF Halted, Serving
  <2> QED BY <1>1, <2>1, <2>2, <2>3, <2>5, <2>6, QuietPreserves DEF Opened, loopVars
<1>3. CASE /\ ~HasSuccessor(v) /\ Phase(v) # "RUNNING"
           /\ \E n \in Versions :
                /\ Accept(n, v, p)
                /\ IF (Phase(n) = "READY")' THEN Schedule(n) ELSE UNCHANGED jobVars
  <2>1. PICK n \in Versions :
                /\ Accept(n, v, p)
                /\ IF (Phase(n) = "READY")' THEN Schedule(n) ELSE UNCHANGED jobVars
    BY <1>3
  <2>2. v = count /\ granted = {} /\ ~LatestIs(count, "RUNNING")
    BY <1>1, <1>3, RevisedIsNewest DEF PlanningRetry
  <2>3. n = count + 1 /\ Existing \subseteq 1 .. n /\ n \in 1 .. n /\ n \in Versions \ Existing
    BY <1>1, <2>1, ExistingTyped DEF Accept, Existing
  <2>4. queue \in Seq(1 .. n) /\ jobs \subseteq 1 .. n /\ paused' \subseteq 1 .. n
    BY <1>1, <2>3, SeqMonotonic DEF Opened, PlanningRetry
  <2>5. queue' \in Seq(1 .. n) /\ jobs' \subseteq 1 .. n
    <3>1. CASE Schedule(n)
      BY <2>3, <2>4, <3>1, ScheduleTyped
    <3>2. CASE UNCHANGED jobVars
      BY <2>4, <3>2 DEF jobVars
    <3> QED BY <2>1, <3>1, <3>2
  <2>6. candidates[n] = 0 /\ decisions[n] = <<>>
    BY <1>1, <2>3 DEF Opened
  <2>7. candidates' = [candidates EXCEPT ![n] = 0] /\ decisions' = [decisions EXCEPT ![n] = <<>>]
    BY <1>1, <2>6 DEF PlanningRetry, planVars, TypeOK
  <2> DEFINE none == <<>>
  <2>8. none \in Seq(Outcomes) /\ Len(none) <= 0 /\ (none # <<>> => p.self)
    OBVIOUS
  <2>9. decisions' = [decisions EXCEPT ![n] = none]
    BY <2>7
  <2> HIDE DEF none
  <2> QED BY <1>1, <2>1, <2>2, <2>4, <2>5, <2>7, <2>8, <2>9, OpenPreserves
<1> QED BY <1>2, <1>3 DEF PlanningRetry

(* An amendment opens the next version with the plan of the last.          *)
LEMMA AmendPreserves ==
    ASSUME PInv, NEW v \in Versions, AmendPlanReview(v) PROVE PInv'
<1>1. TypeOK /\ Opened /\ v \in Existing /\ policy[v] \in Policy /\ Serving
  BY DEF PInv, AmendPlanReview, TypeOK
<1> DEFINE ds == IF policy[v].self THEN <<"APPROVE">> ELSE <<>>
<1>2. PICK n \in Versions :
          /\ Accept(n, v, policy[v])
          /\ candidates' = [candidates EXCEPT ![n] = 1]
          /\ decisions' = [decisions EXCEPT ![n] = ds]
          /\ paused' = paused \cup (IF v \in paused THEN {n} ELSE {})
          /\ Schedule(n)
  BY DEF AmendPlanReview
<1>3. v = count /\ granted = {} /\ ~LatestIs(count, "RUNNING")
  BY <1>1, RevisedIsNewest DEF AmendPlanReview
<1>4. n = count + 1 /\ Existing \subseteq 1 .. n /\ n \in 1 .. n
  BY <1>1, <1>2, ExistingTyped DEF Accept, Existing
<1>5. queue \in Seq(1 .. n) /\ jobs \subseteq 1 .. n /\ paused' \subseteq 1 .. n
  BY <1>1, <1>2, <1>4, SeqMonotonic DEF Opened
<1>6. queue' \in Seq(1 .. n) /\ jobs' \subseteq 1 .. n
  BY <1>2, <1>4, <1>5, ScheduleTyped
<1>7. ds \in Seq(Outcomes) /\ Len(ds) <= 1 /\ (ds # <<>> => policy[v].self)
  <2>1. CASE policy[v].self
    <3>1. ds = <<"APPROVE">>
      BY <2>1
    <3> HIDE DEF ds
    <3> QED BY <2>1, <3>1 DEF Outcomes
  <2>2. CASE ~policy[v].self
    <3>1. ds = <<>>
      BY <2>2
    <3> HIDE DEF ds
    <3> QED BY <3>1
  <2> QED BY <2>1, <2>2
<1> HIDE DEF ds
<1> QED BY <1>1, <1>2, <1>3, <1>5, <1>6, <1>7, OpenPreserves

(* The approved newest version is granted.                                 *)
LEMMA GrantPreserves ==
    ASSUME PInv, NEW v \in Versions, Grant(v) PROVE PInv'
<1>1. TypeOK /\ Lineage /\ Opened /\ OneGrant /\ v \in Existing
  BY DEF PInv, Grant
<1>2. v = count /\ ReviewPhase(v) = "APPROVED" /\ granted' = granted \cup {v}
  BY <1>1, NewestIsLast DEF Grant
<1>3. UNCHANGED <<familyVars, planVars, runs, paused, projectPaused, worldVars,
                  service, jobVars, loopVars>>
  BY DEF Grant
<1>4. TypeOK'
  BY <1>1, <1>2, <1>3 DEF TypeOK, familyVars, planVars, worldVars, jobVars, loopVars
<1>5. Lineage' /\ Opened' /\ Halted'
  BY <1>1, <1>3 DEF Lineage, Opened, Halted, PInv, Existing, familyVars, planVars, jobVars,
                    loopVars
<1>6. OneGrant'
  BY <1>1, <1>2, <1>3 DEF OneGrant, ReviewPhase, familyVars, planVars
<1>7. ASSUME NEW u \in Versions PROVE Local(u)'
  BY <1>3, <1>7, LocalFrame DEF PInv, familyVars, planVars, loopVars
<1> QED BY <1>4, <1>5, <1>6, <1>7 DEF PInv

-----------------------------------------------------------------------------
(* The provider's turns *)

(* A step on the newest version, which is not granted, that changes no     *)
(* other one.                                                              *)
LEMMA NewestPreserves ==
    ASSUME PInv, NEW v \in Versions, v = count, v \notin granted, runner[v] # "NONE",
           UNCHANGED <<familyVars, settingVars, worldVars, service, jobVars, direct>>,
           runs' \in [Versions -> Seq(Run)],
           candidates' \in [Versions -> 0 .. 3],
           decisions' \in [Versions -> Seq(Outcomes)],
           runner' \in [Versions -> {"NONE", "LOOP", "TURN"}],
           turns' \in [Versions -> 0 .. 6],
           \A u \in Versions \ {v} :
               /\ runs'[u] = runs[u] /\ candidates'[u] = candidates[u]
               /\ decisions'[u] = decisions[u]
               /\ runner'[u] = runner[u] /\ turns'[u] = turns[u],
           Local(v)'
    PROVE  PInv'
<1> USE DEF familyVars, settingVars, worldVars, jobVars
<1>1. TypeOK'
  BY DEF PInv, TypeOK
<1>2. Lineage'
  BY DEF PInv, Lineage
<1>3. Opened'
  <2>1. v \in Existing
    BY DEF Existing, Versions
  <2> QED BY <2>1 DEF PInv, Opened, Existing
<1>4. Halted'
  BY DEF PInv, Halted
<1>5. OneGrant'
  <2>1. \A u \in granted : u \in Versions \ {v}
    BY DEF PInv, TypeOK
  <2> QED BY <2>1 DEF PInv, OneGrant, ReviewPhase
<1>6. ASSUME NEW u \in Versions PROVE Local(u)'
  <2>1. CASE u = v
    BY <2>1
  <2>2. CASE u # v
    BY <2>2, LocalFrame DEF PInv
  <2> QED BY <2>1, <2>2
<1> QED BY <1>1, <1>2, <1>3, <1>4, <1>5, <1>6 DEF PInv

(* The plan of the newest version is undecided whenever a turn is asked    *)
(* for or under way; with its decisions it leaves room for one more run.   *)
LEMMA UndecidedFacts ==
    ASSUME PInv, NEW v \in Versions, ReviewPhase(v) \in Undecided
    PROVE  /\ v \notin granted
           /\ candidates[v] \in 0 .. 3 /\ decisions[v] \in Seq(Outcomes)
           /\ Len(decisions[v]) \in Nat
           /\ candidates[v] + Len(decisions[v]) <= 5
           /\ ReviewPhase(v) = "AWAITING_REVIEW" => candidates[v] = Len(decisions[v]) + 1
           /\ ReviewPhase(v) # "AWAITING_REVIEW" =>
                candidates[v] = Len(decisions[v]) /\ candidates[v] <= 2
<1>1. /\ candidates[v] \in 0 .. 3 /\ decisions[v] \in Seq(Outcomes)
      /\ Len(decisions[v]) \in Nat
  BY DEF PInv, TypeOK
<1>2. Len(decisions[v]) <= candidates[v] /\ candidates[v] <= Len(decisions[v]) + 1
  BY DEF PInv, Local
<1>3. v \notin granted
  BY DEF PInv, OneGrant, Undecided
<1> QED BY <1>1, <1>2, <1>3, ReplayFacts DEF ReviewPhase, Undecided

(* A claim adds an open run for the undecided plan of the newest version.  *)
LEMMA ClaimFacts ==
    ASSUME PInv, NEW v \in Versions,
           NEW status \in {"RUNNING", "HUMAN_REQUIRED"}, NEW stop \in StopReasons \cup {"NONE"},
           Claim(v, status, stop)
    PROVE  /\ v = count /\ v \notin granted /\ ReviewPhase(v) \in Undecided
           /\ turns[v] \in 0 .. 5
           /\ runs' \in [Versions -> Seq(Run)]
           /\ \A u \in Versions \ {v} : runs'[u] = runs[u]
           /\ Last(runs'[v]) = NextRun(v, status, stop)
           /\ LatestIs(v, status)'
           /\ Readable(v)' /\ Counted(v)'
<1>1. TypeOK /\ Lineage /\ Opened /\ Local(v)
  BY DEF PInv
<1>2. /\ runner[v] = "LOOP" /\ Phase(v) = "READY" /\ turns[v] < 6 /\ ~HasSuccessor(v)
      /\ runs' = [runs EXCEPT ![v] = Append(@, NextRun(v, status, stop))]
      /\ candidates' = candidates /\ decisions' = decisions
  BY DEF Claim, MayClaim, LedgerUnchanged, planVars
<1>3. v \in Existing
  BY <1>1, <1>2 DEF Opened
<1>4. v = count
  BY <1>1, <1>2, <1>3, NewestIsLast
<1>5. /\ runs[v] = <<>> \/ LatestIs(v, "COMPLETED")
      /\ ReviewPhase(v) \in Undecided
  BY <1>1, <1>2, ReadyFacts
<1>6. /\ v \notin granted /\ candidates[v] \in 0 .. 3
      /\ Len(decisions[v]) \in Nat /\ candidates[v] + Len(decisions[v]) <= 5
  BY <1>5, UndecidedFacts
<1> DEFINE r == NextRun(v, status, stop)
<1>7. r \in Run /\ r.status = status
  BY <1>6 DEF NextRun, Run
<1> HIDE DEF r
<1>8. runs[v] \in Seq(Run) /\ Len(runs[v]) \in Nat
  BY <1>1 DEF TypeOK
<1> DEFINE new == Append(runs[v], r)
<1>9. /\ new \in Seq(Run) /\ Len(new) = Len(runs[v]) + 1
      /\ new[Len(new)] = r /\ \A i \in 1 .. Len(runs[v]) : new[i] = runs[v][i]
  BY <1>7, <1>8, AppendProperties
<1>10. runs' = [runs EXCEPT ![v] = new]
  BY <1>2 DEF r
<1> HIDE DEF new
<1>11. runs'[v] = new /\ runs' \in [Versions -> Seq(Run)]
  BY <1>1, <1>9, <1>10 DEF TypeOK
<1>12. \A u \in Versions \ {v} : runs'[u] = runs[u]
  BY <1>1, <1>10 DEF TypeOK
<1>13. Last(runs'[v]) = r /\ LatestIs(v, status)'
  <2>1. new # <<>>
    BY <1>8, <1>9
  <2> QED BY <1>7, <1>9, <1>11, <2>1 DEF Last, LatestIs
<1>14. Len(runs[v]) <= candidates[v] + Len(decisions[v])
  <2>1. Open(v) = 0
    BY <1>5 DEF Open
  <2> QED BY <1>1, <1>6, <1>8, <2>1 DEF Local, Counted
<1>15. Counted(v)'
  <2>1. ~LatestIs(v, "COMPLETED")' /\ runs'[v] # <<>>
    BY <1>13 DEF LatestIs
  <2>2. Open(v)' = 1
    BY <2>1 DEF Open
  <2>3. Len(runs'[v]) = Len(runs[v]) + 1
    BY <1>9, <1>11
  <2>4. Len(runs'[v]) <= candidates[v] + Len(decisions[v]) + Open(v)'
    BY <1>6, <1>8, <1>14, <2>2, <2>3
  <2> QED BY <1>2, <2>4 DEF Counted
<1>16. Readable(v)'
  <2>1. ASSUME NEW i \in 1 .. Len(runs[v]) PROVE runs[v][i].status = "COMPLETED"
    BY <1>1, <1>5, <1>8, <2>1 DEF Local, Readable, LatestIs, Last
  <2>2. Len(new) <= 6
    BY <1>6, <1>8, <1>9, <1>14
  <2>3. \A i \in 1 .. (Len(new) - 1) : new[i].status = "COMPLETED"
    BY <1>8, <1>9, <2>1
  <2> QED BY <1>11, <2>2, <2>3 DEF Readable
<1>17. turns[v] \in 0 .. 5
  BY <1>1, <1>2 DEF TypeOK
<1> QED BY <1>4, <1>5, <1>6, <1>11, <1>12, <1>13, <1>15, <1>16, <1>17 DEF r

(* A claim, accepted or refused, keeps the invariant.                      *)
LEMMA ClaimPreserves ==
    ASSUME PInv, NEW v \in Versions, ClaimTurn(v) \/ ClaimRefused(v) PROVE PInv'
<1>1. TypeOK /\ Local(v)
  BY DEF PInv
<1>2. PICK status \in {"RUNNING", "HUMAN_REQUIRED"}, stop \in StopReasons \cup {"NONE"} :
          /\ Claim(v, status, stop)
          /\ \/ /\ status = "RUNNING" /\ turns' = turns
                /\ runner' = [runner EXCEPT ![v] = "TURN"]
             \/ /\ status = "HUMAN_REQUIRED" /\ turns' = [turns EXCEPT ![v] = @ + 1]
                /\ runner' = runner
  BY DEF ClaimTurn, ClaimRefused, StopReasons
<1>3. /\ v = count /\ v \notin granted /\ ReviewPhase(v) \in Undecided
      /\ turns[v] \in 0 .. 5
      /\ runs' \in [Versions -> Seq(Run)]
      /\ \A u \in Versions \ {v} : runs'[u] = runs[u]
      /\ Last(runs'[v]) = NextRun(v, status, stop)
      /\ LatestIs(v, status)'
      /\ Readable(v)' /\ Counted(v)'
  BY <1>2, ClaimFacts
<1>4. /\ UNCHANGED <<familyVars, planVars, settingVars, worldVars, service, jobVars, direct>>
      /\ runner[v] = "LOOP"
  BY <1>2 DEF Claim, LedgerUnchanged
<1>5. candidates' = candidates /\ decisions' = decisions /\ count' = count
  BY <1>4 DEF planVars, familyVars
<1>6. ReviewPhase(v)' = ReviewPhase(v)
  BY <1>5 DEF ReviewPhase
<1>7. Local(v)'
  <2>1. Len(decisions'[v]) <= candidates'[v] /\ candidates'[v] <= Len(decisions'[v]) + 1
    BY <1>1, <1>5 DEF Local
  <2>2. (runner[v] = "TURN" => LatestIs(v, "RUNNING") /\ turns[v] < 6)'
    BY <1>1, <1>2, <1>3, <1>4 DEF TypeOK
  <2>3. Asked(v)'
    BY <1>3, <1>5, <1>6 DEF Asked, NextRun
  <2>4. Fresh(v)'
    BY <1>3, <1>6 DEF Fresh, Undecided
  <2> QED BY <1>3, <2>1, <2>2, <2>3, <2>4 DEF Local
<1>8. /\ runner' \in [Versions -> {"NONE", "LOOP", "TURN"}]
      /\ turns' \in [Versions -> 0 .. 6]
      /\ \A u \in Versions \ {v} : runner'[u] = runner[u] /\ turns'[u] = turns[u]
  <2>1. /\ runner \in [Versions -> {"NONE", "LOOP", "TURN"}]
        /\ turns \in [Versions -> 0 .. 6] /\ turns[v] + 1 \in 0 .. 6
    BY <1>1, <1>3 DEF TypeOK
  <2>2. CASE turns' = turns /\ runner' = [runner EXCEPT ![v] = "TURN"]
    BY <2>1, <2>2
  <2>3. CASE turns' = [turns EXCEPT ![v] = @ + 1] /\ runner' = runner
    BY <2>1, <2>3
  <2> QED BY <1>2, <2>2, <2>3
<1>9. candidates' \in [Versions -> 0 .. 3] /\ decisions' \in [Versions -> Seq(Outcomes)]
  BY <1>1, <1>5 DEF TypeOK
<1> QED BY <1>3, <1>4, <1>5, <1>7, <1>8, <1>9, NewestPreserves

(* The end of a turn closes the latest run, of the newest version.         *)
LEMMA EndTurnFacts ==
    ASSUME PInv, NEW v \in Versions, NEW reason \in StopReasons \cup {"NONE"},
           EndTurn(v, reason)
    PROVE  /\ v = count /\ ReviewPhase(v) \in Undecided /\ Asked(v)
           /\ Len(runs[v]) \in 1 .. 6
           /\ Len(runs[v]) <= candidates[v] + Len(decisions[v]) + 1
           /\ runs' \in [Versions -> Seq(Run)]
           /\ \A u \in Versions \ {v} : runs'[u] = runs[u]
           /\ Len(runs'[v]) = Len(runs[v]) /\ runs'[v] # <<>>
           /\ Last(runs'[v]).role = Turn(v).role /\ Last(runs'[v]).rev = Turn(v).rev
           /\ Last(runs'[v]).status = IF reason = "NONE" THEN "COMPLETED" ELSE "HUMAN_REQUIRED"
           /\ Readable(v)'
           /\ runner' \in [Versions -> {"NONE", "LOOP", "TURN"}] /\ runner'[v] = "LOOP"
           /\ turns' \in [Versions -> 0 .. 6]
           /\ \A u \in Versions \ {v} : runner'[u] = runner[u] /\ turns'[u] = turns[u]
<1>1. TypeOK /\ Local(v)
  BY DEF PInv
<1>2. runner[v] = "TURN"
  BY DEF EndTurn
<1>3. LatestIs(v, "RUNNING") /\ turns[v] < 6 /\ Asked(v) /\ v = count
      /\ ReviewPhase(v) \in Undecided
  BY <1>1, <1>2 DEF Local, Asked
<1>4. runs[v] # <<>> /\ runs[v] \in Seq(Run) /\ Len(runs[v]) \in Nat /\ Len(runs[v]) # 0
  BY <1>1, <1>3 DEF LatestIs, TypeOK
<1>5. Turn(v) \in Run
  BY <1>4 DEF Turn, Last
<1> DEFINE r == [Turn(v) EXCEPT
                    !.status = IF reason = "NONE" THEN "COMPLETED" ELSE "HUMAN_REQUIRED",
                    !.stop = reason]
<1>6. /\ r \in Run /\ r.role = Turn(v).role /\ r.rev = Turn(v).rev
      /\ r.status = IF reason = "NONE" THEN "COMPLETED" ELSE "HUMAN_REQUIRED"
  BY <1>5 DEF Run
<1>7. Rewrite(v, r)
  BY DEF EndTurn
<1> HIDE DEF r
<1>8. /\ runs' \in [Versions -> Seq(Run)]
      /\ Len(runs'[v]) = Len(runs[v]) /\ runs'[v] # <<>>
      /\ Last(runs'[v]) = r
      /\ \A i \in 1 .. (Len(runs[v]) - 1) : runs'[v][i] = runs[v][i]
      /\ \A u \in Versions \ {v} : runs'[u] = runs[u]
  BY <1>1, <1>4, <1>6, <1>7, RewriteFacts
<1>9. Readable(v)'
  <2>1. Len(runs'[v]) <= 6
    BY <1>1, <1>8 DEF Local, Readable
  <2>2. ASSUME NEW i \in 1 .. (Len(runs'[v]) - 1) PROVE runs'[v][i].status = "COMPLETED"
    <3>1. i \in 1 .. (Len(runs[v]) - 1)
      BY <1>8
    <3>2. runs[v][i].status = "COMPLETED"
      BY <1>1, <3>1 DEF Local, Readable
    <3> QED BY <1>8, <3>1, <3>2
  <2> QED BY <2>1, <2>2 DEF Readable
<1>10. Len(runs[v]) \in 1 .. 6
  <2>1. Len(runs[v]) <= 6
    BY <1>1 DEF Local, Readable
  <2>2. Len(runs[v]) \in Nat /\ Len(runs[v]) # 0
    BY <1>4
  <2>3. \A n \in Nat : n # 0 /\ n <= 6 => n \in 1 .. 6
    OBVIOUS
  <2> QED BY <2>1, <2>2, <2>3
<1>11. Len(runs[v]) <= candidates[v] + Len(decisions[v]) + 1
  <2>1. ~LatestIs(v, "COMPLETED")
    BY <1>3 DEF LatestIs
  <2>2. Open(v) = 1
    BY <1>4, <2>1 DEF Open
  <2>3. Len(runs[v]) <= candidates[v] + Len(decisions[v]) + Open(v)
    BY <1>1 DEF Local, Counted
  <2> QED BY <2>2, <2>3
<1>12. /\ runner' \in [Versions -> {"NONE", "LOOP", "TURN"}] /\ runner'[v] = "LOOP"
       /\ turns' \in [Versions -> 0 .. 6]
       /\ \A u \in Versions \ {v} : runner'[u] = runner[u] /\ turns'[u] = turns[u]
  <2>1. /\ runner \in [Versions -> {"NONE", "LOOP", "TURN"}]
        /\ turns \in [Versions -> 0 .. 6] /\ turns[v] \in 0 .. 6
    BY <1>1 DEF TypeOK
  <2>2. turns' = [turns EXCEPT ![v] = @ + 1] /\ runner' = [runner EXCEPT ![v] = "LOOP"]
    BY DEF EndTurn
  <2>3. turns[v] < 6
    BY <1>3
  <2>4. turns[v] + 1 \in 0 .. 6
    BY <2>1, <2>3
  <2> QED BY <2>1, <2>2, <2>4
<1> QED BY <1>3, <1>6, <1>8, <1>9, <1>10, <1>11, <1>12

(* A completed turn adds a candidate or a decision, and only a completed   *)
(* review of the current candidate may approve one that was reviewed.      *)
LEMMA AnswerPreserves ==
    ASSUME PInv, NEW v \in Versions, NEW reason \in StopReasons \cup {"NONE"},
           EndTurn(v, reason),
           NEW c \in 0 .. 3, NEW ds \in Seq(Outcomes),
           candidates' = [candidates EXCEPT ![v] = c],
           decisions' = [decisions EXCEPT ![v] = ds],
           Len(ds) <= c, c <= Len(ds) + 1,
           candidates[v] <= c, Len(decisions[v]) <= Len(ds),
           reason = "NONE" => c + Len(ds) > candidates[v] + Len(decisions[v]),
           Replay(c, ds) = "APPROVED" /\ ~policy[v].self =>
               reason = "NONE" /\ Turn(v).role = "REVIEWER" /\ c = candidates[v]
    PROVE  PInv'
<1>1. TypeOK /\ Local(v)
  BY DEF PInv
<1>2. /\ v = count /\ ReviewPhase(v) \in Undecided /\ Asked(v)
      /\ Len(runs[v]) \in 1 .. 6
      /\ Len(runs[v]) <= candidates[v] + Len(decisions[v]) + 1
      /\ runs' \in [Versions -> Seq(Run)]
      /\ \A u \in Versions \ {v} : runs'[u] = runs[u]
      /\ Len(runs'[v]) = Len(runs[v]) /\ runs'[v] # <<>>
      /\ Last(runs'[v]).role = Turn(v).role /\ Last(runs'[v]).rev = Turn(v).rev
      /\ Last(runs'[v]).status = IF reason = "NONE" THEN "COMPLETED" ELSE "HUMAN_REQUIRED"
      /\ Readable(v)'
      /\ runner' \in [Versions -> {"NONE", "LOOP", "TURN"}] /\ runner'[v] = "LOOP"
      /\ turns' \in [Versions -> 0 .. 6]
      /\ \A u \in Versions \ {v} : runner'[u] = runner[u] /\ turns'[u] = turns[u]
  BY EndTurnFacts
<1>3. /\ v \notin granted
      /\ candidates[v] \in 0 .. 3 /\ Len(decisions[v]) \in Nat
  BY <1>2, UndecidedFacts
<1>4. UNCHANGED <<familyVars, settingVars, worldVars, service, jobVars, direct>>
  BY DEF EndTurn
<1>5. policy' = policy
  BY <1>4 DEF familyVars
<1>6. candidates'[v] = c /\ decisions'[v] = ds
  BY <1>1 DEF TypeOK
<1>7. /\ candidates' \in [Versions -> 0 .. 3] /\ decisions' \in [Versions -> Seq(Outcomes)]
      /\ \A u \in Versions \ {v} :
            candidates'[u] = candidates[u] /\ decisions'[u] = decisions[u]
  BY <1>1 DEF TypeOK
<1>8. LatestIs(v, "COMPLETED")' <=> reason = "NONE"
  BY <1>2 DEF LatestIs
<1>9. ~LatestIs(v, "RUNNING")'
  BY <1>2 DEF LatestIs
<1>10. Counted(v)'
  <2>1. Len(ds) \in Nat
    OBVIOUS
  <2>2. Open(v)' = IF reason = "NONE" THEN 0 ELSE 1
    BY <1>2, <1>8 DEF Open
  <2>3. /\ Len(runs[v]) \in 1 .. 6
        /\ Len(runs[v]) <= candidates[v] + Len(decisions[v]) + 1
        /\ Len(runs'[v]) = Len(runs[v])
    BY <1>2
  <2> DEFINE used == candidates[v] + Len(decisions[v])
             now  == c + Len(ds)
  <2>4. /\ used \in Int /\ now \in Int /\ Len(runs'[v]) \in Int
        /\ used <= now /\ Len(runs'[v]) <= used + 1
    BY <1>3, <2>1, <2>3
  <2>5. reason = "NONE" => used < now
    BY <1>3, <2>1
  <2> HIDE DEF used, now
  <2>6. Len(runs'[v]) <= now + (IF reason = "NONE" THEN 0 ELSE 1)
    BY <2>4, <2>5
  <2>7. Len(runs'[v]) <= c + Len(ds) + Open(v)'
    BY <2>2, <2>6 DEF now
  <2> QED BY <1>6, <2>7 DEF Counted
<1>11. Fresh(v)'
  <2>1. SUFFICES ASSUME Replay(c, ds) = "APPROVED", ~policy[v].self
                 PROVE  /\ LatestIs(v, "COMPLETED")'
                        /\ Last(runs'[v]).role = "REVIEWER"
                        /\ Last(runs'[v]).rev = c
    BY <1>5, <1>6 DEF Fresh, ReviewPhase
  <2>2. reason = "NONE" /\ Turn(v).role = "REVIEWER" /\ c = candidates[v]
    BY <2>1
  <2> QED BY <1>2, <1>8, <2>2 DEF Asked, Turn
<1>12. Local(v)'
  BY <1>2, <1>6, <1>9, <1>10, <1>11 DEF Local
<1>13. runner[v] = "TURN"
  BY DEF EndTurn
<1> QED BY <1>2, <1>3, <1>4, <1>7, <1>12, <1>13, NewestPreserves

(* Every way a turn may end keeps the invariant.                           *)
LEMMA FinishPreserves ==
    ASSUME PInv, NEW v \in Versions, FinishTurn(v) PROVE PInv'
<1>1. TypeOK /\ Local(v)
  BY DEF PInv
<1>2. runner[v] = "TURN"
  BY DEF FinishTurn, RefuseTurn, Propose, Review, RejectAnswer, Answered
<1>3. Asked(v) /\ ReviewPhase(v) \in Undecided
  BY <1>1, <1>2 DEF Local, Asked
<1>4. /\ candidates[v] \in 0 .. 3 /\ decisions[v] \in Seq(Outcomes)
      /\ Len(decisions[v]) \in Nat
      /\ ReviewPhase(v) = "AWAITING_REVIEW" => candidates[v] = Len(decisions[v]) + 1
      /\ ReviewPhase(v) # "AWAITING_REVIEW" =>
           candidates[v] = Len(decisions[v]) /\ candidates[v] <= 2
  BY <1>3, UndecidedFacts
<1>5. Turn(v).role = IF ReviewPhase(v) = "AWAITING_REVIEW" THEN "REVIEWER" ELSE "PLANNER"
  BY <1>3 DEF Asked, Turn
<1>6. Len(decisions[v]) <= candidates[v] /\ candidates[v] <= Len(decisions[v]) + 1
  BY <1>1 DEF Local
<1>7. candidates = [candidates EXCEPT ![v] = candidates[v]]
      /\ decisions = [decisions EXCEPT ![v] = decisions[v]]
  BY <1>1 DEF TypeOK
<1>8. "APPROVE" \in Outcomes /\ "REJECT" \in Outcomes
  BY DEF Outcomes
<1>9. CASE RefuseTurn(v) \/ RejectAnswer(v)
  <2>1. PICK reason \in StopReasons : EndTurn(v, reason) /\ UNCHANGED planVars
    BY <1>9 DEF RefuseTurn, RejectAnswer, Refusal, StopReasons
  <2>2. reason # "NONE"
    BY <2>1 DEF StopReasons
  <2>3. Replay(candidates[v], decisions[v]) # "APPROVED"
    BY <1>3 DEF ReviewPhase, Undecided
  <2>4. /\ candidates' = [candidates EXCEPT ![v] = candidates[v]]
        /\ decisions' = [decisions EXCEPT ![v] = decisions[v]]
    BY <1>7, <2>1 DEF planVars
  <2>5. candidates[v] <= candidates[v] /\ Len(decisions[v]) <= Len(decisions[v])
    BY <1>4
  <2>6. reason \in StopReasons \cup {"NONE"} /\ EndTurn(v, reason)
    BY <2>1
  <2> QED BY <1>4, <1>6, <2>2, <2>3, <2>4, <2>5, <2>6, AnswerPreserves
<1>10. CASE Propose(v)
  <2>1. candidates[v] = Len(decisions[v]) /\ candidates[v] <= 2
    BY <1>4, <1>5, <1>10 DEF Propose, Answered
  <2>2. candidates' = [candidates EXCEPT ![v] = candidates[v] + 1]
        /\ candidates[v] + 1 \in 0 .. 3
    BY <1>4, <1>10, <2>1 DEF Propose
  <2> DEFINE more == Append(decisions[v], "APPROVE")
  <2>3. more \in Seq(Outcomes) /\ Len(more) = Len(decisions[v]) + 1
    BY <1>4, <1>8, AppendProperties
  <2>4. PICK reason \in StopReasons \cup {"NONE"}, ds \in {decisions[v], more} :
            /\ EndTurn(v, reason)
            /\ decisions' = [decisions EXCEPT ![v] = ds]
            /\ policy[v].self \/ ds = decisions[v]
    <3> HIDE DEF more
    <3>1. CASE ~policy[v].self
      BY <1>7, <1>10, <3>1 DEF Propose
    <3>2. CASE policy[v].self
      <4>1. "INVALID_OUTPUT" \in StopReasons
        BY DEF StopReasons
      <4>2. \/ EndTurn(v, "NONE") /\ decisions' = [decisions EXCEPT ![v] = more]
            \/ EndTurn(v, "INVALID_OUTPUT") /\ decisions' = decisions
            \/ EndTurn(v, "INVALID_OUTPUT") /\ decisions' = [decisions EXCEPT ![v] = more]
        BY <1>10, <3>2 DEF Propose, more
      <4> QED BY <1>7, <3>2, <4>1, <4>2
    <3> QED BY <3>1, <3>2
  <2> HIDE DEF more
  <2>5. ds \in Seq(Outcomes) /\ Len(ds) \in {candidates[v], candidates[v] + 1}
    BY <1>4, <2>1, <2>3, <2>4
  <2>6. ~policy[v].self => Replay(candidates[v] + 1, ds) # "APPROVED"
    <3>1. SUFFICES ASSUME ~policy[v].self PROVE Replay(candidates[v] + 1, ds) # "APPROVED"
      OBVIOUS
    <3>2. Len(ds) = candidates[v]
      BY <2>1, <2>4, <3>1
    <3> QED BY <1>4, <2>2, <2>5, <3>2, ReplayFacts
  <2>7. /\ Len(ds) <= candidates[v] + 1 /\ candidates[v] + 1 <= Len(ds) + 1
        /\ candidates[v] <= candidates[v] + 1 /\ Len(decisions[v]) <= Len(ds)
        /\ candidates[v] + 1 + Len(ds) > candidates[v] + Len(decisions[v])
    BY <1>4, <2>1, <2>5
  <2> QED BY <2>2, <2>4, <2>5, <2>6, <2>7, AnswerPreserves
<1>11. CASE Review(v)
  <2>1. PICK outcome \in Outcomes :
            /\ decisions' = [decisions EXCEPT ![v] = Append(@, outcome)]
            /\ EndTurn(v, IF outcome = "ESCALATE" THEN "REVIEW_ESCALATED" ELSE "NONE")
    BY <1>11 DEF Review
  <2> DEFINE reason == IF outcome = "ESCALATE" THEN "REVIEW_ESCALATED" ELSE "NONE"
             ds == Append(decisions[v], outcome)
  <2>2. candidates[v] = Len(decisions[v]) + 1 /\ Turn(v).role = "REVIEWER"
    BY <1>4, <1>5, <1>11 DEF Review, Answered
  <2>3. /\ ds \in Seq(Outcomes) /\ Len(ds) = Len(decisions[v]) + 1
        /\ ds[Len(ds)] = outcome
    BY <1>4, AppendProperties
  <2>4. /\ reason \in StopReasons \cup {"NONE"} /\ EndTurn(v, reason)
        /\ outcome = "APPROVE" => reason = "NONE"
    BY <2>1 DEF StopReasons
  <2>5. decisions' = [decisions EXCEPT ![v] = ds]
    BY <2>1
  <2>6. candidates' = [candidates EXCEPT ![v] = candidates[v]]
    BY <1>7, <1>11 DEF Review
  <2> HIDE DEF ds, reason
  <2>7. Replay(candidates[v], ds) = "APPROVED" => reason = "NONE"
    BY <1>4, <2>2, <2>3, <2>4, ReplayFacts
  <2>8. /\ Len(ds) <= candidates[v] /\ candidates[v] <= Len(ds) + 1
        /\ candidates[v] <= candidates[v] /\ Len(decisions[v]) <= Len(ds)
        /\ candidates[v] + Len(ds) > candidates[v] + Len(decisions[v])
    BY <1>4, <2>2, <2>3
  <2> QED BY <1>4, <2>2, <2>3, <2>4, <2>5, <2>6, <2>7, <2>8, AnswerPreserves
<1> QED BY <1>9, <1>10, <1>11 DEF FinishTurn

(* Evidence and usage change neither role nor status of the turn.          *)
LEMMA ObservePreserves ==
    ASSUME PInv, NEW v \in Versions, Observe(v) PROVE PInv'
<1>1. TypeOK /\ Local(v)
  BY DEF PInv
<1>2. /\ runner[v] = "TURN" /\ LatestIs(v, "RUNNING") /\ Asked(v)
      /\ v = count /\ ReviewPhase(v) \in Undecided
  BY <1>1 DEF Observe, Local, Asked
<1>3. runs[v] # <<>> /\ runs[v] \in Seq(Run) /\ Len(runs[v]) \in Nat /\ Len(runs[v]) # 0
  BY <1>1, <1>2 DEF LatestIs, TypeOK
<1>4. Turn(v) \in Run /\ Turn(v) = Last(runs[v])
  BY <1>3 DEF Turn, Last
<1>5. PICK known \in BOOLEAN :
          Rewrite(v, [Turn(v) EXCEPT !.evidence = TRUE, !.usage = known])
  BY <1>4 DEF Observe, Run
<1> DEFINE r == [Turn(v) EXCEPT !.evidence = TRUE, !.usage = known]
<1>6. /\ r \in Run /\ r.role = Turn(v).role /\ r.rev = Turn(v).rev
      /\ r.status = Turn(v).status
  BY <1>4 DEF Run
<1>7. Rewrite(v, r)
  BY <1>5
<1> HIDE DEF r
<1>8. /\ runs' \in [Versions -> Seq(Run)]
      /\ Len(runs'[v]) = Len(runs[v]) /\ runs'[v] # <<>>
      /\ Last(runs'[v]) = r
      /\ \A i \in 1 .. (Len(runs[v]) - 1) : runs'[v][i] = runs[v][i]
      /\ \A u \in Versions \ {v} : runs'[u] = runs[u]
  BY <1>1, <1>3, <1>6, <1>7, RewriteFacts
<1>9. UNCHANGED <<familyVars, planVars, settingVars, worldVars, service, jobVars, loopVars>>
  BY DEF Observe, LedgerUnchanged
<1>10. /\ count' = count /\ candidates' = candidates /\ decisions' = decisions
       /\ runner' = runner /\ turns' = turns /\ direct' = direct
  BY <1>9 DEF familyVars, planVars, loopVars
<1>11. ReviewPhase(v)' = ReviewPhase(v)
  BY <1>10 DEF ReviewPhase
<1>12. LatestIs(v, "RUNNING")' /\ ~LatestIs(v, "COMPLETED")' /\ ~LatestIs(v, "COMPLETED")
  BY <1>2, <1>4, <1>6, <1>8 DEF LatestIs
<1>13. Asked(v)'
  BY <1>2, <1>4, <1>6, <1>8, <1>10, <1>11 DEF Asked
<1>14. Counted(v)'
  <2>1. Open(v) = 1 /\ Open(v)' = 1
    BY <1>3, <1>8, <1>12 DEF Open
  <2>2. Len(runs[v]) <= candidates[v] + Len(decisions[v]) + Open(v)
    BY <1>1 DEF Local, Counted
  <2> QED BY <1>8, <1>10, <2>1, <2>2 DEF Counted
<1>15. Readable(v)'
  <2>1. Len(runs'[v]) <= 6
    BY <1>1, <1>8 DEF Local, Readable
  <2>2. ASSUME NEW i \in 1 .. (Len(runs'[v]) - 1) PROVE runs'[v][i].status = "COMPLETED"
    <3>1. i \in 1 .. (Len(runs[v]) - 1)
      BY <1>8
    <3>2. runs[v][i].status = "COMPLETED"
      BY <1>1, <3>1 DEF Local, Readable
    <3> QED BY <1>8, <3>1, <3>2
  <2> QED BY <2>1, <2>2 DEF Readable
<1>16. Fresh(v)'
  BY <1>2, <1>11 DEF Fresh, Undecided
<1>17. Local(v)'
  <2>1. Len(decisions'[v]) <= candidates'[v] /\ candidates'[v] <= Len(decisions'[v]) + 1
    BY <1>1, <1>10 DEF Local
  <2>2. turns'[v] < 6
    BY <1>1, <1>2, <1>10 DEF Local
  <2> QED BY <1>12, <1>13, <1>14, <1>15, <1>16, <2>1, <2>2 DEF Local
<1>18. /\ v \notin granted
       /\ candidates' \in [Versions -> 0 .. 3] /\ decisions' \in [Versions -> Seq(Outcomes)]
       /\ runner' \in [Versions -> {"NONE", "LOOP", "TURN"}] /\ turns' \in [Versions -> 0 .. 6]
  BY <1>1, <1>2, <1>10, UndecidedFacts DEF TypeOK
<1> QED BY <1>2, <1>8, <1>9, <1>10, <1>17, <1>18, NewestPreserves

-----------------------------------------------------------------------------
(* Restart *)

(* Interrupting the turns under way keeps the invariant.                   *)
LEMMA RestartPreserves ==
    ASSUME PInv, Restart PROVE PInv'
<1>1. TypeOK /\ Lineage /\ Opened /\ OneGrant /\ \A v \in Versions : Local(v)
  BY DEF PInv
<1>2. /\ UNCHANGED <<familyVars, planVars, settingVars, worldVars, jobVars, loopVars>>
      /\ service = "DOWN" /\ service' = "UP"
  BY DEF Restart
<1>3. /\ count' = count /\ policy' = policy /\ candidates' = candidates
      /\ decisions' = decisions /\ runner' = runner /\ turns' = turns
  BY <1>2 DEF familyVars, planVars, loopVars
<1> DEFINE Stopped(run) == [run EXCEPT !.status = "HUMAN_REQUIRED", !.stop = "INTERRUPTED"]
<1>4. ASSUME NEW v \in Versions, LatestIs(v, "RUNNING")
      PROVE  /\ runs'[v] \in Seq(Run) /\ Len(runs'[v]) = Len(runs[v])
             /\ runs'[v] # <<>> /\ Last(runs'[v]).status = "HUMAN_REQUIRED"
             /\ \A i \in 1 .. (Len(runs[v]) - 1) : runs'[v][i] = runs[v][i]
  <2>1. runs[v] # <<>> /\ runs[v] \in Seq(Run) /\ Len(runs[v]) \in Nat /\ Len(runs[v]) # 0
    BY <1>1, <1>4 DEF LatestIs, TypeOK
  <2>2. Len(runs[v]) \in 1 .. Len(runs[v]) /\ runs[v][Len(runs[v])] \in Run
    BY <2>1
  <2> DEFINE r == Stopped(runs[v][Len(runs[v])])
  <2>3. r \in Run /\ r.status = "HUMAN_REQUIRED"
    BY <2>2 DEF Run, StopReasons
  <2>4. runs'[v] = [runs[v] EXCEPT ![Len(runs[v])] = r]
    BY <1>4 DEF Restart
  <2> HIDE DEF r
  <2> DEFINE new == [runs[v] EXCEPT ![Len(runs[v])] = r]
  <2>5. /\ new \in Seq(Run) /\ Len(new) = Len(runs[v])
        /\ \A j \in 1 .. Len(runs[v]) : new[j] = IF j = Len(runs[v]) THEN r ELSE runs[v][j]
    BY <2>1, <2>2, <2>3, ExceptSeq
  <2> HIDE DEF new
  <2>6. new # <<>> /\ Last(new) = r
    BY <2>1, <2>2, <2>5 DEF Last
  <2>7. \A i \in 1 .. (Len(runs[v]) - 1) : new[i] = runs[v][i]
    BY <2>1, <2>5
  <2> QED BY <2>3, <2>4, <2>5, <2>6, <2>7 DEF new
<1> HIDE DEF Stopped
<1>5. ASSUME NEW v \in Versions, ~LatestIs(v, "RUNNING") PROVE runs'[v] = runs[v]
  BY <1>5 DEF Restart
<1>6. runs' \in [Versions -> Seq(Run)]
  <2>1. \A v \in Versions : runs'[v] \in Seq(Run)
    BY <1>1, <1>4, <1>5 DEF TypeOK
  <2>2. runs' = [v \in Versions |-> runs'[v]]
    BY DEF Restart
  <2> QED BY <2>1, <2>2
<1>7. TypeOK'
  BY <1>1, <1>2, <1>6
  DEF TypeOK, familyVars, planVars, settingVars, worldVars, jobVars, loopVars
<1>8. Lineage' /\ OneGrant' /\ Halted'
  BY <1>1, <1>2
  DEF Lineage, OneGrant, Halted, ReviewPhase, familyVars, planVars, settingVars
<1>9. Opened'
  <2>1. \A v \in Versions \ Existing : ~LatestIs(v, "RUNNING")
    BY <1>1 DEF Opened, LatestIs
  <2> QED BY <1>1, <1>2, <1>5, <2>1
          DEF Opened, Existing, familyVars, planVars, settingVars, jobVars, loopVars
<1>10. ASSUME NEW v \in Versions PROVE Local(v)'
  <2>1. CASE ~LatestIs(v, "RUNNING")
    BY <1>1, <1>3, <1>5, <2>1, LocalFrame
  <2>2. CASE LatestIs(v, "RUNNING")
    <3>1. /\ Len(runs'[v]) = Len(runs[v])
          /\ runs'[v] # <<>> /\ Last(runs'[v]).status = "HUMAN_REQUIRED"
          /\ \A i \in 1 .. (Len(runs[v]) - 1) : runs'[v][i] = runs[v][i]
      BY <1>4, <2>2
    <3>2. Local(v) /\ Asked(v) /\ ReviewPhase(v)' = ReviewPhase(v)
      BY <1>1, <1>3, <2>2 DEF Local, Asked, ReviewPhase
    <3>3. ~LatestIs(v, "RUNNING")' /\ ~LatestIs(v, "COMPLETED")'
      BY <3>1 DEF LatestIs
    <3>4. Counted(v)'
      <4>1. runs[v] # <<>> /\ ~LatestIs(v, "COMPLETED")
        BY <2>2 DEF LatestIs
      <4>2. Open(v) = 1 /\ Open(v)' = 1
        BY <3>1, <3>3, <4>1 DEF Open
      <4>3. Len(runs[v]) <= candidates[v] + Len(decisions[v]) + Open(v)
        BY <3>2 DEF Local, Counted
      <4> QED BY <1>3, <3>1, <4>2, <4>3 DEF Counted
    <3>5. Readable(v)'
      <4>1. Len(runs'[v]) <= 6
        BY <3>1, <3>2 DEF Local, Readable
      <4>2. ASSUME NEW i \in 1 .. (Len(runs'[v]) - 1) PROVE runs'[v][i].status = "COMPLETED"
        <5>1. i \in 1 .. (Len(runs[v]) - 1)
          BY <3>1
        <5>2. runs[v][i].status = "COMPLETED"
          BY <3>2, <5>1 DEF Local, Readable
        <5> QED BY <3>1, <5>1, <5>2
      <4> QED BY <4>1, <4>2 DEF Readable
    <3>6. Fresh(v)'
      BY <3>2 DEF Fresh, Asked, Undecided
    <3>7. runner'[v] # "TURN"
      BY <1>2, <1>3 DEF PInv, Halted
    <3>8. Len(decisions'[v]) <= candidates'[v] /\ candidates'[v] <= Len(decisions'[v]) + 1
      BY <1>3, <3>2 DEF Local
    <3> QED BY <3>3, <3>4, <3>5, <3>6, <3>7, <3>8 DEF Local
  <2> QED BY <2>1, <2>2
<1> QED BY <1>7, <1>8, <1>9, <1>10 DEF PInv

-----------------------------------------------------------------------------
(* The invariant *)

(* One step keeps it; there is one case for each kind of step.             *)
LEMMA PlanningSteps == PInv /\ [Next]_vars => PInv'
<1> SUFFICES ASSUME PInv, [Next]_vars PROVE PInv'
  OBVIOUS
<1>1. CASE \E p \in Intakes : Intake(p)
  BY <1>1, IntakePreserves
<1>2. CASE \E v \in Versions : QuietStep(v)
  BY <1>2, QuietVersion
<1>3. CASE \E v \in Versions : \E p \in Preferences : PlanningRetry(v, p)
  BY <1>3, RetryPreserves
<1>4. CASE \E v \in Versions : AmendPlanReview(v)
  BY <1>4, AmendPreserves
<1>5. CASE \E v \in Versions : Grant(v)
  BY <1>5, GrantPreserves
<1>6. CASE \E v \in Versions : ClaimTurn(v) \/ ClaimRefused(v)
  BY <1>6, ClaimPreserves
<1>7. CASE \E v \in Versions : Observe(v)
  BY <1>7, ObservePreserves
<1>8. CASE \E v \in Versions : FinishTurn(v)
  BY <1>8, FinishPreserves
<1>9. CASE QuietWorld
  BY <1>9, QuietProcess
<1>10. CASE Restart
  BY <1>10, RestartPreserves
<1>11. CASE UNCHANGED vars
  <2> USE <1>11 DEF vars, familyVars, planVars, settingVars, worldVars, jobVars, loopVars
  <2>1. UNCHANGED <<familyVars, planVars, runs, granted>>
    OBVIOUS
  <2>2. TypeOK' /\ Halted'
    BY DEF PInv, TypeOK, Halted
  <2>3. queue' \in Seq(Existing) /\ jobs' \subseteq Existing /\ paused' \subseteq Existing
    BY DEF PInv, Opened
  <2>4. /\ \A v \in Versions \ Existing : runner'[v] = "NONE"
        /\ \A v \in Versions :
              runner'[v] = "TURN" => runner[v] = "TURN" /\ turns'[v] = turns[v]
    BY DEF PInv, Opened
  <2> QED BY <2>1, <2>2, <2>3, <2>4, QuietPreserves
<1>12. CASE Next
  <2>1. CASE \E v \in Versions :
               Requests(v) \/ JobBegin(v) \/ Loop(v) \/ TurnLost(v) \/ Expire(v)
    <3>1. PICK v \in Versions :
               Requests(v) \/ JobBegin(v) \/ Loop(v) \/ TurnLost(v) \/ Expire(v)
      BY <2>1
    <3>2. CASE Requests(v)
      BY <1>2, <1>3, <1>4, <1>5, <3>2 DEF Requests, QuietStep
    <3>3. CASE Loop(v)
      BY <1>2, <1>6, <1>7, <1>8, <3>3 DEF Loop, QuietStep
    <3>4. CASE JobBegin(v) \/ TurnLost(v) \/ Expire(v)
      BY <1>2, <3>4 DEF QuietStep
    <3> QED BY <3>1, <3>2, <3>3, <3>4
  <2> QED BY <1>1, <1>9, <1>10, <1>12, <2>1 DEF Next, QuietWorld
<1> QED BY <1>11, <1>12

(* The inductive invariant holds for every number of versions.             *)
THEOREM PlanningInvariant == Spec => []PInv
BY PlanningStarts, PlanningSteps, PTL DEF Spec

(* Every state of planning is well formed.                                 *)
THEOREM PlanningTypeCorrect == Spec => []TypeOK
<1>1. PInv => TypeOK
  BY DEF PInv
<1> QED BY <1>1, PlanningInvariant, PTL

(* At most one version is given to execution, it is approved, and no other *)
(* version follows it: approve against prepareAgain and amendPlanReview.   *)
THEOREM PlanHasOneAuthority == Spec => []OneAuthority
<1>1. PInv => OneAuthority
  <2> SUFFICES ASSUME PInv PROVE OneAuthority
    OBVIOUS
  <2>1. TypeOK /\ Lineage /\ OneGrant
    BY DEF PInv
  <2>2. ASSUME NEW v \in granted PROVE ReviewPhase(v) = "APPROVED" /\ ~HasSuccessor(v)
    <3>1. v = count /\ v \in Versions /\ ReviewPhase(v) = "APPROVED"
      BY <2>1, <2>2 DEF OneGrant, TypeOK
    <3>2. v \in Existing
      BY <3>1 DEF Existing, Versions
    <3> QED BY <2>1, <3>1, <3>2, NewestIsLast
  <2>3. Cardinality(granted) <= 1
    <3>1. IsFiniteSet({count}) /\ Cardinality({count}) = 1
      BY FS_Singleton
    <3> QED BY <2>1, <3>1, FS_Subset DEF OneGrant
  <2> QED BY <2>2, <2>3 DEF OneAuthority
<1> QED BY <1>1, PlanningInvariant, PTL

(* A reviewed plan is approved by the latest turn, which was given exactly *)
(* that plan: claim and finish over interruptions and revisions.           *)
THEOREM ApprovalIsFresh == Spec => []FreshApproval
<1>1. PInv => FreshApproval
  BY ExistingTyped DEF PInv, Local, Fresh, FreshApproval
<1> QED BY <1>1, PlanningInvariant, PTL

(* The ledger never reaches a state that #runs refuses to read.            *)
THEOREM LedgerIsReadable == Spec => []RunsReadable
<1>1. PInv => RunsReadable
  BY DEF PInv, Local, Readable, RunsReadable
<1> QED BY <1>1, PlanningInvariant, PTL

(* The record of a version changes only in the loop of the newest version, *)
(* before that is granted, or when that version opens or is restarted.     *)
LEMMA RecordFrame ==
    ASSUME PInv, [Next]_vars, NEW v \in Existing, v \in granted \/ HasSuccessor(v)
    PROVE  runs'[v] = runs[v] /\ candidates'[v] = candidates[v] /\ decisions'[v] = decisions[v]
<1>1. TypeOK /\ Lineage /\ Opened /\ OneGrant /\ v \in Versions /\ Local(v)
  BY ExistingTyped DEF PInv
<1>2. ReviewPhase(v) \in Undecided => v # count
  <2>1. v \in granted => ReviewPhase(v) = "APPROVED"
    BY <1>1 DEF OneGrant
  <2> QED BY <1>1, <2>1, NewestIsLast DEF Undecided
<1>3. ASSUME NEW n \in Versions, NEW s, NEW p, Accept(n, s, p)
      PROVE  v # n /\ runs' = runs
  BY <1>1, <1>3, ExistingTyped DEF Accept, Existing
<1>4. ASSUME UNCHANGED <<planVars, runs>>
      PROVE  runs'[v] = runs[v] /\ candidates'[v] = candidates[v] /\ decisions'[v] = decisions[v]
  BY <1>4 DEF planVars
<1>5. CASE \E p \in Intakes : Intake(p)
  BY <1>3, <1>4, <1>5, PlanningAssumption DEF Intake, Versions
<1>6. CASE \E u \in Versions : QuietStep(u) \/ Grant(u)
  BY <1>4, <1>6, QuietFrame DEF Grant
<1>7. CASE \E u \in Versions : \E p \in Preferences : PlanningRetry(u, p)
  <2>1. UNCHANGED planVars /\ runs' = runs
    BY <1>7 DEF PlanningRetry, Accept
  <2> QED BY <1>4, <2>1
<1>8. CASE \E u \in Versions : AmendPlanReview(u)
  <2>1. PICK n \in Versions :
            /\ \E s, p : Accept(n, s, p)
            /\ candidates' = [candidates EXCEPT ![n] = 1]
            /\ \E ds : decisions' = [decisions EXCEPT ![n] = ds]
    BY <1>8 DEF AmendPlanReview
  <2>2. v # n /\ runs' = runs
    BY <1>3, <2>1
  <2> QED BY <1>1, <2>1, <2>2 DEF TypeOK
<1>9. CASE \E u \in Versions : ClaimTurn(u) \/ ClaimRefused(u)
  <2>1. PICK u \in Versions : \E status, stop : Claim(u, status, stop)
    BY <1>9 DEF ClaimTurn, ClaimRefused
  <2>2. u \in Existing /\ ~HasSuccessor(u) /\ Phase(u) = "READY"
    BY <1>1, <2>1 DEF Claim, MayClaim, Opened
  <2>3. u # v
    BY <1>1, <1>2, <2>2, ReadyFacts, NewestIsLast
  <2> QED BY <1>1, <2>1, <2>3 DEF Claim, LedgerUnchanged, planVars, TypeOK
<1>10. CASE \E u \in Versions : Observe(u)
  <2>1. PICK u \in Versions : Observe(u)
    BY <1>10
  <2>2. Local(u) /\ runner[u] = "TURN"
    BY <2>1 DEF PInv, Observe
  <2>3. u # v
    BY <1>2, <2>2 DEF Local, Asked
  <2>4. \E r : runs' = [runs EXCEPT ![u] = r]
    BY <2>1 DEF Observe, Rewrite
  <2> QED BY <1>1, <2>1, <2>3, <2>4 DEF Observe, LedgerUnchanged, planVars, TypeOK
<1>11. CASE \E u \in Versions : FinishTurn(u)
  <2>1. PICK u \in Versions : FinishTurn(u)
    BY <1>11
  <2>2. PICK reason : EndTurn(u, reason)
    BY <2>1 DEF FinishTurn, RefuseTurn, Propose, Review, RejectAnswer
  <2>3. Local(u) /\ runner[u] = "TURN"
    BY <2>2 DEF PInv, EndTurn
  <2>4. u # v
    BY <1>2, <2>3 DEF Local, Asked
  <2>5. \E r : runs' = [runs EXCEPT ![u] = r]
    BY <2>2 DEF EndTurn, Rewrite
  <2>6. candidates'[v] = candidates[v] /\ decisions'[v] = decisions[v]
    BY <1>1, <2>1, <2>4 DEF FinishTurn, RefuseTurn, Propose, Review, RejectAnswer, planVars,
                            TypeOK
  <2> QED BY <1>1, <2>4, <2>5, <2>6 DEF TypeOK
<1>12. CASE QuietWorld \/ UNCHANGED vars
  BY <1>4, <1>12
  DEF QuietWorld, PauseProject, ResumeProject, ChangeContext, Shutdown, Exit, Crash, vars
<1>13. CASE Restart
  <2>1. UNCHANGED planVars
    BY <1>13 DEF Restart
  <2>2. ~LatestIs(v, "RUNNING")
    BY <1>1, <1>2 DEF Local, Asked
  <2>3. runs'[v] = runs[v]
    BY <1>1, <1>13, <2>2 DEF Restart
  <2> QED BY <2>1, <2>3 DEF planVars
<1>14. CASE Next
  <2>1. CASE \E u \in Versions :
               Requests(u) \/ JobBegin(u) \/ Loop(u) \/ TurnLost(u) \/ Expire(u)
    <3>1. PICK u \in Versions :
               Requests(u) \/ JobBegin(u) \/ Loop(u) \/ TurnLost(u) \/ Expire(u)
      BY <2>1
    <3>2. CASE Requests(u)
      BY <1>6, <1>7, <1>8, <3>2 DEF Requests, QuietStep
    <3>3. CASE Loop(u)
      BY <1>6, <1>9, <1>10, <1>11, <3>3 DEF Loop, QuietStep
    <3>4. CASE JobBegin(u) \/ TurnLost(u) \/ Expire(u)
      BY <1>6, <3>4 DEF QuietStep
    <3> QED BY <3>1, <3>2, <3>3, <3>4
  <2> QED BY <1>5, <1>12, <1>13, <1>14, <2>1 DEF Next, QuietWorld
<1> QED BY <1>12, <1>14

(* No loop, however late it answers, changes the record of a version that  *)
(* was revised or given to execution.                                      *)
THEOREM RevisedIsFrozen == Spec => VersionsFrozen
<1>1. PInv /\ [Next]_vars =>
        [\A v \in Existing : v \in granted \/ HasSuccessor(v) =>
            /\ runs'[v] = runs[v]
            /\ candidates'[v] = candidates[v]
            /\ decisions'[v] = decisions[v]]_vars
  BY RecordFrame
<1> QED BY <1>1, PlanningInvariant, PTL DEF Spec, VersionsFrozen

-----------------------------------------------------------------------------
(* Planning implements PlanAuthority *)

ApprovedPlans == {v \in Existing : ReviewPhase(v) = "APPROVED"}

(* A new version changes the plan of no other one.                         *)
LEMMA AcceptOpens ==
    ASSUME PInv, NEW n \in Versions, NEW source, NEW p, Accept(n, source, p), granted = {},
           \A v \in Existing : candidates'[v] = candidates[v] /\ decisions'[v] = decisions[v]
    PROVE  Authority!Open
<1>1. count \in Nat /\ count' = count + 1 /\ n = count + 1 /\ granted' = granted
  BY ExistingTyped DEF PInv, Accept
<1>2. \A v \in Existing : ReviewPhase(v)' = ReviewPhase(v)
  BY DEF ReviewPhase
<1>3. Existing' = Existing \cup {n} /\ n \notin Existing
  BY <1>1 DEF Existing
<1>4. ApprovedPlans' \in {ApprovedPlans, ApprovedPlans \cup {count'}}
  BY <1>1, <1>2, <1>3 DEF ApprovedPlans
<1> QED BY <1>1, <1>4 DEF Authority!Open, ApprovedPlans

(* Turns decide the plan of the newest version only.                       *)
LEMMA FinishApproves ==
    ASSUME PInv, NEW v \in Versions, FinishTurn(v)
    PROVE  Authority!Approve \/ UNCHANGED Authority!vars
<1>1. PICK reason : EndTurn(v, reason)
  BY DEF FinishTurn, RefuseTurn, Propose, Review, RejectAnswer
<1>2. count' = count /\ granted' = granted /\ runner[v] = "TURN"
  BY <1>1 DEF EndTurn, familyVars, settingVars
<1>3. v = count /\ ReviewPhase(v) \in Undecided
  BY <1>2 DEF PInv, Local, Asked
<1>4. TypeOK /\ OneGrant /\ count > 0
  BY <1>3 DEF PInv, Versions
<1>5. granted = {}
  BY <1>3, <1>4 DEF OneGrant, Undecided
<1>6. \A u \in Versions \ {v} :
          candidates'[u] = candidates[u] /\ decisions'[u] = decisions[u]
  BY <1>4 DEF FinishTurn, RefuseTurn, Propose, Review, RejectAnswer, planVars, TypeOK
<1>7. \A u \in Existing \ {v} : ReviewPhase(u)' = ReviewPhase(u)
  BY <1>4, <1>6, ExistingTyped DEF ReviewPhase
<1>8. Existing' = Existing /\ v \in Existing
  BY <1>2, <1>3, <1>4, ExistingTyped DEF Existing
<1>9. ApprovedPlans' \in {ApprovedPlans, ApprovedPlans \cup {v}}
  BY <1>3, <1>7, <1>8 DEF ApprovedPlans, Undecided
<1> QED BY <1>2, <1>3, <1>4, <1>5, <1>9 DEF Authority!Approve, Authority!vars, ApprovedPlans

(* Every step of planning is a step of PlanAuthority or changes nothing of *)
(* it.                                                                     *)
LEMMA AuthoritySteps ==
    ASSUME PInv, [Next]_vars
    PROVE  Authority!Next \/ UNCHANGED Authority!vars
<1> USE DEF Authority!Next
<1>1. TypeOK /\ Lineage /\ Opened /\ OneGrant
  BY DEF PInv
<1>2. ASSUME UNCHANGED <<count, candidates, decisions, granted>>
      PROVE  UNCHANGED Authority!vars
  <2>1. \A v : ReviewPhase(v)' = ReviewPhase(v)
    BY <1>2 DEF ReviewPhase
  <2>2. ApprovedPlans' = ApprovedPlans
    BY <1>2, <2>1 DEF ApprovedPlans, Existing
  <2> QED BY <1>2, <2>2 DEF Authority!vars, ApprovedPlans
<1>3. CASE \E p \in Intakes : Intake(p)
  <2>1. granted = {}
    BY <1>1, <1>3 DEF Intake, OneGrant, TypeOK, Versions
  <2>2. PICK p : Accept(1, 0, p) /\ UNCHANGED planVars
    BY <1>3 DEF Intake
  <2>3. 1 \in Versions
    BY PlanningAssumption DEF Versions
  <2> QED BY <2>1, <2>2, <2>3, AcceptOpens DEF planVars
<1>4. CASE \E v \in Versions : \E p \in Preferences : PlanningRetry(v, p)
  <2>1. PICK v \in Versions, p \in Preferences : PlanningRetry(v, p)
    BY <1>4
  <2>2. UNCHANGED planVars /\ v \in Existing /\ v \notin granted
    BY <2>1 DEF PlanningRetry
  <2>3. CASE UNCHANGED <<familyVars, granted>>
    BY <1>2, <2>2, <2>3 DEF familyVars, planVars
  <2>4. CASE ~HasSuccessor(v) /\ Phase(v) # "RUNNING" /\ \E n \in Versions : Accept(n, v, p)
    BY <2>2, <2>4, AcceptOpens, RevisedIsNewest DEF planVars
  <2> QED BY <2>1, <2>3, <2>4 DEF PlanningRetry
<1>5. CASE \E v \in Versions : AmendPlanReview(v)
  <2>1. PICK v \in Versions : AmendPlanReview(v)
    BY <1>5
  <2>2. granted = {}
    BY <2>1, RevisedIsNewest DEF AmendPlanReview
  <2>3. PICK n \in Versions :
            /\ Accept(n, v, policy[v])
            /\ candidates' = [candidates EXCEPT ![n] = 1]
            /\ \E ds : decisions' = [decisions EXCEPT ![n] = ds]
    BY <2>1 DEF AmendPlanReview
  <2>4. ASSUME NEW u \in Existing
        PROVE  candidates'[u] = candidates[u] /\ decisions'[u] = decisions[u]
    <3>1. u # n /\ u \in Versions
      BY <1>1, <2>3, ExistingTyped DEF Accept, Existing
    <3> QED BY <1>1, <2>3, <3>1 DEF TypeOK
  <2> QED BY <2>2, <2>3, <2>4, AcceptOpens
<1>6. CASE \E v \in Versions : Grant(v)
  <2>1. PICK v \in Versions : Grant(v)
    BY <1>6
  <2>2. v \in Existing /\ v = count /\ ReviewPhase(v) = "APPROVED"
    BY <1>1, <2>1, NewestIsLast DEF Grant
  <2>3. UNCHANGED <<count, candidates, decisions>> /\ granted' = granted \cup {count}
    BY <2>1, <2>2 DEF Grant, familyVars, planVars
  <2>4. CASE granted = {}
    <3>1. \A u : ReviewPhase(u)' = ReviewPhase(u)
      BY <2>3 DEF ReviewPhase
    <3>2. ApprovedPlans' = ApprovedPlans /\ count \in ApprovedPlans
      BY <2>2, <2>3, <3>1 DEF ApprovedPlans, Existing
    <3> QED BY <2>3, <2>4, <3>2 DEF Authority!Grant, ApprovedPlans
  <2>5. CASE granted # {}
    BY <1>1, <1>2, <2>3, <2>5 DEF OneGrant
  <2> QED BY <2>4, <2>5
<1>7. CASE \E v \in Versions : FinishTurn(v)
  BY <1>7, FinishApproves
<1>8. CASE \E v \in Versions : QuietStep(v) \/ ClaimTurn(v) \/ ClaimRefused(v) \/ Observe(v)
  BY <1>2, <1>8, QuietFrame
  DEF ClaimTurn, ClaimRefused, Claim, Observe, LedgerUnchanged, familyVars, planVars,
      settingVars
<1>9. CASE QuietWorld \/ Restart \/ UNCHANGED vars
  BY <1>2, <1>9
  DEF QuietWorld, PauseProject, ResumeProject, ChangeContext, Shutdown, Exit, Crash, Restart,
      vars, familyVars, planVars, settingVars
<1>10. CASE Next
  <2>1. CASE \E v \in Versions :
               Requests(v) \/ JobBegin(v) \/ Loop(v) \/ TurnLost(v) \/ Expire(v)
    <3>1. PICK v \in Versions :
               Requests(v) \/ JobBegin(v) \/ Loop(v) \/ TurnLost(v) \/ Expire(v)
      BY <2>1
    <3>2. CASE Requests(v)
      BY <1>4, <1>5, <1>6, <1>8, <3>2 DEF Requests, QuietStep
    <3>3. CASE Loop(v)
      BY <1>7, <1>8, <3>3 DEF Loop, QuietStep
    <3>4. CASE JobBegin(v) \/ TurnLost(v) \/ Expire(v)
      BY <1>8, <3>4 DEF QuietStep
    <3> QED BY <3>1, <3>2, <3>3, <3>4
  <2> QED BY <1>3, <1>9, <1>10, <2>1 DEF Next, QuietWorld
<1> QED BY <1>9, <1>10

(* Planning keeps the promise of PlanAuthority: one plan that work is done *)
(* under.                                                                  *)
THEOREM PlanningImplementsAuthority == Spec => ImplementsAuthority
<1>1. Init => Authority!Init
  BY DEF Init, Authority!Init, Existing
<1>2. PInv /\ [Next]_vars => [Authority!Next]_(Authority!vars)
  BY AuthoritySteps
<1> QED BY <1>1, <1>2, PlanningInvariant, PTL DEF Spec, ImplementsAuthority, Authority!Spec
=============================================================================
