----------------------- MODULE BigTaskExecutionProofs -----------------------
(***************************************************************************)
(* The result branch of an execution, for every plan, role sequence and    *)
(* set of disturbances: type correctness, agreement of Git and log,        *)
(* dependencies, wholeness of a delivery, and the refinement of            *)
(* ResultDelivery.                                                         *)
(***************************************************************************)
EXTENDS BigTaskExecution, SequenceTheorems, FiniteSetTheorems, TLAPS

InRole == {"CLAIMED", "SENT", "LIVE", "RESULT"}

(* The worker's place fits the runs and the worktrees.                     *)
Bookkeeping ==
    /\ pc \in {"APPLY", "RECORD"} => pending # None
    /\ pc \in InRole => /\ runs # <<>>
                        /\ runs[Len(runs)].stage = done[runs[Len(runs)].task] + 1
    /\ \A i \in DOMAIN runs : base[runs[i].task] # None
    /\ \A s \in Subtasks : done[s] > 0 \/ receipt[s] # "NONE" => base[s] # None
    /\ finished => AllComplete
    /\ phase \in Delivered => pc = "NONE"

(* What an intent says: the branch is created at the head, or one complete *)
(* subtask whose dependencies are in the result is put on top of it.       *)
ExactIntent ==
    pending # None =>
        /\ pending.from = head
        /\ IF pending.task = 0 THEN ~created /\ pending.to = head
           ELSE /\ created /\ pending.to = Append(head, pending.task)
                /\ Complete(pending.task) /\ pending.task \notin Range(head)
                /\ Upstream[pending.task] \subseteq Range(head)

(* Git, log and worktrees.                                                 *)
Branch ==
    /\ head = integrated
    /\ ref = (IF created THEN head ELSE None) \/ (pending # None /\ ref = pending.to)
    /\ pc = "RECORD" => ref = pending.to
    /\ ~created => head = <<>>
    /\ pc \in {"SCAN", "PICK", "DELIVER"} => created
    /\ pc = "PICK" => pending = None /\ Unintegrated = {}
    /\ \A s \in Subtasks : base[s] # None => IsPrefix(base[s], head)
    /\ \A i, j \in DOMAIN head : head[i] = head[j] => i = j
    /\ \A i \in DOMAIN head : Complete(head[i])

IInv == TypeOK /\ Bookkeeping /\ ExactIntent /\ Branch /\ DependenciesInBase /\ DeliveredComplete
-----------------------------------------------------------------------------
(***************************************************************************)
(* Prefixes                                                                *)
(***************************************************************************)

(* Prefix order, element by element.                                       *)
LEMMA PrefixPointwise ==
    ASSUME NEW S, NEW b \in Seq(S), NEW h \in Seq(S)
    PROVE  IsPrefix(b, h) <=> Len(b) <= Len(h) /\ \A i \in 1 .. Len(b) : b[i] = h[i]
<1>1. CASE Len(b) <= Len(h)
  <2> DEFINE c == SubSeq(h, 1, Len(b))
  <2>1. c \in Seq(S) /\ Len(c) = Len(b) /\ \A i \in 1 .. Len(b) : c[i] = h[i]
    BY <1>1
  <2>2. SubSeq(b, 1, Len(b)) = b
    BY SubSeqFull
  <2>3. b = c <=> \A i \in 1 .. Len(b) : b[i] = c[i]
    BY <2>1, SeqEqual
  <2> QED BY <1>1, <2>1, <2>2, <2>3 DEF IsPrefix
<1>2. CASE ~(Len(b) <= Len(h))
  BY <1>2 DEF IsPrefix
<1> QED BY <1>1, <1>2

(* A prefix stays one when the longer sequence grows.                      *)
LEMMA PrefixOfAppend ==
    ASSUME NEW S, NEW b \in Seq(S), NEW h \in Seq(S), NEW e \in S, IsPrefix(b, h)
    PROVE  IsPrefix(b, Append(h, e))
<1> DEFINE a == Append(h, e)
<1>1. a \in Seq(S) /\ Len(a) = Len(h) + 1 /\ \A i \in 1 .. Len(h) : a[i] = h[i]
  OBVIOUS
<1>2. Len(b) <= Len(h) /\ \A i \in 1 .. Len(b) : b[i] = h[i]
  BY PrefixPointwise
<1> HIDE DEF a
<1>3. Len(b) <= Len(a) /\ \A i \in 1 .. Len(b) : b[i] = a[i]
  BY <1>1, <1>2
<1>4. IsPrefix(b, a)
  BY <1>1, <1>3, PrefixPointwise
<1> QED BY <1>4 DEF a

(* What a prefix contains, the longer sequence contains.                   *)
LEMMA PrefixRange ==
    ASSUME NEW S, NEW b \in Seq(S), NEW h \in Seq(S), IsPrefix(b, h)
    PROVE  Range(b) \subseteq Range(h)
<1>1. Len(b) <= Len(h) /\ \A i \in 1 .. Len(b) : b[i] = h[i]
  BY PrefixPointwise
<1> QED BY <1>1 DEF Range

(* Append adds one element to the range.                                   *)
LEMMA AppendRange ==
    ASSUME NEW S, NEW h \in Seq(S), NEW e \in S
    PROVE  Range(Append(h, e)) = Range(h) \cup {e}
<1>1. Len(Append(h, e)) = Len(h) + 1 /\ Append(h, e)[Len(h) + 1] = e
      /\ \A i \in 1 .. Len(h) : Append(h, e)[i] = h[i]
      /\ DOMAIN Append(h, e) = 1 .. Len(h) + 1 /\ DOMAIN h = 1 .. Len(h)
  OBVIOUS
<1> QED BY <1>1 DEF Range

(* A result that grew from b, and that b with e on top descends from, is b *)
(* itself unless e is already in it.                                       *)
LEMMA PrefixSqueeze ==
    ASSUME NEW S, NEW b \in Seq(S), NEW h \in Seq(S), NEW e \in S,
           IsPrefix(b, h), IsPrefix(h, Append(b, e)), e \notin Range(h)
    PROVE  h = b
<1> DEFINE a == Append(b, e)
<1>1. a \in Seq(S) /\ Len(a) = Len(b) + 1 /\ a[Len(b) + 1] = e
  OBVIOUS
<1>2. Len(b) <= Len(h) /\ \A i \in 1 .. Len(b) : b[i] = h[i]
  BY PrefixPointwise
<1>3. IsPrefix(h, a)
  OBVIOUS
<1> HIDE DEF a
<1>4. Len(h) <= Len(a) /\ \A i \in 1 .. Len(h) : h[i] = a[i]
  BY <1>1, <1>3, PrefixPointwise
<1>5. Len(h) # Len(b) + 1
  <2> SUFFICES ASSUME Len(h) = Len(b) + 1 PROVE FALSE
    OBVIOUS
  <2>1. h[Len(b) + 1] = e /\ Len(b) + 1 \in DOMAIN h
    BY <1>1, <1>4
  <2> QED BY <2>1 DEF Range
<1>6. Len(h) = Len(b)
  BY <1>1, <1>2, <1>4, <1>5
<1> QED BY <1>2, <1>6, SeqEqual
-----------------------------------------------------------------------------
(***************************************************************************)
(* The initial state                                                       *)
(***************************************************************************)
(* An approved execution that has not started satisfies the invariant.     *)
LEMMA Initially == Init => IInv
<1> SUFFICES ASSUME Init PROVE IInv
  OBVIOUS
<1>1. TypeOK
  <2>1. /\ phase \in Phase /\ stopReason \in StopReason /\ control \in ControlPhase
        /\ service \in Service /\ pc \in WorkerPc
    BY DEF Init, Phase, StopReason, ControlPhase, Service, WorkerPc
  <2>2. limits \in Limits
    BY ConstantsAssumption DEF Init, Limits
  <2>3. /\ integrated \in Seq(Subtasks) /\ head \in Sha /\ runs \in Seq(Run)
        /\ acked \subseteq DOMAIN runs /\ qaRun \in 0 .. Len(runs)
    BY DEF Init, Sha
  <2>4. done \in [Subtasks -> 0 .. Roles]
    BY ConstantsAssumption DEF Init
  <2>5. receipt \in [Subtasks -> Receipt] /\ base \in [Subtasks -> Sha \cup {None}]
    BY DEF Init, Receipt
  <2> QED BY <2>1, <2>2, <2>3, <2>4, <2>5 DEF Init, TypeOK
<1>2. Bookkeeping
  BY DEF Init, Bookkeeping, InRole, Delivered
<1>3. ExactIntent /\ DependenciesInBase /\ DeliveredComplete
  BY DEF Init, ExactIntent, DependenciesInBase, DeliveredComplete, Delivered
<1>4. Branch
  BY DEF Init, Branch
<1> QED BY <1>1, <1>2, <1>3, <1>4 DEF IInv
-----------------------------------------------------------------------------
(***************************************************************************)
(* What a step that does not touch the result leaves true                  *)
(***************************************************************************)
resultVars == <<integrated, head, created, pending, ref, base, done>>

(* Nothing about the branch changes unless the worker reaches one of the   *)
(* places where the branch is known to be up to date.                      *)
LEMMA BranchFrame ==
    ASSUME IInv, UNCHANGED resultVars,
           pc' = pc \/ pc' \notin {"RECORD", "SCAN", "PICK", "DELIVER"}
    PROVE  ExactIntent' /\ Branch' /\ DependenciesInBase'
<1>1. ExactIntent'
  BY DEF IInv, resultVars, ExactIntent, Complete
<1>2. Branch'
  BY DEF IInv, resultVars, Branch, Complete, Unintegrated
<1>3. DependenciesInBase'
  BY DEF IInv, resultVars, DependenciesInBase
<1> QED BY <1>1, <1>2, <1>3

(* A delivery stays whole while nothing it consists of changes.            *)
LEMMA DeliveryFrame ==
    ASSUME IInv, phase' \in Delivered => phase \in Delivered,
           phase' \in Delivered => UNCHANGED <<finished, runs, limits, acked, qaRun, resultVars>>
    PROVE  DeliveredComplete'
  BY DEF IInv, DeliveredComplete, resultVars, AllComplete, Complete, UsageSettled, ActiveRuns,
         Active, Unacknowledged, UnknownRuns
-----------------------------------------------------------------------------
(***************************************************************************)
(* Human operations keep the invariant: none touches the result branch.    *)
(***************************************************************************)
(* A recovery marks one run as replaced and changes no other field.        *)
LEMMA ReplaceKeepsType ==
    ASSUME TypeOK, NEW i \in DOMAIN runs, Replace(i)
    PROVE  runs' \in Seq(Run) /\ Len(runs') = Len(runs) /\ DOMAIN runs' = DOMAIN runs
<1>1. runs[i] \in Run /\ runs' = [runs EXCEPT ![i].replaced = TRUE]
  BY DEF TypeOK, Replace
<1>2. [runs[i] EXCEPT !.replaced = TRUE] \in Run
  BY <1>1 DEF Run
<1> QED BY <1>1, <1>2 DEF TypeOK

(* Starting, pausing, adjusting, renewing, recovering and deciding keep the*)
(* invariant.                                                              *)
LEMMA HumanPreserves ==
    ASSUME IInv, HumanStep PROVE IInv'
<1>1. CASE Start
  <2>1. TypeOK'
    <3>1. phase' \in Phase /\ stopReason' \in StopReason /\ pc' \in WorkerPc
      BY <1>1
        DEF IInv, TypeOK, Start, StartEffect, CanStart, governedVars, lifecycleVars, Phase,
            StopReason, WorkerPc
    <3> QED BY <1>1, <3>1
      DEF IInv, TypeOK, Start, StartEffect, CanStart, governedVars, lifecycleVars
  <2>2. Bookkeeping'
    BY <1>1
      DEF IInv, TypeOK, Bookkeeping, InRole, Delivered, AllComplete, Complete, Start, StartEffect,
          CanStart, governedVars, lifecycleVars
  <2>3. ExactIntent' /\ Branch' /\ DependenciesInBase'
    BY <1>1, BranchFrame DEF resultVars, Start, StartEffect, CanStart, governedVars, lifecycleVars
  <2>4. DeliveredComplete'
    BY <1>1, DeliveryFrame
      DEF resultVars, Delivered, Start, StartEffect, CanStart, governedVars, lifecycleVars
  <2> QED BY <2>1, <2>2, <2>3, <2>4 DEF IInv
<1>2. CASE Pause
  <2>1. TypeOK'
    <3>1. phase' \in Phase /\ stopReason' \in StopReason
      BY <1>2
        DEF IInv, TypeOK, Pause, PauseEffect, StopIfRunning, Stop, PauseReasons, governedVars,
            lifecycleVars, Phase, StopReason, HumanReasons
    <3> QED BY <1>2, <3>1
      DEF IInv, TypeOK, Pause, PauseEffect, StopIfRunning, Stop, PauseReasons, governedVars,
          lifecycleVars
  <2>2. Bookkeeping'
    BY <1>2
      DEF IInv, TypeOK, Bookkeeping, InRole, Delivered, AllComplete, Complete, Pause, PauseEffect,
          StopIfRunning, Stop, PauseReasons, governedVars, lifecycleVars
  <2>3. ExactIntent' /\ Branch' /\ DependenciesInBase'
    BY <1>2, BranchFrame
      DEF resultVars, Pause, PauseEffect, StopIfRunning, Stop, PauseReasons, governedVars,
          lifecycleVars
  <2>4. DeliveredComplete'
    BY <1>2, DeliveryFrame
      DEF resultVars, Delivered, Pause, PauseEffect, StopIfRunning, Stop, PauseReasons,
          governedVars, lifecycleVars
  <2> QED BY <2>1, <2>2, <2>3, <2>4 DEF IInv
<1>3. CASE PauseScope
  <2>1. TypeOK'
    <3>1. phase' \in Phase /\ stopReason' \in StopReason
      BY <1>3
        DEF IInv, TypeOK, PauseScope, PauseEffect, StopIfRunning, Stop, PauseReasons,
            governedVars, lifecycleVars, Phase, StopReason, HumanReasons
    <3> QED BY <1>3, <3>1
      DEF IInv, TypeOK, PauseScope, PauseEffect, StopIfRunning, Stop, PauseReasons, governedVars,
          lifecycleVars
  <2>2. Bookkeeping'
    BY <1>3
      DEF IInv, TypeOK, Bookkeeping, InRole, Delivered, AllComplete, Complete, PauseScope,
          PauseEffect, StopIfRunning, Stop, PauseReasons, governedVars, lifecycleVars
  <2>3. ExactIntent' /\ Branch' /\ DependenciesInBase'
    BY <1>3, BranchFrame
      DEF resultVars, PauseScope, PauseEffect, StopIfRunning, Stop, PauseReasons, governedVars,
          lifecycleVars
  <2>4. DeliveredComplete'
    BY <1>3, DeliveryFrame
      DEF resultVars, Delivered, PauseScope, PauseEffect, StopIfRunning, Stop, PauseReasons,
          governedVars, lifecycleVars
  <2> QED BY <2>1, <2>2, <2>3, <2>4 DEF IInv
<1>4. CASE ResumeScope
  <2>1. TypeOK'
    <3>1. phase' \in Phase /\ stopReason' \in StopReason /\ pc' \in WorkerPc
      BY <1>4
        DEF IInv, TypeOK, ResumeScope, StartEffect, governedVars, lifecycleVars, Phase,
            StopReason, WorkerPc
    <3> QED BY <1>4, <3>1 DEF IInv, TypeOK, ResumeScope, StartEffect, governedVars, lifecycleVars
  <2>2. Bookkeeping'
    BY <1>4
      DEF IInv, TypeOK, Bookkeeping, InRole, Delivered, AllComplete, Complete, ResumeScope,
          StartEffect, governedVars, lifecycleVars
  <2>3. ExactIntent' /\ Branch' /\ DependenciesInBase'
    BY <1>4, BranchFrame DEF resultVars, ResumeScope, StartEffect, governedVars, lifecycleVars
  <2>4. DeliveredComplete'
    BY <1>4, DeliveryFrame
      DEF resultVars, Delivered, ResumeScope, StartEffect, governedVars, lifecycleVars
  <2> QED BY <2>1, <2>2, <2>3, <2>4 DEF IInv
<1>5. CASE AdjustLimits
  <2>1. TypeOK'
    <3>1. phase' \in Phase /\ stopReason' \in StopReason
      BY <1>5
        DEF IInv, TypeOK, AdjustLimits, Adjust, Stop, PauseReasons, Phase, StopReason,
            HumanReasons
    <3>2. limits' \in Limits
      BY <1>5, ConstantsAssumption DEF IInv, TypeOK, AdjustLimits, Adjust, Limits
    <3>3. acked' \subseteq DOMAIN runs
      BY <1>5 DEF AdjustLimits, Adjust, UnknownRuns
    <3> QED BY <1>5, <3>1, <3>2, <3>3
      DEF IInv, TypeOK, AdjustLimits, Adjust, Stop, PauseReasons, governedVars, lifecycleVars,
          processVars
  <2>2. Bookkeeping'
    BY <1>5
      DEF IInv, TypeOK, Bookkeeping, InRole, Delivered, AllComplete, Complete, AdjustLimits,
          Adjust, Stop, PauseReasons, governedVars, lifecycleVars, processVars
  <2>3. ExactIntent' /\ Branch' /\ DependenciesInBase'
    BY <1>5, BranchFrame
      DEF resultVars, AdjustLimits, Adjust, Stop, PauseReasons, governedVars, lifecycleVars,
          processVars
  <2>4. DeliveredComplete'
    BY <1>5, DeliveryFrame
      DEF resultVars, Delivered, AdjustLimits, Adjust, Stop, PauseReasons, governedVars,
          lifecycleVars, processVars
  <2> QED BY <2>1, <2>2, <2>3, <2>4 DEF IInv
<1>6. CASE RenewWindow
  <2>1. TypeOK'
    BY <1>6 DEF IInv, TypeOK, RenewWindow, CanRenewWindow, governedVars, lifecycleVars, processVars
  <2>2. Bookkeeping'
    BY <1>6
      DEF IInv, TypeOK, Bookkeeping, InRole, Delivered, AllComplete, Complete, RenewWindow,
          CanRenewWindow, governedVars, lifecycleVars, processVars
  <2>3. ExactIntent' /\ Branch' /\ DependenciesInBase'
    BY <1>6, BranchFrame
      DEF resultVars, RenewWindow, CanRenewWindow, governedVars, lifecycleVars, processVars
  <2>4. DeliveredComplete'
    BY <1>6, DeliveryFrame
      DEF resultVars, Delivered, RenewWindow, CanRenewWindow, governedVars, lifecycleVars,
          processVars
  <2> QED BY <2>1, <2>2, <2>3, <2>4 DEF IInv
<1>7. CASE Recover
  <2>1. TypeOK'
    <3>1. phase' \in Phase /\ stopReason' \in StopReason
      BY <1>7 DEF Recover, Replace, Phase, StopReason, PauseReasons
    <3>2. runs' \in Seq(Run) /\ Len(runs') = Len(runs) /\ DOMAIN runs' = DOMAIN runs
      BY <1>7, ReplaceKeepsType DEF IInv, Recover
    <3>3. warned' \in BOOLEAN
      BY <1>7 DEF IInv, TypeOK, Recover, WarningOnly
    <3> QED BY <1>7, <3>1, <3>2, <3>3
      DEF IInv, TypeOK, Recover, CanRecover, Replace, lifecycleVars, processVars
  <2>2. Bookkeeping'
    BY <1>7
      DEF IInv, TypeOK, Bookkeeping, InRole, Delivered, AllComplete, Complete, Recover,
          CanRecover, Replace, lifecycleVars, processVars
  <2>3. ExactIntent' /\ Branch' /\ DependenciesInBase'
    BY <1>7, BranchFrame DEF resultVars, Recover, CanRecover, Replace, lifecycleVars, processVars
  <2>4. DeliveredComplete'
    BY <1>7, DeliveryFrame
      DEF resultVars, Delivered, Recover, CanRecover, Replace, lifecycleVars, processVars
  <2> QED BY <2>1, <2>2, <2>3, <2>4 DEF IInv
<1>8. CASE RecoverQa
  <2>1. TypeOK'
    <3>1. phase' \in Phase /\ stopReason' \in StopReason
      BY <1>8 DEF RecoverQa, Replace, Phase, StopReason, PauseReasons
    <3>2. runs' \in Seq(Run) /\ Len(runs') = Len(runs) /\ DOMAIN runs' = DOMAIN runs
      BY <1>8, ReplaceKeepsType DEF IInv, RecoverQa
    <3>3. limits' \in Limits
      BY <1>8, ConstantsAssumption DEF IInv, TypeOK, RecoverQa, Limits
    <3>4. qaRun' \in 0 .. Len(runs)
      BY <1>8 DEF IInv, TypeOK, RecoverQa
    <3> QED BY <1>8, <3>1, <3>2, <3>3, <3>4
      DEF IInv, TypeOK, RecoverQa, CanRecoverQa, Replace, lifecycleVars, processVars
  <2>2. Bookkeeping'
    BY <1>8
      DEF IInv, TypeOK, Bookkeeping, InRole, Delivered, AllComplete, Complete, RecoverQa,
          CanRecoverQa, Replace, lifecycleVars, processVars
  <2>3. ExactIntent' /\ Branch' /\ DependenciesInBase'
    BY <1>8, BranchFrame
      DEF resultVars, RecoverQa, CanRecoverQa, Replace, lifecycleVars, processVars
  <2>4. DeliveredComplete'
    BY <1>8, DeliveryFrame
      DEF resultVars, Delivered, RecoverQa, CanRecoverQa, Replace, lifecycleVars, processVars
  <2> QED BY <2>1, <2>2, <2>3, <2>4 DEF IInv
<1>9. CASE Accept \/ Close
  <2>1. TypeOK'
    BY <1>9 DEF IInv, TypeOK, Accept, Close, Decide, governedVars, lifecycleVars, processVars, Phase
  <2>2. Bookkeeping'
    BY <1>9
      DEF IInv, TypeOK, Bookkeeping, InRole, Delivered, AllComplete, Complete, Accept, Close,
          Decide, governedVars, lifecycleVars, processVars
  <2>3. ExactIntent' /\ Branch' /\ DependenciesInBase'
    BY <1>9, BranchFrame
      DEF resultVars, Accept, Close, Decide, governedVars, lifecycleVars, processVars
  <2>4. DeliveredComplete'
    BY <1>9, DeliveryFrame
      DEF resultVars, Delivered, Accept, Close, Decide, governedVars, lifecycleVars, processVars
  <2> QED BY <2>1, <2>2, <2>3, <2>4 DEF IInv
<1> QED BY <1>1, <1>2, <1>3, <1>4, <1>5, <1>6, <1>7, <1>8, <1>9 DEF HumanStep
-----------------------------------------------------------------------------
(***************************************************************************)
(* The preparation of the next role keeps the invariant                    *)
(***************************************************************************)

(* A stop while preparing leaves branch, intent and worktrees as they are: *)
(* a pending intent survives it.                                           *)
LEMMA StopPreparingPreserves ==
    ASSUME IInv, NEW reason \in StopReason \ {"NONE"}, StopPreparing(reason)
    PROVE  IInv'
<1>1. TypeOK'
  <2>1. phase' \in Phase /\ stopReason' \in StopReason /\ control' \in ControlPhase /\ pc' \in WorkerPc
    BY DEF StopPreparing, Stop, Phase, ControlPhase, WorkerPc
  <2> QED BY <2>1 DEF IInv, TypeOK, StopPreparing, governedVars, lifecycleVars
<1>2. phase' \notin Delivered /\ pc' = "NONE"
  BY DEF StopPreparing, Stop, Delivered
<1>3. Bookkeeping'
  BY <1>2 DEF IInv, Bookkeeping, InRole, AllComplete, Complete, StopPreparing, governedVars
<1>4. ExactIntent' /\ Branch' /\ DependenciesInBase'
  BY BranchFrame DEF resultVars, StopPreparing, governedVars
<1>5. DeliveredComplete'
  BY <1>2, DeliveryFrame
<1> QED BY <1>1, <1>3, <1>4, <1>5 DEF IInv

(* Storing the intent, or meeting the same intent again.                   *)
LEMMA PrepareIntentPreserves ==
    ASSUME IInv, NEW s \in 0 .. N, NEW to \in Sha, PrepareIntent(s, to), pc \in {"REF", "SCAN"},
           IF s = 0 THEN ~created /\ to = head
           ELSE /\ created /\ to = Append(head, s) /\ Complete(s) /\ s \notin Range(head)
                /\ Upstream[s] \subseteq Range(head)
    PROVE  IInv'
<1>1. pending' = [task |-> s, from |-> head, to |-> to]
  BY DEF PrepareIntent
<1>2. pending' \in Intent /\ pending' # None /\ (pending # None => pending' = pending)
  <2>1. pending' \in Intent
    BY <1>1 DEF IInv, TypeOK, Intent
  <2>2. pending' # None
    BY ConstantsAssumption, <2>1
  <2> QED BY <2>1, <2>2 DEF PrepareIntent
<1>3. TypeOK'
  BY <1>2 DEF IInv, TypeOK, PrepareIntent, WorkerPc, governedVars, lifecycleVars
<1>4. phase \notin Delivered /\ phase' = phase
  BY DEF PrepareIntent, IInv, Bookkeeping
<1>5. Bookkeeping'
  BY <1>2, <1>4 DEF IInv, Bookkeeping, InRole, AllComplete, Complete, PrepareIntent, governedVars
<1>6. ExactIntent'
  BY <1>1 DEF ExactIntent, PrepareIntent, Complete, governedVars
<1>7. Branch'
  BY <1>2 DEF IInv, Branch, PrepareIntent, Complete, governedVars
<1>8. DependenciesInBase' /\ DeliveredComplete'
  BY <1>4 DEF IInv, DependenciesInBase, DeliveredComplete, PrepareIntent, governedVars
<1> QED BY <1>3, <1>5, <1>6, <1>7, <1>8 DEF IInv

(* The candidate of a completed subtask that may be integrated is the head *)
(* with that subtask on top: no other subtask came in between.             *)
LEMMA CandidateIsNext ==
    ASSUME IInv, NEW s \in Subtasks, s \in Unintegrated, IsPrefix(head, Candidate(s))
    PROVE  /\ Candidate(s) = Append(head, s) /\ s \notin Range(head)
           /\ Complete(s) /\ Upstream[s] \subseteq Range(head)
<1>1. Complete(s) /\ s \notin Range(head)
  BY DEF Unintegrated, IInv, Branch
<1>2. base[s] # None
  BY <1>1, ConstantsAssumption DEF Complete, IInv, Bookkeeping
<1>3. base[s] \in Seq(Subtasks) /\ head \in Seq(Subtasks)
  BY <1>2 DEF IInv, TypeOK, Sha
<1>4. IsPrefix(base[s], head)
  BY <1>2 DEF IInv, Branch
<1>5. head = base[s]
  BY <1>1, <1>3, <1>4, PrefixSqueeze DEF Candidate
<1>6. Upstream[s] \subseteq Range(base[s])
  BY <1>2 DEF IInv, DependenciesInBase
<1> QED BY <1>1, <1>5, <1>6 DEF Candidate

(* N different subtasks are all the subtasks.                              *)
LEMMA FullRange ==
    ASSUME NEW q \in Seq(Subtasks), Len(q) = N, \A i, j \in DOMAIN q : q[i] = q[j] => i = j
    PROVE  Range(q) = Subtasks
<1>1. Range(q) \subseteq Subtasks
  BY DEF Range
<1>2. ASSUME NEW x \in Subtasks, x \notin Range(q) PROVE FALSE
  <2>1. IsFiniteSet(Subtasks) /\ Cardinality(Subtasks) = N
    BY ConstantsAssumption, FS_Interval DEF Subtasks
  <2>2. IsFiniteSet(Subtasks \ {x}) /\ Cardinality(Subtasks \ {x}) = N - 1
    BY <2>1, FS_RemoveElement
  <2>3. q \in [Subtasks -> Subtasks \ {x}]
    BY <1>2, ConstantsAssumption DEF Range, Subtasks
  <2>4. Cardinality(Subtasks \ {x}) < Cardinality(Subtasks)
    BY <2>1, <2>2, ConstantsAssumption
  <2>5. \E i, j \in Subtasks : i # j /\ q[i] = q[j]
    <3> DEFINE T == Subtasks \ {x}
    <3>1. IsFiniteSet(Subtasks) /\ IsFiniteSet(T) /\ q \in [Subtasks -> T]
          /\ Cardinality(T) < Cardinality(Subtasks)
      BY <2>1, <2>2, <2>3, <2>4
    <3> HIDE DEF T
    <3> QED BY <3>1, FS_PigeonHole
  <2> QED BY <2>5, ConstantsAssumption DEF Subtasks
<1> QED BY <1>1, <1>2

(* Steps of the integration itself.                                        *)
LEMMA IntegrationPreserves ==
    ASSUME IInv, \/ EnsureRef \/ UpdateRef \/ RecordIntegration \/ ScanDone \/ Deliver
                 \/ \E s \in Subtasks : IntegrateCandidate(s)
    PROVE  IInv'
<1>1. CASE EnsureRef
  <2>1. CASE ~created
    <3>1. 0 \in 0 .. N /\ head \in Sha
      BY ConstantsAssumption DEF IInv, TypeOK
    <3> QED BY <1>1, <2>1, <3>1, PrepareIntentPreserves DEF EnsureRef
  <2>2. CASE created
    <3>1. TypeOK'
      BY <1>1, <2>2 DEF IInv, TypeOK, EnsureRef, WorkerPc, logVars, governedVars, lifecycleVars
    <3>2. Bookkeeping'
      BY <1>1, <2>2 DEF IInv, Bookkeeping, InRole, Delivered, AllComplete, Complete, EnsureRef,
                        AssertRunning, logVars, governedVars
    <3>3. ExactIntent' /\ DependenciesInBase' /\ DeliveredComplete'
      BY <1>1, <2>2, DeliveryFrame DEF IInv, ExactIntent, DependenciesInBase, Complete, EnsureRef,
                        resultVars, logVars, governedVars
    <3>4. Branch'
      BY <1>1, <2>2 DEF IInv, Branch, Complete, EnsureRef, logVars, governedVars
    <3> QED BY <3>1, <3>2, <3>3, <3>4 DEF IInv
  <2> QED BY <2>1, <2>2
<1>2. CASE UpdateRef
  <2>1. pending # None /\ pending \in Intent /\ pending.to \in Sha
    BY <1>2 DEF IInv, TypeOK, Bookkeeping, UpdateRef, Intent
  <2>2. TypeOK'
    BY <1>2, <2>1 DEF IInv, TypeOK, UpdateRef, WorkerPc, logVars, governedVars, lifecycleVars
  <2>3. Bookkeeping'
    BY <1>2, <2>1 DEF IInv, Bookkeeping, InRole, Delivered, AllComplete, Complete, UpdateRef,
                      logVars, governedVars
  <2>4. ExactIntent' /\ DependenciesInBase'
    BY <1>2 DEF IInv, ExactIntent, DependenciesInBase, Complete, UpdateRef, logVars, governedVars
  <2>5. Branch'
    BY <1>2, <2>1 DEF IInv, Branch, Complete, UpdateRef, logVars, governedVars
  <2>6. DeliveredComplete'
    BY <1>2 DEF IInv, Bookkeeping, DeliveredComplete, UpdateRef, logVars
  <2> QED BY <2>2, <2>3, <2>4, <2>5, <2>6 DEF IInv
<1>3. CASE RecordIntegration
  <2>1. /\ pending # None /\ pending \in Intent /\ pending.to \in Sha /\ pending.task \in 0 .. N
        /\ ref = pending.to /\ phase = "RUNNING" /\ head \in Seq(Subtasks)
    BY <1>3 DEF IInv, TypeOK, Bookkeeping, Branch, RecordIntegration, Intent, Sha
  <2>2. CASE pending.task = 0
    <3>1. ~created /\ pending.to = head /\ head' = head /\ created' /\ integrated' = integrated
      BY <1>3, <2>1, <2>2 DEF IInv, ExactIntent, RecordIntegration
    <3>2. TypeOK'
      BY <1>3, <2>2, <3>1 DEF IInv, TypeOK, RecordIntegration, WorkerPc, governedVars, lifecycleVars
    <3>3. Bookkeeping'
      BY <1>3, <2>1, <2>2 DEF IInv, Bookkeeping, InRole, Delivered, AllComplete, Complete,
                              RecordIntegration, governedVars
    <3>4. ExactIntent' /\ DependenciesInBase' /\ DeliveredComplete'
      BY <1>3, <2>1 DEF IInv, ExactIntent, DependenciesInBase, DeliveredComplete, Delivered,
                        RecordIntegration, governedVars
    <3>5. Branch'
      BY <1>3, <2>1, <2>2, <3>1 DEF IInv, Branch, Complete, RecordIntegration, governedVars
    <3> QED BY <3>2, <3>3, <3>4, <3>5 DEF IInv
  <2>3. CASE pending.task # 0
    <3> DEFINE s == pending.task
    <3>1. /\ created /\ created' = created /\ s \in Subtasks /\ s \notin Range(head) /\ Complete(s)
          /\ head' = Append(head, s) /\ integrated' = Append(integrated, s) /\ integrated = head
      BY <1>3, <2>1, <2>3, ConstantsAssumption
         DEF IInv, ExactIntent, Branch, RecordIntegration, Subtasks
    <3>2. head' \in Seq(Subtasks)
      BY <2>1, <3>1
    <3>3. TypeOK'
      BY <1>3, <3>1, <3>2 DEF IInv, TypeOK, RecordIntegration, WorkerPc, Sha, governedVars, lifecycleVars
    <3>4. Bookkeeping'
      BY <1>3, <2>1 DEF IInv, Bookkeeping, InRole, Delivered, AllComplete, Complete,
                        RecordIntegration, governedVars
    <3>5. ExactIntent' /\ DependenciesInBase' /\ DeliveredComplete'
      BY <1>3, <2>1 DEF IInv, ExactIntent, DependenciesInBase, DeliveredComplete, Delivered,
                        RecordIntegration, governedVars
    <3>6. Branch'
      <4>1. head' = integrated' /\ ref' = head' /\ created' /\ pc' = "SCAN"
        BY <1>3, <2>1, <2>3, <3>1 DEF RecordIntegration
      <4>2. ASSUME NEW t \in Subtasks, base'[t] # None PROVE IsPrefix(base'[t], head')
        <5>1. base'[t] = base[t] /\ base[t] \in Seq(Subtasks) /\ IsPrefix(base[t], head)
          BY <1>3, <4>2 DEF RecordIntegration, governedVars, IInv, TypeOK, Branch, Sha
        <5> QED BY <2>1, <3>1, <5>1, PrefixOfAppend
      <4>3. /\ DOMAIN head' = 1 .. Len(head) + 1 /\ head'[Len(head) + 1] = s
            /\ \A i \in 1 .. Len(head) : head'[i] = head[i] /\ i \in DOMAIN head
        BY <2>1, <3>1
      <4>4. \A i \in 1 .. Len(head) : head[i] # s
        BY <2>1, <3>1 DEF Range
      <4>5. \A i, j \in DOMAIN head' : head'[i] = head'[j] => i = j
        BY <2>1, <4>3, <4>4 DEF IInv, Branch
      <4>6. \A i \in DOMAIN head' : Complete(head'[i])
        BY <2>1, <3>1, <4>3 DEF IInv, Branch
      <4>7. done' = done
        BY <1>3 DEF RecordIntegration, governedVars
      <4> QED BY <4>1, <4>2, <4>5, <4>6, <4>7 DEF Branch, Complete
    <3> QED BY <3>3, <3>4, <3>5, <3>6 DEF IInv
  <2> QED BY <2>2, <2>3
<1>4. CASE ScanDone
  <2>1. pending = None
    <3> SUFFICES ASSUME pending # None PROVE FALSE
      OBVIOUS
    <3>1. created /\ pending \in Intent
      BY <1>4 DEF IInv, TypeOK, Branch, ScanDone
    <3>2. /\ pending.task \in Subtasks /\ Complete(pending.task)
          /\ pending.task \notin Range(integrated)
      BY <3>1, ConstantsAssumption DEF IInv, ExactIntent, Branch, Intent, Subtasks
    <3> QED BY <1>4, <3>2 DEF ScanDone, Unintegrated
  <2>2. TypeOK'
    BY <1>4 DEF IInv, TypeOK, ScanDone, WorkerPc, AllComplete, logVars, lifecycleVars
  <2>3. Bookkeeping'
    BY <1>4 DEF IInv, Bookkeeping, InRole, Delivered, AllComplete, Complete, ScanDone, logVars
  <2>4. ExactIntent' /\ DependenciesInBase' /\ DeliveredComplete'
    BY <1>4 DEF IInv, Bookkeeping, ExactIntent, DependenciesInBase, DeliveredComplete, Complete,
                ScanDone, logVars
  <2>5. Branch'
    BY <1>4, <2>1 DEF IInv, Branch, Complete, Unintegrated, ScanDone, logVars
  <2> QED BY <2>2, <2>3, <2>4, <2>5 DEF IInv
<1>5. CASE Deliver
  <2>1. TypeOK'
    <3>1. phase' \in Phase /\ pc' \in WorkerPc
      BY <1>5 DEF Deliver, Phase, WorkerPc
    <3> QED BY <1>5, <3>1 DEF IInv, TypeOK, Deliver, LogUnchanged, governedVars, lifecycleVars
  <2>2. Bookkeeping'
    BY <1>5 DEF IInv, Bookkeeping, InRole, AllComplete, Complete, Deliver, LogUnchanged, governedVars
  <2>3. ExactIntent' /\ Branch' /\ DependenciesInBase'
    BY <1>5, BranchFrame DEF resultVars, Deliver, LogUnchanged, governedVars
  <2>4. DeliveredComplete'
    <3>1. Range(head) = Subtasks /\ Len(head) = N
      BY <1>5, FullRange DEF IInv, TypeOK, Branch, Deliver
    <3>2. ref = head /\ AllComplete
      BY <1>5 DEF IInv, Branch, Bookkeeping, Deliver
    <3>3. UsageSettled'
      BY <1>5 DEF Deliver, LogUnchanged, governedVars, UsageSettled, ActiveRuns, Active,
                  Unacknowledged, UnknownRuns
    <3> QED BY <1>5, <3>1, <3>2, <3>3
            DEF Deliver, LogUnchanged, governedVars, DeliveredComplete, AllComplete, Complete
  <2> QED BY <2>1, <2>2, <2>3, <2>4 DEF IInv
<1>6. CASE \E s \in Subtasks : IntegrateCandidate(s)
  <2>1. PICK s \in Subtasks : IntegrateCandidate(s)
    BY <1>6
  <2>2. s \in Unintegrated /\ PrepareIntent(s, Candidate(s)) /\ pc = "SCAN" /\ created
    BY <2>1 DEF IntegrateCandidate, First, IInv, Branch
  <2>3. IsPrefix(head, Candidate(s))
    BY <2>2 DEF PrepareIntent
  <2>4. /\ Candidate(s) = Append(head, s) /\ s \notin Range(head)
        /\ Complete(s) /\ Upstream[s] \subseteq Range(head)
    BY <2>2, <2>3, CandidateIsNext
  <2>5. s \in 0 .. N /\ s # 0 /\ Candidate(s) \in Sha
    BY <2>4, ConstantsAssumption DEF Subtasks, Sha, IInv, TypeOK
  <2> QED BY <2>2, <2>4, <2>5, PrepareIntentPreserves
<1> QED BY <1>1, <1>2, <1>3, <1>4, <1>5, <1>6

(* A subtask that moves on keeps what it reached, and no other one moves.  *)
LEMMA AdvanceMoves ==
    ASSUME TypeOK, NEW i \in DOMAIN runs, NEW s \in Subtasks, s = runs[i].task,
           done[s] + 1 <= Roles, Advance(i)
    PROVE  /\ done' = [done EXCEPT ![s] = @ + 1] /\ done' \in [Subtasks -> 0 .. Roles]
           /\ receipt' \in [Subtasks -> Receipt]
           /\ \A t \in Subtasks : /\ t # s => done'[t] = done[t]
                                  /\ done[t] = Roles => done'[t] = Roles
                                  /\ receipt'[t] # "NONE" => receipt[t] # "NONE" \/ t = s
<1>1. done \in [Subtasks -> 0 .. Roles] /\ receipt \in [Subtasks -> Receipt]
  BY DEF TypeOK
<1>2. done' = [done EXCEPT ![s] = @ + 1]
  BY DEF Advance
<1>3. done[s] + 1 \in 0 .. Roles
  BY <1>1, ConstantsAssumption
<1>4. receipt' = receipt \/ receipt' = [receipt EXCEPT ![s] = "COMPLETED"]
  BY DEF Advance
<1>5. "COMPLETED" \in Receipt
  BY DEF Receipt
<1>6. done' \in [Subtasks -> 0 .. Roles] /\ \A t \in Subtasks : t # s => done'[t] = done[t]
  BY <1>1, <1>2, <1>3
<1>7. done[s] # Roles
  BY <1>1, ConstantsAssumption
<1>8. /\ receipt' \in [Subtasks -> Receipt]
      /\ \A t \in Subtasks : receipt'[t] # "NONE" => receipt[t] # "NONE" \/ t = s
  BY <1>1, <1>4, <1>5
<1> QED BY <1>2, <1>6, <1>7, <1>8

(* Steps towards the next role.                                            *)
LEMMA PickPreserves ==
    ASSUME IInv, NEW s \in Subtasks,
           Provision(s) \/ Dispatch(s) \/ ReconcileSaved(s) \/ RoleLimitStop(s) \/ ReserveRole(s)
    PROVE  IInv'
<1>1. Settled(receipt) \in [Subtasks -> Receipt]
      /\ \A t \in Subtasks : receipt[t] = "NONE" => Settled(receipt)[t] = "NONE"
  BY DEF Settled, IInv, TypeOK, Receipt
<1>2. Selected(s) => /\ ~Complete(s) /\ done[s] < Roles
                     /\ \A u \in Upstream[s] : Complete(u)
  BY ConstantsAssumption DEF Selected, First, Eligible, Complete, IInv, TypeOK
<1>3. pc = "PICK" => phase \notin Delivered
  BY DEF IInv, Bookkeeping
<1>4. CASE Provision(s)
  <2>1. head \in Seq(Subtasks) /\ IsPrefix(head, head)
    BY PrefixPointwise DEF IInv, TypeOK, Sha
  <2>2. Upstream[s] \subseteq Range(head)
    BY <1>2, <1>4, ConstantsAssumption DEF Provision, IInv, Branch, Unintegrated
  <2>3. head # None
    BY <2>1, ConstantsAssumption DEF Sha
  <2>4. base' = [base EXCEPT ![s] = head] /\ base' \in [Subtasks -> Sha \cup {None}]
    BY <1>4 DEF Provision, IInv, TypeOK
  <2>5. TypeOK'
    BY <1>1, <1>4, <2>4 DEF IInv, TypeOK, Provision, PickUnchanged, logVars, lifecycleVars
  <2>6. Bookkeeping'
    BY <1>1, <1>3, <1>4, <2>3, <2>4
       DEF IInv, TypeOK, Bookkeeping, InRole, AllComplete, Complete, Provision, PickUnchanged, logVars
  <2>7. ExactIntent' /\ DeliveredComplete'
    BY <1>3, <1>4 DEF IInv, ExactIntent, DeliveredComplete, Complete, Provision, PickUnchanged, logVars
  <2>8. Branch' /\ DependenciesInBase'
    BY <1>4, <2>1, <2>2, <2>4
       DEF IInv, TypeOK, Branch, DependenciesInBase, Complete, Unintegrated, Provision,
           PickUnchanged, logVars
  <2> QED BY <2>5, <2>6, <2>7, <2>8 DEF IInv
<1>5. CASE Dispatch(s)
  <2>1. receipt' \in [Subtasks -> Receipt]
        /\ \A t \in Subtasks : receipt'[t] # "NONE" => receipt[t] # "NONE" \/ t = s
    BY <1>1, <1>5 DEF IInv, TypeOK, Dispatch, Receipt
  <2>2. TypeOK'
    BY <1>5, <2>1 DEF IInv, TypeOK, Dispatch, PickUnchanged, logVars, lifecycleVars
  <2>3. Bookkeeping'
    BY <1>3, <1>5, <2>1
       DEF IInv, TypeOK, Bookkeeping, InRole, AllComplete, Complete, Dispatch, PickUnchanged, logVars
  <2>4. ExactIntent' /\ Branch' /\ DependenciesInBase'
    BY <1>5, BranchFrame DEF resultVars, Dispatch, PickUnchanged, logVars
  <2>5. DeliveredComplete'
    BY <1>3, <1>5, DeliveryFrame DEF Dispatch, PickUnchanged, logVars
  <2> QED BY <2>2, <2>3, <2>4, <2>5 DEF IInv
<1>6. CASE ReconcileSaved(s)
  <2>1. PICK i \in Current(s) : Advance(i)
    BY <1>6 DEF ReconcileSaved
  <2>2. i \in DOMAIN runs /\ runs[i].task = s
    BY DEF Current, Attempts
  <2>3. /\ done' = [done EXCEPT ![s] = @ + 1] /\ done' \in [Subtasks -> 0 .. Roles]
        /\ receipt' \in [Subtasks -> Receipt]
        /\ \A t \in Subtasks : receipt'[t] # "NONE" => receipt[t] # "NONE" \/ t = s
    <3>1. done[s] + 1 <= Roles
      BY <1>2, <1>6, ConstantsAssumption DEF IInv, TypeOK, ReconcileSaved
    <3> QED BY <2>1, <2>2, <3>1, AdvanceMoves DEF IInv
  <2>4. base[s] # None
    BY <2>2 DEF IInv, Bookkeeping
  <2>5. \A t \in Subtasks : done[t] = Roles => done'[t] = Roles
    BY <1>2, <1>6, <2>3 DEF ReconcileSaved, IInv, TypeOK
  <2>6. phase' \in Phase \ Delivered /\ stopReason' \in StopReason /\ control' \in ControlPhase
        /\ pc' \in {"PICK", "DELIVER", "NONE"}
    BY <1>3, <1>6 DEF IInv, TypeOK, ReconcileSaved, Stop, Phase, StopReason, PauseReasons,
                      HumanReasons, ControlPhase, Delivered
  <2>7. TypeOK'
    BY <1>6, <2>3, <2>6 DEF IInv, TypeOK, ReconcileSaved, WorkerPc, lifecycleVars
  <2>8. Bookkeeping'
    BY <1>6, <2>3, <2>4, <2>6
       DEF IInv, TypeOK, Bookkeeping, InRole, AllComplete, Complete, ReconcileSaved
  <2>9. ExactIntent'
    BY <1>6 DEF IInv, Branch, ExactIntent, ReconcileSaved
  <2>10. DependenciesInBase' /\ DeliveredComplete'
    BY <1>6, <2>6 DEF IInv, DependenciesInBase, DeliveredComplete, ReconcileSaved
  <2>11. \A t \in Subtasks : pc' = "PICK" => (done'[t] = Roles <=> done[t] = Roles)
    BY <1>2, <1>6, <2>3, <2>5 DEF ReconcileSaved, IInv, TypeOK, Complete
  <2>12. \A k \in DOMAIN head : Complete(head[k])'
    BY <1>6, <2>5 DEF IInv, TypeOK, Sha, Branch, Complete, ReconcileSaved
  <2>13. Branch'
    BY <1>6, <2>6, <2>11, <2>12 DEF IInv, Branch, Unintegrated, Complete, ReconcileSaved
  <2> QED BY <2>7, <2>8, <2>9, <2>10, <2>13 DEF IInv
<1>7. CASE RoleLimitStop(s)
  <2>1. phase' \in Phase \ Delivered /\ stopReason' \in StopReason /\ pc' = "NONE"
    BY <1>7 DEF RoleLimitStop, Stop, Phase, StopReason, PauseReasons, HumanReasons, Delivered
  <2>2. TypeOK'
    BY <1>7, <2>1 DEF IInv, TypeOK, RoleLimitStop, WorkerPc, LogUnchanged, governedVars, lifecycleVars
  <2>3. Bookkeeping'
    BY <1>7, <2>1 DEF IInv, Bookkeeping, InRole, AllComplete, Complete, RoleLimitStop, governedVars
  <2>4. ExactIntent' /\ Branch' /\ DependenciesInBase'
    BY <1>7, BranchFrame DEF resultVars, RoleLimitStop, LogUnchanged, governedVars
  <2>5. DeliveredComplete'
    BY <2>1, DeliveryFrame
  <2> QED BY <2>2, <2>3, <2>4, <2>5 DEF IInv
<1>8. CASE ReserveRole(s)
  <2> DEFINE r == [ task |-> s, stage |-> done[s] + 1, status |-> "CREATED",
                    usage |-> "NONE", outcome |-> "NONE", replaced |-> FALSE ]
  <2>1. done[s] + 1 \in 1 .. Roles
    BY <1>2, <1>8, ConstantsAssumption DEF ReserveRole, IInv, TypeOK
  <2>2. r \in Run
    BY <2>1 DEF Run
  <2>3. runs' = Append(runs, r) /\ runs \in Seq(Run)
    BY <1>8 DEF ReserveRole, IInv, TypeOK
  <2> HIDE DEF r
  <2>4. /\ runs' \in Seq(Run) /\ runs' # <<>> /\ Len(runs') = Len(runs) + 1
        /\ runs'[Len(runs')] = r /\ \A i \in DOMAIN runs : runs'[i] = runs[i]
        /\ DOMAIN runs' = DOMAIN runs \cup {Len(runs) + 1}
    BY <2>2, <2>3
  <2>5. base[s] # None
    BY <1>8 DEF ReserveRole, IInv, Bookkeeping
  <2>6. TypeOK'
    BY <1>8, <2>4 DEF IInv, TypeOK, ReserveRole, WorkerPc, PickUnchanged, logVars, lifecycleVars
  <2>7. r.task = s /\ r.stage = done[s] + 1
    BY DEF r
  <2>8. Bookkeeping'
    <3>1. \A i \in DOMAIN runs' : base'[runs'[i].task] # None
      BY <1>8, <2>4, <2>5, <2>7 DEF IInv, Bookkeeping, ReserveRole
    <3>2. runs'[Len(runs')].stage = done'[runs'[Len(runs')].task] + 1
      BY <1>8, <2>4, <2>7 DEF ReserveRole
    <3> QED BY <1>3, <1>8, <2>4, <3>1, <3>2
            DEF IInv, Bookkeeping, AllComplete, Complete, ReserveRole, PickUnchanged, logVars
  <2>9. ExactIntent' /\ Branch' /\ DependenciesInBase'
    BY <1>8, BranchFrame DEF resultVars, ReserveRole, PickUnchanged, logVars
  <2>10. DeliveredComplete'
    BY <1>3, <1>8, DeliveryFrame DEF ReserveRole, PickUnchanged, logVars
  <2> QED BY <2>6, <2>8, <2>9, <2>10 DEF IInv
<1> QED BY <1>4, <1>5, <1>6, <1>7, <1>8

(* Every step of the worker that leads to the next role keeps the invariant.*)
LEMMA PreparationPreserves ==
    ASSUME IInv, PreparationStep PROVE IInv'
<1> USE DEF StopReason, PauseReasons, HumanReasons
<1>1. CASE DeliverRefused
  BY <1>1, StopPreparingPreserves DEF DeliverRefused
<1>2. CASE NothingEligible
  BY <1>2, StopPreparingPreserves DEF NothingEligible
<1>3. CASE \E s \in Subtasks : IntegrationRefused(s) \/ DispatchBlocked(s) \/ RoleBlocked(s)
  BY <1>3, StopPreparingPreserves DEF IntegrationRefused, DispatchBlocked, RoleBlocked
<1>4. CASE PreparationFails
  BY <1>4, StopPreparingPreserves DEF PreparationFails
<1>5. CASE \/ EnsureRef \/ UpdateRef \/ RecordIntegration \/ ScanDone \/ Deliver
           \/ \E s \in Subtasks : IntegrateCandidate(s)
  BY <1>5, IntegrationPreserves
<1>6. CASE \E s \in Subtasks : \/ Provision(s) \/ Dispatch(s) \/ ReconcileSaved(s)
                               \/ RoleLimitStop(s) \/ ReserveRole(s)
  BY <1>6, PickPreserves
<1> QED BY <1>1, <1>2, <1>3, <1>4, <1>5, <1>6 DEF PreparationStep
-----------------------------------------------------------------------------
(***************************************************************************)
(* A role at the provider, the worker's loop and the daemon                *)
(***************************************************************************)

(* Recording the end of the worker's run changes no other run.             *)
LEMMA FinalizeKeepsType ==
    ASSUME TypeOK, runs # <<>>,
           NEW status \in {"CREATED", "RUNNING", "SUCCEEDED", "FAILED", "INTERRUPTED"},
           NEW usage \in {"NONE", "KNOWN", "UNKNOWN"}, NEW outcome \in {"NONE", "OK", "BLOCKED"},
           Finalize(status, usage, outcome)
    PROVE  /\ runs' \in Seq(Run) /\ Len(runs') = Len(runs) /\ DOMAIN runs' = DOMAIN runs
           /\ \A i \in DOMAIN runs : /\ runs'[i].task = runs[i].task
                                     /\ runs'[i].stage = runs[i].stage
<1> DEFINE r == [runs[RoleRun] EXCEPT !.status = status, !.usage = usage, !.outcome = outcome]
<1>1. RoleRun \in DOMAIN runs /\ runs[RoleRun] \in Run /\ runs \in Seq(Run)
  BY DEF RoleRun, TypeOK
<1>2. r \in Run /\ r.task = runs[RoleRun].task /\ r.stage = runs[RoleRun].stage
  BY <1>1 DEF Run
<1>3. runs' = [runs EXCEPT ![RoleRun] = r]
  BY <1>1 DEF Finalize
<1> HIDE DEF r
<1> QED BY <1>1, <1>2, <1>3

(* Steps that record something about the run of the worker.                *)
LEMMA RunStepPreserves ==
    ASSUME IInv, FailBeforeTurn \/ TurnStarted \/ CompleteTurn \/ FailTurn PROVE IInv'
<1>1. runs # <<>> /\ phase \notin Delivered
  BY DEF IInv, Bookkeeping, InRole, FailBeforeTurn, TurnStarted, CompleteTurn, FailTurn
<1>2. /\ runs' \in Seq(Run) /\ Len(runs') = Len(runs) /\ DOMAIN runs' = DOMAIN runs
      /\ \A i \in DOMAIN runs : runs'[i].task = runs[i].task /\ runs'[i].stage = runs[i].stage
  BY <1>1, FinalizeKeepsType DEF IInv, FailBeforeTurn, TurnStarted, CompleteTurn, FailTurn
<1>3. /\ pc \in InRole /\ pc' \in InRole \cup {"FAILED"}
      /\ UNCHANGED <<done, receipt>> /\ RoleUnchanged
  BY DEF FailBeforeTurn, TurnStarted, CompleteTurn, FailTurn, InRole
<1>4. TypeOK'
  BY <1>2, <1>3 DEF IInv, TypeOK, InRole, WorkerPc, RoleUnchanged, logVars, lifecycleVars
<1>5. Bookkeeping'
  <2>1. runs' # <<>> /\ Len(runs) \in DOMAIN runs
    BY <1>1, <1>2 DEF IInv, TypeOK
  <2>2. runs'[Len(runs')].stage = done'[runs'[Len(runs')].task] + 1
    BY <1>2, <1>3, <2>1 DEF IInv, Bookkeeping
  <2> QED BY <1>1, <1>2, <1>3, <2>1, <2>2
          DEF IInv, Bookkeeping, InRole, AllComplete, Complete, RoleUnchanged, logVars
<1>6. ExactIntent' /\ Branch' /\ DependenciesInBase'
  BY <1>3, BranchFrame DEF resultVars, InRole, RoleUnchanged, logVars
<1>7. DeliveredComplete'
  BY <1>1, <1>3, DeliveryFrame DEF RoleUnchanged, logVars
<1> QED BY <1>4, <1>5, <1>6, <1>7 DEF IInv

(* The result of the role is reconciled: the subtask moves one stage on.   *)
LEMMA ReconcilePreserves ==
    ASSUME IInv, Reconcile PROVE IInv'
<1> DEFINE s == runs[RoleRun].task
<1>1. /\ RoleRun \in DOMAIN runs /\ runs[RoleRun] \in Run /\ s \in Subtasks
      /\ runs[RoleRun].stage = done[s] + 1 /\ base[s] # None /\ phase \notin Delivered
  <2>1. runs # <<>> /\ runs \in Seq(Run) /\ phase \notin Delivered
    BY DEF IInv, TypeOK, Bookkeeping, InRole, Reconcile
  <2>2. RoleRun \in DOMAIN runs /\ runs[RoleRun] \in Run
    BY <2>1 DEF RoleRun
  <2>3. s \in Subtasks
    BY <2>2 DEF Run
  <2> QED BY <2>1, <2>2, <2>3 DEF IInv, Bookkeeping, InRole, Reconcile, RoleRun
<1>2. done[s] + 1 <= Roles /\ done[s] \in 0 .. Roles
  BY <1>1 DEF Run, IInv, TypeOK
<1> HIDE DEF s
<1>3. /\ done' \in [Subtasks -> 0 .. Roles] /\ receipt' \in [Subtasks -> Receipt]
      /\ \A t \in Subtasks : /\ t # s => done'[t] = done[t]
                             /\ done[t] = Roles => done'[t] = Roles
                             /\ receipt'[t] # "NONE" => receipt[t] # "NONE" \/ t = s
  <2>1. CASE Advance(RoleRun)
    BY <1>1, <1>2, <2>1, AdvanceMoves DEF IInv, s
  <2>2. CASE UNCHANGED <<done, receipt>>
    BY <2>2 DEF IInv, TypeOK
  <2> QED BY <2>1, <2>2 DEF Reconcile
<1>4. TypeOK'
  BY <1>3 DEF IInv, TypeOK, Reconcile, RoleUnchanged, WorkerPc, logVars, lifecycleVars
<1>5. Bookkeeping'
  BY <1>1, <1>3 DEF IInv, TypeOK, Bookkeeping, InRole, AllComplete, Complete, Reconcile,
                    RoleUnchanged, logVars
<1>6. ExactIntent'
  <2>1. pending # None /\ pending.task # 0 => pending.task \in Subtasks
    BY ConstantsAssumption DEF IInv, TypeOK, Intent, Subtasks
  <2> QED BY <1>3, <2>1 DEF IInv, ExactIntent, Complete, Reconcile, RoleUnchanged, logVars
<1>7. DependenciesInBase' /\ DeliveredComplete'
  BY <1>1 DEF IInv, DependenciesInBase, DeliveredComplete, Reconcile, RoleUnchanged, logVars
<1>8. Branch'
  <2>1. \A k \in DOMAIN head : head[k] \in Subtasks
    BY DEF IInv, TypeOK, Sha
  <2> QED BY <1>3, <2>1 DEF IInv, Branch, Complete, Reconcile, RoleUnchanged, logVars
<1> QED BY <1>4, <1>5, <1>6, <1>7, <1>8 DEF IInv

(* The other steps of the worker and the daemon leave runs and result      *)
(* alone: they move the worker, stop the execution or end the process.     *)
LEMMA QuietStepPreserves ==
    ASSUME IInv, \/ SendTurn \/ StartAmbiguous \/ ReconcileFails \/ StopAfterFailure
                 \/ WorkerExit \/ CheckLimits \/ WorkerLost \/ Expire \/ DaemonStep
    PROVE  IInv'
<1>1. CASE SendTurn
  <2>1. phase' \in Phase /\ (phase' \in Delivered => phase \in Delivered)
        /\ stopReason' \in StopReason /\ pc' \in WorkerPc
    BY <1>1
      DEF IInv, TypeOK, Bookkeeping, SendTurn, RoleUnchanged, logVars, lifecycleVars, Phase,
          Delivered, StopReason, PauseReasons, HumanReasons, WorkerPc, Service
  <2>2. TypeOK'
    BY <1>1, <2>1 DEF IInv, TypeOK, SendTurn, RoleUnchanged, logVars, lifecycleVars
  <2>3. Bookkeeping'
    BY <1>1, <2>1
      DEF IInv, Bookkeeping, InRole, AllComplete, Complete, SendTurn, RoleUnchanged, logVars,
          lifecycleVars
  <2>4. ExactIntent' /\ Branch' /\ DependenciesInBase'
    BY <1>1, BranchFrame DEF resultVars, InRole, SendTurn, RoleUnchanged, logVars, lifecycleVars
  <2>5. DeliveredComplete'
    BY <1>1, <2>1, DeliveryFrame DEF resultVars, SendTurn, RoleUnchanged, logVars, lifecycleVars
  <2> QED BY <2>2, <2>3, <2>4, <2>5 DEF IInv
<1>2. CASE StartAmbiguous \/ ReconcileFails
  <2>1. phase' \in Phase /\ (phase' \in Delivered => phase \in Delivered)
        /\ stopReason' \in StopReason /\ pc' \in WorkerPc
    BY <1>2
      DEF IInv, TypeOK, Bookkeeping, StartAmbiguous, ReconcileFails, RoleUnchanged, logVars,
          lifecycleVars, Phase, Delivered, StopReason, PauseReasons, HumanReasons, WorkerPc, Service
  <2>2. TypeOK'
    BY <1>2, <2>1
      DEF IInv, TypeOK, StartAmbiguous, ReconcileFails, RoleUnchanged, logVars, lifecycleVars
  <2>3. Bookkeeping'
    BY <1>2, <2>1
      DEF IInv, Bookkeeping, InRole, AllComplete, Complete, StartAmbiguous, ReconcileFails,
          RoleUnchanged, logVars, lifecycleVars
  <2>4. ExactIntent' /\ Branch' /\ DependenciesInBase'
    BY <1>2, BranchFrame
      DEF resultVars, InRole, StartAmbiguous, ReconcileFails, RoleUnchanged, logVars,
          lifecycleVars
  <2>5. DeliveredComplete'
    BY <1>2, <2>1, DeliveryFrame
      DEF resultVars, StartAmbiguous, ReconcileFails, RoleUnchanged, logVars, lifecycleVars
  <2> QED BY <2>2, <2>3, <2>4, <2>5 DEF IInv
<1>3. CASE StopAfterFailure
  <2>1. phase' \in Phase /\ (phase' \in Delivered => phase \in Delivered)
        /\ stopReason' \in StopReason /\ pc' \in WorkerPc
    BY <1>3
      DEF IInv, TypeOK, Bookkeeping, StopAfterFailure, FailureReason, StopIfRunning, Stop,
          LogUnchanged, logVars, governedVars, lifecycleVars, Phase, Delivered, StopReason,
          PauseReasons, HumanReasons, WorkerPc, Service
  <2>2. TypeOK'
    BY <1>3, <2>1
      DEF IInv, TypeOK, StopAfterFailure, FailureReason, StopIfRunning, Stop, LogUnchanged,
          logVars, governedVars, lifecycleVars
  <2>3. Bookkeeping'
    BY <1>3, <2>1
      DEF IInv, Bookkeeping, InRole, AllComplete, Complete, StopAfterFailure, FailureReason,
          StopIfRunning, Stop, LogUnchanged, logVars, governedVars, lifecycleVars
  <2>4. ExactIntent' /\ Branch' /\ DependenciesInBase'
    BY <1>3, BranchFrame
      DEF resultVars, InRole, StopAfterFailure, FailureReason, StopIfRunning, Stop, LogUnchanged,
          logVars, governedVars, lifecycleVars
  <2>5. DeliveredComplete'
    BY <1>3, <2>1, DeliveryFrame
      DEF resultVars, StopAfterFailure, FailureReason, StopIfRunning, Stop, LogUnchanged, logVars,
          governedVars, lifecycleVars
  <2> QED BY <2>2, <2>3, <2>4, <2>5 DEF IInv
<1>4. CASE WorkerExit
  <2>1. phase' \in Phase /\ (phase' \in Delivered => phase \in Delivered)
        /\ stopReason' \in StopReason /\ pc' \in WorkerPc
    BY <1>4
      DEF IInv, TypeOK, Bookkeeping, WorkerExit, logVars, governedVars, lifecycleVars, Phase,
          Delivered, StopReason, PauseReasons, HumanReasons, WorkerPc, Service
  <2>2. TypeOK'
    BY <1>4, <2>1 DEF IInv, TypeOK, WorkerExit, logVars, governedVars, lifecycleVars
  <2>3. Bookkeeping'
    BY <1>4, <2>1
      DEF IInv, Bookkeeping, InRole, AllComplete, Complete, WorkerExit, logVars, governedVars,
          lifecycleVars
  <2>4. ExactIntent' /\ Branch' /\ DependenciesInBase'
    BY <1>4, BranchFrame DEF resultVars, InRole, WorkerExit, logVars, governedVars, lifecycleVars
  <2>5. DeliveredComplete'
    BY <1>4, <2>1, DeliveryFrame DEF resultVars, WorkerExit, logVars, governedVars, lifecycleVars
  <2> QED BY <2>2, <2>3, <2>4, <2>5 DEF IInv
<1>5. CASE CheckLimits
  <2>1. phase' \in Phase /\ (phase' \in Delivered => phase \in Delivered)
        /\ stopReason' \in StopReason /\ pc' \in WorkerPc /\ phase \notin Delivered
    BY <1>5
      DEF IInv, TypeOK, Bookkeeping, CheckLimits, LimitReason, Stop, LogUnchanged, logVars,
          governedVars, lifecycleVars, Phase, Delivered, StopReason, PauseReasons, HumanReasons,
          WorkerPc, Service
  <2>2. TypeOK'
    BY <1>5, <2>1
      DEF IInv, TypeOK, CheckLimits, LimitReason, Stop, LogUnchanged, logVars, governedVars,
          lifecycleVars
  <2>3. Bookkeeping'
    BY <1>5, <2>1
      DEF IInv, Bookkeeping, InRole, AllComplete, Complete, CheckLimits, LimitReason, Stop,
          LogUnchanged, logVars, governedVars, lifecycleVars
  <2>4. ExactIntent' /\ Branch' /\ DependenciesInBase'
    BY <1>5, BranchFrame
      DEF resultVars, InRole, CheckLimits, LimitReason, Stop, LogUnchanged, logVars, governedVars,
          lifecycleVars
  <2>5. DeliveredComplete'
    BY <1>5, <2>1, DeliveryFrame
      DEF resultVars, CheckLimits, LimitReason, Stop, LogUnchanged, logVars, governedVars,
          lifecycleVars
  <2> QED BY <2>2, <2>3, <2>4, <2>5 DEF IInv
<1>6. CASE WorkerLost
  <2>1. phase' \in Phase /\ (phase' \in Delivered => phase \in Delivered)
        /\ stopReason' \in StopReason /\ pc' \in WorkerPc
        /\ service' \in Service
    BY <1>6
      DEF IInv, TypeOK, Bookkeeping, WorkerLost, logVars, governedVars, lifecycleVars, Phase,
          Delivered, StopReason, PauseReasons, HumanReasons, WorkerPc, Service
  <2>2. TypeOK'
    BY <1>6, <2>1 DEF IInv, TypeOK, WorkerLost, logVars, governedVars, lifecycleVars
  <2>3. Bookkeeping'
    BY <1>6, <2>1
      DEF IInv, Bookkeeping, InRole, AllComplete, Complete, WorkerLost, logVars, governedVars,
          lifecycleVars
  <2>4. ExactIntent' /\ Branch' /\ DependenciesInBase'
    BY <1>6, BranchFrame DEF resultVars, InRole, WorkerLost, logVars, governedVars, lifecycleVars
  <2>5. DeliveredComplete'
    BY <1>6, <2>1, DeliveryFrame DEF resultVars, WorkerLost, logVars, governedVars, lifecycleVars
  <2> QED BY <2>2, <2>3, <2>4, <2>5 DEF IInv
<1>7. CASE Expire
  <2>1. phase' \in Phase /\ (phase' \in Delivered => phase \in Delivered)
        /\ stopReason' \in StopReason /\ pc' \in WorkerPc
    BY <1>7
      DEF IInv, TypeOK, Bookkeeping, Expire, governedVars, lifecycleVars, processVars, Phase,
          Delivered, StopReason, PauseReasons, HumanReasons, WorkerPc, Service
  <2>2. TypeOK'
    BY <1>7, <2>1 DEF IInv, TypeOK, Expire, governedVars, lifecycleVars, processVars
  <2>3. Bookkeeping'
    BY <1>7, <2>1
      DEF IInv, Bookkeeping, InRole, AllComplete, Complete, Expire, governedVars, lifecycleVars,
          processVars
  <2>4. ExactIntent' /\ Branch' /\ DependenciesInBase'
    BY <1>7, BranchFrame DEF resultVars, InRole, Expire, governedVars, lifecycleVars, processVars
  <2>5. DeliveredComplete'
    BY <1>7, <2>1, DeliveryFrame DEF resultVars, Expire, governedVars, lifecycleVars, processVars
  <2> QED BY <2>2, <2>3, <2>4, <2>5 DEF IInv
<1>8. CASE Shutdown
  <2>1. phase' \in Phase /\ (phase' \in Delivered => phase \in Delivered)
        /\ stopReason' \in StopReason /\ pc' \in WorkerPc
        /\ service' \in Service
    BY <1>8
      DEF IInv, TypeOK, Bookkeeping, Shutdown, StopIfRunning, Stop, governedVars, lifecycleVars,
          Phase, Delivered, StopReason, PauseReasons, HumanReasons, WorkerPc, Service
  <2>2. TypeOK'
    BY <1>8, <2>1 DEF IInv, TypeOK, Shutdown, StopIfRunning, Stop, governedVars, lifecycleVars
  <2>3. Bookkeeping'
    BY <1>8, <2>1
      DEF IInv, Bookkeeping, InRole, AllComplete, Complete, Shutdown, StopIfRunning, Stop,
          governedVars, lifecycleVars
  <2>4. ExactIntent' /\ Branch' /\ DependenciesInBase'
    BY <1>8, BranchFrame
      DEF resultVars, InRole, Shutdown, StopIfRunning, Stop, governedVars, lifecycleVars
  <2>5. DeliveredComplete'
    BY <1>8, <2>1, DeliveryFrame
      DEF resultVars, Shutdown, StopIfRunning, Stop, governedVars, lifecycleVars
  <2> QED BY <2>2, <2>3, <2>4, <2>5 DEF IInv
<1>9. CASE Exit \/ Crash
  <2>1. phase' \in Phase /\ (phase' \in Delivered => phase \in Delivered)
        /\ stopReason' \in StopReason /\ pc' \in WorkerPc
        /\ service' \in Service
    BY <1>9
      DEF IInv, TypeOK, Bookkeeping, Exit, Crash, logVars, governedVars, lifecycleVars, Phase,
          Delivered, StopReason, PauseReasons, HumanReasons, WorkerPc, Service
  <2>2. TypeOK'
    BY <1>9, <2>1 DEF IInv, TypeOK, Exit, Crash, logVars, governedVars, lifecycleVars
  <2>3. Bookkeeping'
    BY <1>9, <2>1
      DEF IInv, Bookkeeping, InRole, AllComplete, Complete, Exit, Crash, logVars, governedVars,
          lifecycleVars
  <2>4. ExactIntent' /\ Branch' /\ DependenciesInBase'
    BY <1>9, BranchFrame DEF resultVars, InRole, Exit, Crash, logVars, governedVars, lifecycleVars
  <2>5. DeliveredComplete'
    BY <1>9, <2>1, DeliveryFrame DEF resultVars, Exit, Crash, logVars, governedVars, lifecycleVars
  <2> QED BY <2>2, <2>3, <2>4, <2>5 DEF IInv
<1>10. CASE Restart
  <2>1. phase' \in Phase /\ (phase' \in Delivered => phase \in Delivered)
        /\ stopReason' \in StopReason /\ pc' \in WorkerPc
        /\ service' \in Service
    BY <1>10
      DEF IInv, TypeOK, Bookkeeping, Restart, StopIfRunning, Stop, LogUnchanged, governedVars,
          lifecycleVars, Phase, Delivered, StopReason, PauseReasons, HumanReasons, WorkerPc, Service
  <2>2. TypeOK'
    BY <1>10, <2>1
      DEF IInv, TypeOK, Restart, StopIfRunning, Stop, LogUnchanged, governedVars, lifecycleVars
  <2>3. Bookkeeping'
    BY <1>10, <2>1
      DEF IInv, Bookkeeping, InRole, AllComplete, Complete, Restart, StopIfRunning, Stop,
          LogUnchanged, governedVars, lifecycleVars
  <2>4. ExactIntent' /\ Branch' /\ DependenciesInBase'
    BY <1>10, BranchFrame
      DEF resultVars, InRole, Restart, StopIfRunning, Stop, LogUnchanged, governedVars,
          lifecycleVars
  <2>5. DeliveredComplete'
    BY <1>10, <2>1, DeliveryFrame
      DEF resultVars, Restart, StopIfRunning, Stop, LogUnchanged, governedVars, lifecycleVars
  <2> QED BY <2>2, <2>3, <2>4, <2>5 DEF IInv
<1> QED BY <1>1, <1>2, <1>3, <1>4, <1>5, <1>6, <1>7, <1>8, <1>9, <1>10 DEF DaemonStep
-----------------------------------------------------------------------------
(***************************************************************************)
(* The invariant                                                           *)
(***************************************************************************)
(* Every step of the execution keeps the invariant.                        *)
LEMMA StepPreserves == IInv /\ [Next]_vars => IInv'
<1> SUFFICES ASSUME IInv, [Next]_vars PROVE IInv'
  OBVIOUS
<1>1. CASE HumanStep
  BY <1>1, HumanPreserves
<1>2. CASE PreparationStep
  BY <1>2, PreparationPreserves
<1>3. CASE RoleStep
  BY <1>3, RunStepPreserves, ReconcilePreserves, QuietStepPreserves DEF RoleStep
<1>4. CASE WorkerExit \/ CheckLimits \/ WorkerLost \/ Expire \/ DaemonStep
  BY <1>4, QuietStepPreserves
<1>5. CASE UNCHANGED vars
  <2>1. TypeOK' /\ Bookkeeping'
    BY <1>5 DEF IInv, TypeOK, Bookkeeping, AllComplete, Complete, vars, logVars, governedVars,
                lifecycleVars, processVars
  <2>2. ExactIntent' /\ Branch' /\ DependenciesInBase' /\ DeliveredComplete'
    BY <1>5, BranchFrame, DeliveryFrame
       DEF resultVars, vars, logVars, governedVars, lifecycleVars, processVars
  <2> QED BY <2>1, <2>2 DEF IInv
<1> QED BY <1>1, <1>2, <1>3, <1>4, <1>5 DEF Next, WorkerStep

(* The inductive invariant holds in every reachable state of an execution, *)
(* whatever crashes, fails or is paused.                                   *)
THEOREM Invariant == Spec => []IInv
<1>1. Init => IInv
  BY Initially
<1>2. IInv /\ [Next]_vars => IInv'
  BY StepPreserves
<1> QED BY <1>1, <1>2, PTL DEF Spec

(* Every variable keeps its type, whatever the plan and the disturbances.  *)
THEOREM TypeCorrect == Spec => []TypeOK
<1>1. IInv => TypeOK
  BY DEF IInv
<1> QED BY <1>1, Invariant, PTL

(* The branch in Git is where the log says, or at either end of the one    *)
(* intent that the log holds.  (#integrate)                                *)
THEOREM BranchFollowsLog == Spec => []RefAgreesWithLog
<1>1. IInv => RefAgreesWithLog
  <2> SUFFICES ASSUME IInv PROVE RefAgreesWithLog
    OBVIOUS
  <2>1. pending # None => IsPrefix(head, pending.to)
    <3> SUFFICES ASSUME pending # None PROVE IsPrefix(head, pending.to)
      OBVIOUS
    <3>1. pending \in Intent /\ head \in Seq(Subtasks)
      BY DEF IInv, TypeOK, Sha
    <3>2. IsPrefix(head, head)
      BY <3>1, PrefixPointwise
    <3>3. CASE pending.task = 0
      BY <3>2, <3>3 DEF IInv, ExactIntent
    <3>4. CASE pending.task # 0
      <4>1. pending.task \in Subtasks
        BY <3>1, <3>4, ConstantsAssumption DEF Intent, Subtasks
      <4> QED BY <3>1, <3>2, <3>4, <4>1, PrefixOfAppend DEF IInv, ExactIntent
    <3> QED BY <3>3, <3>4
  <2> QED BY <2>1 DEF IInv, ExactIntent, Branch, RefAgreesWithLog
<1> QED BY <1>1, Invariant, PTL

(* A worktree is cut from a result that holds every dependency.            *)
THEOREM BasesHoldDependencies == Spec => []DependenciesInBase
<1>1. IInv => DependenciesInBase
  BY DEF IInv
<1> QED BY <1>1, Invariant, PTL

(* An offered, accepted or closed result is whole and settled.             *)
THEOREM DeliveriesAreWhole == Spec => []DeliveredComplete
<1>1. IInv => DeliveredComplete
  BY DEF IInv
<1> QED BY <1>1, Invariant, PTL
-----------------------------------------------------------------------------
(***************************************************************************)
(* The execution implements ResultDelivery                                 *)
(***************************************************************************)
(* An approved execution starts where the abstract delivery starts.        *)
LEMMA DeliveryStarts == Init => Delivery!Init
<1> SUFFICES ASSUME Init PROVE Delivery!Init
  OBVIOUS
<1>1. reviewed = {}
  BY ConstantsAssumption DEF Init, reviewed, Complete
<1> QED BY <1>1 DEF Init, result, verdict, Delivery!Init

(* A step that leaves the branch, the stages and the decision alone.       *)
LEMMA DeliveryStutters ==
    ASSUME UNCHANGED <<done, ref>>, phase' = phase \/ (phase \notin Delivered /\ phase' \notin Delivered)
    PROVE  UNCHANGED Delivery!vars
<1>1. verdict' = verdict
  BY DEF verdict, Delivered
<1> QED BY <1>1 DEF Delivery!vars, reviewed, result, Complete

(* A subtask that moves on may complete: that is a review.                 *)
LEMMA AdvanceReviews ==
    ASSUME TypeOK, NEW s \in Subtasks, phase \notin Delivered, phase' \notin Delivered, ref' = ref,
           \A t \in Subtasks : (t # s => done'[t] = done[t]) /\ (done[t] = Roles => done'[t] = Roles)
    PROVE  [Delivery!Next]_(Delivery!vars)
<1>1. result' = result /\ verdict = "OPEN" /\ verdict' = "OPEN"
  BY DEF result, verdict, Delivered
<1>2. reviewed' = reviewed \/ reviewed' = reviewed \cup {s}
  BY DEF reviewed, Complete
<1>3. CASE reviewed' = reviewed
  BY <1>1, <1>3 DEF Delivery!vars
<1>4. CASE reviewed' = reviewed \cup {s}
  <2>1. Delivery!Review(s)
    BY <1>1, <1>4 DEF Delivery!Review
  <2> QED BY <2>1 DEF Delivery!Next
<1> QED BY <1>2, <1>3, <1>4

(* Every step of the execution is a step of the abstract delivery, or none.*)
LEMMA DeliveryStep == IInv /\ [Next]_vars => [Delivery!Next]_(Delivery!vars)
<1> SUFFICES ASSUME IInv, [Next]_vars PROVE [Delivery!Next]_(Delivery!vars)
  OBVIOUS
<1>1. pc # "NONE" => phase \notin Delivered
  BY DEF IInv, Bookkeeping
<1>2. CASE UpdateRef
  <2>1. /\ pending \in Intent /\ pending.to \in Sha /\ pending.to # None /\ phase' = phase
        /\ done' = done /\ phase \notin Delivered /\ pending # None /\ ref' = pending.to
    BY <1>1, <1>2, ConstantsAssumption
       DEF IInv, TypeOK, Bookkeeping, UpdateRef, Intent, logVars, governedVars
  <2>2. result' = pending.to /\ verdict = "OPEN" /\ verdict' = "OPEN" /\ reviewed' = reviewed
    BY <2>1 DEF result, verdict, reviewed, Complete, Delivered
  <2>3. CASE ref = pending.to
    BY <2>1, <2>2, <2>3 DEF result, Delivery!vars
  <2>4. CASE ref # pending.to /\ pending.task = 0
    <3>1. result = <<>> /\ pending.to = <<>>
      BY <2>1, <2>4 DEF IInv, ExactIntent, Branch, result
    <3> QED BY <2>2, <3>1 DEF Delivery!vars
  <2>5. CASE ref # pending.to /\ pending.task # 0
    <3> DEFINE s == pending.task
    <3>1. s \in Subtasks
      BY <2>1, <2>5, ConstantsAssumption DEF Intent, Subtasks
    <3>2. /\ pending.to = Append(head, s) /\ Complete(s) /\ s \notin Range(head)
          /\ Upstream[s] \subseteq Range(head) /\ created
      BY <2>1, <2>5 DEF IInv, ExactIntent
    <3>3. result = head
      BY <2>1, <2>5, <3>2, ConstantsAssumption DEF IInv, TypeOK, Branch, result
    <3>4. Delivery!Publish(s)
      BY <2>2, <3>1, <3>2, <3>3 DEF Delivery!Publish, Delivery!Range, Range, reviewed
    <3> QED BY <3>1, <3>4 DEF Delivery!Next
  <2> QED BY <2>3, <2>4, <2>5
<1>3. CASE Reconcile
  <2>1. runs # <<>> /\ runs \in Seq(Run) /\ runs[Len(runs)].stage = done[runs[Len(runs)].task] + 1
    BY <1>3 DEF IInv, TypeOK, Bookkeeping, InRole, Reconcile
  <2>2. RoleRun \in DOMAIN runs /\ runs[RoleRun] \in Run
    BY <2>1 DEF RoleRun
  <2>3. runs[RoleRun].task \in Subtasks /\ runs[RoleRun].stage <= Roles
    BY <2>2, ConstantsAssumption DEF Run
  <2>4. phase \notin Delivered /\ phase' \notin Delivered /\ ref' = ref
    BY <1>1, <1>3 DEF Reconcile, RoleUnchanged, logVars
  <2>5. Advance(RoleRun) \/ done' = done
    BY <1>3 DEF Reconcile
  <2>6. CASE Advance(RoleRun)
    BY <2>1, <2>2, <2>3, <2>4, <2>6, AdvanceMoves, AdvanceReviews DEF IInv, RoleRun
  <2>7. CASE done' = done
    BY <2>4, <2>7, DeliveryStutters
  <2> QED BY <2>5, <2>6, <2>7
<1>4. CASE \E s \in Subtasks : ReconcileSaved(s)
  <2>1. PICK s \in Subtasks : ReconcileSaved(s)
    BY <1>4
  <2>2. PICK i \in Current(s) : Advance(i)
    BY <2>1 DEF ReconcileSaved
  <2>3. i \in DOMAIN runs /\ runs[i].task = s /\ done[s] + 1 <= Roles
    BY <2>1, ConstantsAssumption
       DEF Current, Attempts, ReconcileSaved, Selected, First, Eligible, Complete, IInv, TypeOK
  <2>4. phase \notin Delivered /\ phase' \notin Delivered /\ ref' = ref
    BY <1>1, <2>1 DEF ReconcileSaved, Stop, Delivered
  <2> QED BY <2>2, <2>3, <2>4, AdvanceMoves, AdvanceReviews DEF IInv
<1>5. CASE Deliver
  <2>1. DeliveredComplete'
    BY StepPreserves DEF IInv
  <2>2. /\ phase' = "AWAITING_ACCEPTANCE" /\ phase \notin Delivered /\ ref' = ref /\ done' = done
        /\ head' = head
    BY <1>1, <1>5 DEF Deliver, LogUnchanged, governedVars
  <2>3. ref = head /\ Range(head) = Subtasks
    BY <2>1, <2>2 DEF DeliveredComplete, Delivered
  <2>4. result = head /\ result' = result /\ reviewed' = reviewed
    BY <2>2, <2>3, ConstantsAssumption DEF IInv, TypeOK, result, reviewed, Complete
  <2>5. verdict = "OPEN" /\ verdict' = "OFFERED"
    BY <2>2 DEF verdict, Delivered
  <2>6. Delivery!Offer
    BY <2>3, <2>4, <2>5 DEF Delivery!Offer, Delivery!Range, Range
  <2> QED BY <2>6 DEF Delivery!Next
<1>6. CASE Accept \/ Close
  <2>1. UNCHANGED <<done, ref>> /\ phase = "AWAITING_ACCEPTANCE" /\ phase' \in {"ACCEPTED", "CLOSED"}
    BY <1>6 DEF Accept, Close, Decide, governedVars
  <2>2. result' = result /\ reviewed' = reviewed /\ verdict = "OFFERED" /\ verdict' = phase'
    BY <2>1 DEF result, reviewed, Complete, verdict
  <2>3. Delivery!DecideOn("ACCEPTED") \/ Delivery!DecideOn("CLOSED")
    BY <2>1, <2>2 DEF Delivery!DecideOn
  <2> QED BY <2>3 DEF Delivery!Next
<1>7. CASE \/ Start \/ Pause \/ PauseScope \/ ResumeScope
           \/ AdjustLimits \/ RenewWindow \/ Recover \/ RecoverQa
  <2>1. UNCHANGED <<done, ref>>
    BY <1>7 DEF Start, Pause, PauseScope, ResumeScope, AdjustLimits, Adjust, RenewWindow, Recover,
                RecoverQa, governedVars
  <2>2. phase' = phase \/ (phase \notin Delivered /\ phase' \notin Delivered)
    BY <1>7 DEF Start, CanStart, CanRetryPreparation, StartEffect, Pause, PauseScope, PauseEffect, StopIfRunning, Stop,
                ResumeScope, AdjustLimits, Adjust, RenewWindow, Recover, RecoverQa, CanRecover,
                CanRecoverQa, Replace, Delivered
  <2> QED BY <2>1, <2>2, DeliveryStutters
<1>8. ASSUME NEW reason, StopPreparing(reason) PROVE UNCHANGED Delivery!vars
  <2>1. UNCHANGED <<done, ref>> /\ phase \notin Delivered /\ phase' \notin Delivered
    BY <1>1, <1>8 DEF StopPreparing, Preparing, Stop, Delivered, governedVars
  <2> QED BY <2>1, DeliveryStutters
<1>9. CASE \/ DeliverRefused \/ NothingEligible \/ PreparationFails
           \/ \E s \in Subtasks : IntegrationRefused(s) \/ DispatchBlocked(s) \/ RoleBlocked(s)
  BY <1>8, <1>9 DEF DeliverRefused, NothingEligible, PreparationFails, IntegrationRefused,
                    DispatchBlocked, RoleBlocked
<1>10. CASE \/ EnsureRef \/ RecordIntegration \/ ScanDone
            \/ \E s \in Subtasks : IntegrateCandidate(s) \/ Provision(s) \/ Dispatch(s) \/ ReserveRole(s)
  <2>1. UNCHANGED <<done, ref, phase>>
    BY <1>10 DEF EnsureRef, RecordIntegration, ScanDone, IntegrateCandidate, PrepareIntent,
                 Provision, Dispatch, ReserveRole, PickUnchanged, logVars, governedVars
  <2> QED BY <2>1, DeliveryStutters
<1>11. CASE \E s \in Subtasks : RoleLimitStop(s)
  <2>1. UNCHANGED <<done, ref>> /\ phase \notin Delivered /\ phase' \notin Delivered
    BY <1>1, <1>11 DEF RoleLimitStop, Stop, Delivered, governedVars
  <2> QED BY <2>1, DeliveryStutters
<1>12. CASE \/ FailBeforeTurn \/ SendTurn \/ TurnStarted \/ StartAmbiguous \/ CompleteTurn
            \/ FailTurn \/ ReconcileFails \/ WorkerExit \/ WorkerLost \/ Expire \/ Exit \/ Crash
  <2>1. UNCHANGED <<done, ref, phase>>
    BY <1>12 DEF FailBeforeTurn, SendTurn, TurnStarted, StartAmbiguous, CompleteTurn, FailTurn,
                 ReconcileFails, WorkerExit, WorkerLost, Expire, Exit, Crash, RoleUnchanged,
                 logVars, governedVars
  <2> QED BY <2>1, DeliveryStutters
<1>13. CASE StopAfterFailure \/ CheckLimits \/ Shutdown \/ Restart
  <2>1. UNCHANGED <<done, ref>>
    BY <1>13 DEF StopAfterFailure, CheckLimits, Shutdown, Restart, governedVars
  <2>2. phase' = phase \/ (phase \notin Delivered /\ phase' \notin Delivered)
    BY <1>13 DEF StopAfterFailure, CheckLimits, Shutdown, Restart, StopIfRunning, Stop, Delivered
  <2> QED BY <2>1, <2>2, DeliveryStutters
<1>14. CASE UNCHANGED vars
  BY <1>14, DeliveryStutters DEF vars, logVars, governedVars
<1> QED BY <1>2, <1>3, <1>4, <1>5, <1>6, <1>7, <1>9, <1>10, <1>11, <1>12, <1>13, <1>14
        DEF Next, HumanStep, WorkerStep, PreparationStep, RoleStep, DaemonStep

(* Whatever crashes, fails, is paused or recovered, the result branch is   *)
(* built from whole reviewed subtasks, a dependency before its dependants, *)
(* never loses one, and is offered and decided on once.                    *)
THEOREM ExecutionImplementsDelivery == Spec => ImplementsDelivery
<1>1. Init => Delivery!Init
  BY DeliveryStarts
<1>2. IInv /\ [Next]_vars => [Delivery!Next]_(Delivery!vars)
  BY DeliveryStep
<1> QED BY <1>1, <1>2, Invariant, PTL DEF Spec, ImplementsDelivery, Delivery!Spec
=============================================================================
