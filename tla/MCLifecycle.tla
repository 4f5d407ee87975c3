----------------------------- MODULE MCLifecycle -----------------------------
(* Executions of independent subtasks under pauses, shutdowns and crashes: *)
(* whether what runs is delivered.                                         *)
EXTENDS MCBigTaskExecution

(* A sibling is in the way of a subtask that is to go on: it holds the     *)
(* slot, because it went on while the subtask was paused or was paused     *)
(* itself with its dispatch reserved; or it was integrated after the       *)
(* subtask was begun, and the candidate does not contain it.               *)
HoldsSlot(t) == ~Complete(t) /\ Settled(receipt)[t] \in {"RESERVED", "ACTIVE"}
Overtaken ==
    \/ \E s \in Eligible, t \in Subtasks : HoldsSlot(t) /\ (s < t \/ ~SubtaskActive(t))
    \/ \E s \in Unintegrated : ~IsPrefix(head, Candidate(s))

(* No attempt was lost, and no worker died between saving a result and     *)
(* moving the workflow on, which strands it (see CheckpointResumes).       *)
LostAttempt(i) == runs[i].status \in {"FAILED", "INTERRUPTED"} \/ runs[i].replaced
LeftBehind ==
    \/ \E s \in Subtasks : \E i \in Current(s) :
          runs[i].outcome = "OK" /\ ~(pc = "RESULT" /\ i = RoleRun)
    \/ pc = "DELIVER" /\ Unintegrated # {}
Intact == ~LeftBehind /\ \A i \in DOMAIN runs : ~LostAttempt(i)

(* Whatever pauses, shutdowns and crashes were before it, an execution     *)
(* that runs and is intact is delivered, with two exceptions: somebody     *)
(* stops it or its daemon goes; or an independent sibling is in the way    *)
(* of a subtask after a pause of one of them, and the preparation of the   *)
(* next role fails of that.                                                *)
UndisturbedDelivers ==
    (phase = "RUNNING" /\ Intact) ~>
        \/ phase \in Delivered
        \/ stopReason = "USER_PAUSED" \/ service # "OPEN"
        \/ stopReason = "LOCAL_OPERATION_FAILED" /\ control = "PREPARE_ROLE" /\ Overtaken
=============================================================================
