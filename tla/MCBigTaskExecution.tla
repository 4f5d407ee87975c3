------------------------- MODULE MCBigTaskExecution -------------------------
EXTENDS BigTaskExecution

(* The second subtask builds on the first, or both are independent.        *)
Chain == [s \in Subtasks |-> 1 .. (s - 1)]
Independent == [s \in Subtasks |-> {}]
=============================================================================
