------------------------ MODULE MCWorktreeOwnership ------------------------
(* Two processes and two generated ids, interchangeable, for one subtask.  *)
EXTENDS WorktreeOwnership, TLC

CONSTANTS t1, t2, i1, i2, p1, p2
OnePlanned == {t1}
AllEvents == Faults
NoEvents == {"CRASH"}
Symmetry == Permutations(Ids) \cup Permutations(Procs)
=============================================================================
