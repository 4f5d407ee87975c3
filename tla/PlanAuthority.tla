--------------------------- MODULE PlanAuthority ---------------------------
(***************************************************************************)
(* What planning promises the owner of one Big Task.  Its plan versions    *)
(* follow each other, and only the newest can be approved or given to      *)
(* execution.  Once a version was given to execution no other is ever      *)
(* opened or approved: there is one plan that work is done under.          *)
(***************************************************************************)
EXTENDS Naturals

VARIABLES
    newest,     \* number of the newest version, 0 before the intake
    approved,   \* versions whose plan is approved
    granted     \* the version execution was approved for, if any

vars == <<newest, approved, granted>>

Init ==
    /\ newest = 0
    /\ approved = {}
    /\ granted = {}

(* A version opens, perhaps with a plan its planner already checked. *)
Open ==
    /\ granted = {}
    /\ newest' = newest + 1
    /\ approved' \in {approved, approved \cup {newest'}}
    /\ UNCHANGED granted

Approve ==
    /\ granted = {}
    /\ newest > 0
    /\ approved' = approved \cup {newest}
    /\ UNCHANGED <<newest, granted>>

Grant ==
    /\ granted = {}
    /\ newest \in approved
    /\ granted' = {newest}
    /\ UNCHANGED <<newest, approved>>

Next == Open \/ Approve \/ Grant

Spec == Init /\ [][Next]_vars
=============================================================================
