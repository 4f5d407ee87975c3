--------------------------- MODULE ResultDelivery ---------------------------
(***************************************************************************)
(* What an approved execution promises to the human who approved it: the   *)
(* result branch is built from whole, reviewed subtasks, one at a time, a  *)
(* dependency before what depends on it; it never loses one; it is offered *)
(* for a decision only when it holds them all; and the decision is taken   *)
(* once, on exactly that result.                                           *)
(***************************************************************************)
EXTENDS Naturals, SequencesExt

CONSTANTS Tasks,       \* the approved subtasks
          DependsOn    \* [Tasks -> SUBSET Tasks]

VARIABLES reviewed,    \* subtasks that passed all their roles
          result,      \* the subtasks on the result branch, in order
          verdict      \* "OPEN", then "OFFERED", then the human's decision

vars == <<reviewed, result, verdict>>

Init ==
    /\ reviewed = {} /\ result = <<>> /\ verdict = "OPEN"

Review(s) ==
    /\ verdict = "OPEN" /\ reviewed' = reviewed \cup {s}
    /\ UNCHANGED <<result, verdict>>

Publish(s) ==
    /\ verdict = "OPEN"
    /\ s \in reviewed \ Range(result) /\ DependsOn[s] \subseteq Range(result)
    /\ result' = Append(result, s)
    /\ UNCHANGED <<reviewed, verdict>>

Offer ==
    /\ verdict = "OPEN" /\ Range(result) = Tasks /\ verdict' = "OFFERED"
    /\ UNCHANGED <<reviewed, result>>

DecideOn(decision) ==
    /\ verdict = "OFFERED" /\ verdict' = decision
    /\ UNCHANGED <<reviewed, result>>

Next ==
    \/ \E s \in Tasks : Review(s) \/ Publish(s)
    \/ Offer
    \/ DecideOn("ACCEPTED") \/ DecideOn("CLOSED")

Spec == Init /\ [][Next]_vars
=============================================================================
