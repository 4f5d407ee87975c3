------------------------- MODULE MCGovernedWorkflow -------------------------
(* Small instances of GovernedWorkflow for TLC.                            *)
EXTENDS GovernedWorkflow, TLC

CONSTANTS a, b

Edge(up, down, gate) == [up |-> up, down |-> down, type |-> "BLOCKING", gate |-> gate]

TwoSubtasks    == <<a, b>>
Verified       == {Edge(a, b, "VERIFIED")}
Hardened       == {Edge(a, b, "HARDENED")}
LowAndStandard == a :> "LOW" @@ b :> "STANDARD"
HighAndLow     == a :> "HIGH_RISK_FOUNDATION" @@ b :> "LOW"
OneRepair      == a :> 1 @@ b :> 1
RepairOfA      == a :> 1 @@ b :> 0
Both           == {a, b}
OnlyA          == {a}
OnlyB          == {b}
AnyCaller      == Permutations(Callers)
=============================================================================
