--------------------------- MODULE MCProviderTurn ---------------------------
(* One turn of each program against a child that sends anything.           *)
EXTENDS ProviderTurn

AllFlows == {"ROLE", "OWNED", "PLAN", "LIVE"}
OneItem == {1}
=============================================================================
