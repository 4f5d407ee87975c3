--------------------------- MODULE MCLivePlanning ---------------------------
EXTENDS LivePlanning

(* Planners that are reviewed or check themselves, metered or not, with    *)
(* the limit reached after the second or the third reported turn.          *)
Console(self, hard, limit) ==
    [ console |-> TRUE, self |-> self, hard |-> hard, exception |-> FALSE,
      limit |-> limit ]
Operator(exception) ==
    [ console |-> FALSE, self |-> FALSE, hard |-> TRUE, exception |-> exception,
      limit |-> 2 ]

AllIntakes == { Console(FALSE, TRUE, 3), Console(TRUE, FALSE, 2), Operator(TRUE) }
AllPreferences == { Console(FALSE, TRUE, 2), Console(TRUE, FALSE, 2) }
JobIntakes == { Console(FALSE, FALSE, 2) }
NoPreferences == {}
OnlyException == { Operator(TRUE) }
=============================================================================
