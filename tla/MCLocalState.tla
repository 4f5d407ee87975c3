---------------------------- MODULE MCLocalState ----------------------------
(* A small instance, for TLC, of what the console keeps in its local state *)
(* directory: the authority files of state.ts and the records of           *)
(* task-storage.ts.  The three groups of records share only the tasks they *)
(* belong to, which are never removed, and the files nothing, so each      *)
(* behaviour uses one group.                                               *)
EXTENDS TaskGraph, ExecutionRecords, ContextRecords, DaemonAuthority, TLC

CONSTANTS a, b, c, planned

VARIABLE focus

Edge(up, down) == [up |-> up, down |-> down, type |-> "BLOCKING", gate |-> "HARDENED"]
Pair     == [big |-> planned, tasks |-> {a, b}, edges |-> {Edge(a, b)},
             refs |-> [s \in {a, b} |-> IF s = a THEN "ca" ELSE "cb"]]
Plans    == {Pair}
GivenEdges == {{}, {Edge(a, b)}, {Edge(b, c)}, {Edge(c, a)}, {Edge(a, b), Edge(b, c)}}

AnyName == Permutations(Attempts) \cup Permutations(ProviderThreads)
           \cup Permutations(Processes) \cup Permutations(Scopes)

MCInit ==
    /\ focus \in {"PLAN", "HAND", "EXECUTION", "CONTEXT", "AUTHORITY"}
    /\ GraphInit /\ ExecInit /\ ContextInit /\ AuthorityInit

(* With a plan at most one process at a time adds something by hand, and   *)
(* by hand alone two do.                                                   *)
AddingOf == {p \in Processes : adding[p] # NoJob}

MCNext ==
    /\ UNCHANGED focus
    /\ \/ /\ focus = "PLAN" /\ GraphNext /\ UNCHANGED <<execVars, contextVars, authorityVars>>
          /\ Cardinality(AddingOf') <= 1
       \/ focus = "HAND" /\ track' = track /\ GraphNext
          /\ UNCHANGED <<execVars, contextVars, authorityVars>>
       \/ focus = "EXECUTION" /\ ExecNext /\ UNCHANGED <<graphVars, contextVars, authorityVars>>
       \/ focus = "CONTEXT" /\ ContextNext /\ UNCHANGED <<graphVars, execVars, authorityVars>>
       \/ focus = "AUTHORITY" /\ AuthorityNext /\ UNCHANGED <<graphVars, execVars, contextVars>>

MCSpec == MCInit /\ [][MCNext]_<<graphVars, execVars, contextVars, authorityVars, focus>>
=============================================================================
