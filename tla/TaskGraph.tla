----------------------------- MODULE TaskGraph -----------------------------
(***************************************************************************)
(* The durable plan of a Big Task and the Subtasks and dependencies stored *)
(* under it: packages/storage orchestration-planning.ts (the tracks of     *)
(* plan candidates, Task Contracts and review decisions) and the task      *)
(* hierarchy of task-storage.ts.                                           *)
(*                                                                         *)
(* Several processes share the database.  Planning and the                 *)
(* materialization of an approved plan are single transactions; Subtasks   *)
(* and dependencies added by hand are checked first and written later, and *)
(* the materialization may come in between.                                *)
(***************************************************************************)
EXTENDS WorkflowRules

CONSTANTS
    BigTasks, Subtasks,
    Processes,      \* processes with the database open
    Candidates,     \* plans: [big, tasks, edges, refs], a contract named per task
    Contents,       \* what a Task Contract may say
    ManualEdges,    \* sets of dependencies given by hand
    MaxVersions,    \* bound on the candidates of a track
    MaxTime         \* bound on the clock, which may move either way

NoBigTask == "NO_BIG_TASK"
Never     == 0
Times     == 1 .. MaxTime
NoJob     == [op |-> "NONE"]

ASSUME NoBigTaskAssumption == NoBigTask \notin BigTasks

VARIABLES
    status,         \* big_tasks
    parent,         \* subtasks: the Big Task a Subtask belongs to
    edges,          \* task_dependencies
    track,          \* planning tracks with candidates and decisions
    contracts,      \* task_contracts
    receipt,        \* canonical_task_materializations: when, or Never
    adding          \* what each process checked and has not written yet

graphVars == <<status, parent, edges, track, contracts, receipt, adding>>

NoTrack == [began |-> Never, versions |-> <<>>, decisions |-> <<>>, planned |-> Never]

GraphInit ==
    /\ status = [b \in BigTasks |-> "ABSENT"]
    /\ parent = [s \in Subtasks |-> NoBigTask]
    /\ edges = {}
    /\ track = [b \in BigTasks |-> NoTrack]
    /\ contracts = {}
    /\ receipt = [b \in BigTasks |-> Never]
    /\ adding = [p \in Processes |-> NoJob]

----------------------------------------------------------------------------
(* Reading a track *)

Versions(b)  == track[b].versions
Decisions(b) == track[b].decisions
Newest(b)    == Versions(b)[Len(Versions(b))]
Planned(b)   == track[b].planned # Never

Phase(b) ==
    IF Versions(b) = <<>> THEN "NONE"
    ELSE IF Len(Decisions(b)) < Len(Versions(b)) THEN "AWAITING_REVIEW"
    ELSE LET last == Decisions(b)[Len(Decisions(b))].outcome
         IN  IF last = "APPROVE" THEN "APPROVED"
             ELSE IF last = "REJECT" /\ Len(Versions(b)) <= 2 THEN "AWAITING_REVISION"
             ELSE "HUMAN_REQUIRED"

(* The time of the artifact that was stored last. *)
LastArtifactAt(b) ==
    LET n == Len(Versions(b))
    IN  IF Planned(b) THEN track[b].planned
        ELSE IF n = 0 THEN track[b].began
        ELSE IF Len(Decisions(b)) = n THEN Decisions(b)[n].at
        ELSE Newest(b).at

(* The contracts bound to the candidate are there, written by the track of *)
(* this Big Task no later than the candidate.                              *)
BundleReadable(b, version) ==
    version.bundled =>
        \A s \in version.plan.tasks :
            \E c \in contracts : /\ c.ref = version.plan.refs[s]
                                 /\ c.big = b /\ c.task = s
                                 /\ c.at <= version.at

ContractsReferenced(b) ==
    \A c \in contracts : c.big = b =>
        \E n \in DOMAIN Versions(b) :
            /\ Versions(b)[n].bundled
            /\ c.task \in Versions(b)[n].plan.tasks
            /\ Versions(b)[n].plan.refs[c.task] = c.ref

TrackOrdered(b) ==
    /\ \A n \in DOMAIN Versions(b) :
          /\ track[b].began <= Versions(b)[n].at
          /\ n > 1 => /\ Decisions(b)[n - 1].outcome = "REJECT"
                      /\ Decisions(b)[n - 1].at <= Versions(b)[n].at
    /\ \A n \in DOMAIN Decisions(b) : Versions(b)[n].at <= Decisions(b)[n].at
    /\ Planned(b) => Decisions(b)[Len(Decisions(b))].at <= track[b].planned

(* What every read of a track demands of it. *)
PlanReadable(b) ==
    IF track[b].began = Never
    THEN track[b] = NoTrack /\ \A c \in contracts : c.big # b
    ELSE /\ status[b] # "ABSENT"
         /\ Len(Versions(b)) \in 1 .. 3
         /\ Len(Decisions(b)) \in {Len(Versions(b)) - 1, Len(Versions(b))}
         /\ TrackOrdered(b)
         /\ \A n \in DOMAIN Versions(b) : BundleReadable(b, Versions(b)[n])
         /\ ContractsReferenced(b)
         /\ Planned(b) => /\ Phase(b) = "APPROVED"
                          /\ DependenciesValid(Newest(b).plan.tasks,
                                               [s \in Newest(b).plan.tasks |-> b],
                                               Newest(b).plan.edges)

----------------------------------------------------------------------------
(* Reading the hierarchy *)

Stored      == {s \in Subtasks : parent[s] # NoBigTask}
TasksOf(b)  == {s \in Subtasks : parent[s] = b}
Owned(b)    == receipt[b] # Never
Touching(tasks) == {e \in edges : e.up \in tasks \/ e.down \in tasks}

ListingReadable(b) ==
    LET rows  == Touching(TasksOf(b))
        named == {e.up : e \in rows} \cup {e.down : e \in rows}
    IN  /\ named \subseteq Stored
        /\ DependenciesValid(TasksOf(b) \cup named, parent, rows)

SourceReady(b) == Planned(b) /\ Phase(b) = "APPROVED" /\ Newest(b).bundled

CanonicalReadable(b) ==
    /\ SourceReady(b)
    /\ receipt[b] >= track[b].planned
    /\ TasksOf(b) = Newest(b).plan.tasks
    /\ Touching(Newest(b).plan.tasks) = Newest(b).plan.edges

----------------------------------------------------------------------------
(* Planning *)

MutationEligible(b, plan) ==
    /\ status[b] = "IN_PROGRESS"
    /\ \A s \in plan.tasks : parent[s] \in {NoBigTask, b}

NewContracts(b, plan, content, at) ==
    {[ref |-> plan.refs[s], big |-> b, task |-> s, content |-> content, at |-> at] :
        s \in {t \in plan.tasks : \A c \in contracts : c.ref # plan.refs[t]}}

(* A contract that exists already must be the same, and not of the future. *)
ContractsAgree(b, plan, content, at) ==
    \A s \in plan.tasks : \A c \in contracts : c.ref = plan.refs[s] =>
        c.big = b /\ c.task = s /\ c.content = content /\ c.at <= at

(* begin and submitRevision, beginBundle and submitRevisionBundle. *)
Propose(b, plan, bundled, content, at) ==
    /\ b = plan.big
    /\ Len(Versions(b)) < MaxVersions
    /\ Phase(b) \in {"NONE", "AWAITING_REVISION"}
    /\ ~Planned(b)
    /\ at >= LastArtifactAt(b)
    /\ MutationEligible(b, plan)
    /\ bundled => /\ plan.tasks \cap Stored = {}
                  /\ ContractsAgree(b, plan, content, at)
    /\ track' = [track EXCEPT
          ![b].began    = IF @ = Never THEN at ELSE @,
          ![b].versions = Append(@, [plan |-> plan, bundled |-> bundled, at |-> at])]
    /\ contracts' = contracts \cup
          (IF bundled THEN NewContracts(b, plan, content, at) ELSE {})
    /\ UNCHANGED <<status, parent, edges, receipt, adding>>
    /\ PlanReadable(b)'

RecordReviewerDecision(b, outcome, at) ==
    /\ Phase(b) = "AWAITING_REVIEW"
    /\ ~Planned(b)
    /\ MutationEligible(b, Newest(b).plan)
    /\ at >= LastArtifactAt(b)
    /\ track' = [track EXCEPT ![b].decisions = Append(@, [outcome |-> outcome, at |-> at])]
    /\ UNCHANGED <<status, parent, edges, contracts, receipt, adding>>
    /\ PlanReadable(b)'

MaterializePlan(b, at) ==
    /\ Phase(b) = "APPROVED"
    /\ ~Planned(b)
    /\ MutationEligible(b, Newest(b).plan)
    /\ DependenciesValid(Newest(b).plan.tasks, [s \in Newest(b).plan.tasks |-> b],
                         Newest(b).plan.edges)
    /\ at >= LastArtifactAt(b)
    /\ track' = [track EXCEPT ![b].planned = at]
    /\ UNCHANGED <<status, parent, edges, contracts, receipt, adding>>
    /\ PlanReadable(b)'

(* materializeApprovedCanonicalTasks: the Subtasks and dependencies of the *)
(* plan, and the receipt that makes them immutable, in one transaction     *)
(* that ends with the read of what it wrote.                               *)
MaterializeTasks(b, at) ==
    /\ ~Owned(b)
    /\ SourceReady(b)
    /\ status[b] = "IN_PROGRESS"
    /\ Newest(b).plan.tasks \cap Stored = {}
    /\ TasksOf(b) = {}
    /\ at >= track[b].planned
    /\ parent' = [s \in Subtasks |-> IF s \in Newest(b).plan.tasks THEN b ELSE parent[s]]
    /\ edges' = edges \cup Newest(b).plan.edges
    /\ receipt' = [receipt EXCEPT ![b] = at]
    /\ UNCHANGED <<status, track, contracts, adding>>
    /\ CanonicalReadable(b)'

----------------------------------------------------------------------------
(* Tasks and dependencies added by hand *)

CreateBigTask(b) ==
    /\ status[b] = "ABSENT"
    /\ \E s \in {"TODO", "IN_PROGRESS"} : status' = [status EXCEPT ![b] = s]
    /\ UNCHANGED <<parent, edges, track, contracts, receipt, adding>>

CheckSubtask(p, s, b) ==
    /\ adding[p] = NoJob
    /\ status[b] # "ABSENT" /\ ~Owned(b) /\ s \notin Stored
    /\ adding' = [adding EXCEPT ![p] = [op |-> "SUBTASK", task |-> s, big |-> b]]
    /\ UNCHANGED <<status, parent, edges, track, contracts, receipt>>

SubtaskRefusedByKey(job) == job.task \in Stored   \* faulty: no trigger

(* The key of the row and the trigger on materialized Big Tasks judge the  *)
(* state of the moment it is written.                                      *)
SubtaskRefused(job) == job.task \in Stored \/ Owned(job.big)

InsertSubtask(p) ==
    /\ adding[p].op = "SUBTASK"
    /\ parent' = IF SubtaskRefused(adding[p]) THEN parent
                 ELSE [parent EXCEPT ![adding[p].task] = adding[p].big]
    /\ adding' = [adding EXCEPT ![p] = NoJob]
    /\ UNCHANGED <<status, edges, track, contracts, receipt>>

CheckDependencies(p, b, given) ==
    /\ adding[p] = NoJob
    /\ status[b] # "ABSENT" /\ ~Owned(b)
    /\ DependenciesValid(Stored, parent, given)
    /\ \A e \in given : {e.up, e.down} \subseteq TasksOf(b)
    /\ adding' = [adding EXCEPT ![p] =
          [op |-> "EDGES", big |-> b, given |-> given, targets |-> TasksOf(b)]]
    /\ UNCHANGED <<status, parent, edges, track, contracts, receipt>>

(* The dependencies of the Subtasks that were there at the check are       *)
(* replaced; the transaction ends with the listing.                        *)
ReplaceDependencies(p) ==
    \E job \in {adding[p]} :
        /\ job.op = "EDGES"
        /\ edges' = IF Owned(job.big) THEN edges
                    ELSE {e \in edges : e.down \notin job.targets} \cup job.given
        /\ adding' = [adding EXCEPT ![p] = NoJob]
        /\ UNCHANGED <<status, parent, track, contracts, receipt>>
        /\ ~Owned(job.big) => ListingReadable(job.big)'

----------------------------------------------------------------------------
GraphNext ==
    \/ \E b \in BigTasks :
          \/ CreateBigTask(b)
          \/ \E at \in Times :
                \/ \E plan \in Candidates, bundled \in BOOLEAN, content \in Contents :
                      Propose(b, plan, bundled, content, at)
                \/ \E outcome \in {"APPROVE", "REJECT", "ESCALATE"} :
                      RecordReviewerDecision(b, outcome, at)
                \/ MaterializePlan(b, at)
                \/ MaterializeTasks(b, at)
    \/ \E p \in Processes :
          \/ \E s \in Subtasks, b \in BigTasks : CheckSubtask(p, s, b)
          \/ \E b \in BigTasks, given \in ManualEdges : CheckDependencies(p, b, given)
          \/ InsertSubtask(p)
          \/ ReplaceDependencies(p)

GraphSpec == GraphInit /\ [][GraphNext]_graphVars

(* Whatever processes add, plan and materialize in whatever order, every   *)
(* plan, every list of dependencies and every materialized set of Subtasks *)
(* can be read again: no check made before another process's transaction   *)
(* adds a Subtask or an edge to a set that a plan owns by now, and no      *)
(* clock that moved back makes a track unreadable.                         *)
GraphReadable ==
    \A b \in BigTasks :
        /\ PlanReadable(b)
        /\ ListingReadable(b)
        /\ Owned(b) => CanonicalReadable(b)
=============================================================================
