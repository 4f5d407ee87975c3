-------------------------- MODULE LocalStateProofs --------------------------
(***************************************************************************)
(* What one machine keeps, for every number of Big Tasks, Subtasks,        *)
(* attempts, provider threads, items, scopes, processes and disturbances,  *)
(* and for every clock: the task graph, the attempts and the context that  *)
(* were written are accepted by every later read, and one daemon at most   *)
(* has the database.                                                       *)
(***************************************************************************)
EXTENDS TaskGraph, ExecutionRecords, ContextRecords, DaemonAuthority,
        FiniteSetTheorems, TLAPS

-----------------------------------------------------------------------------
(***************************************************************************)
(* The graph.  Every edge and every list of edges that is about to be      *)
(* written stays within one Big Task, so that what one transaction writes  *)
(* under a Big Task is not seen by the reads of another one.  What it      *)
(* writes under its own was read back before it committed, or is a single  *)
(* Subtask no edge can name yet.                                           *)
(***************************************************************************)

Within(b, e) == {e.up, e.down} \subseteq TasksOf(b)

EdgesOwned == \A e \in edges : \E b \in BigTasks : Within(b, e)

JobOwned(p) ==
    /\ adding[p].op = "SUBTASK" => adding[p].task \in Subtasks /\ adding[p].big \in BigTasks
    /\ adding[p].op = "EDGES" =>
          /\ adding[p].big \in BigTasks
          /\ adding[p].targets \subseteq TasksOf(adding[p].big)
          /\ \A e \in adding[p].given : Within(adding[p].big, e)

JobsOwned == \A p \in Processes : JobOwned(p)

GraphTypes ==
    /\ status  = [b \in BigTasks |-> status[b]]
    /\ parent  \in [Subtasks -> BigTasks \cup {NoBigTask}]
    /\ track   = [b \in BigTasks |-> track[b]]
    /\ receipt = [b \in BigTasks |-> receipt[b]]
    /\ adding  = [p \in Processes |-> adding[p]]

GInv == GraphTypes /\ EdgesOwned /\ JobsOwned /\ GraphReadable

(* No Subtask is on a cycle of edges that lead between others.             *)
LEMMA NewTaskNoCycle ==
    ASSUME NEW tasks, NEW more, tasks \subseteq more, NEW E,
           \A e \in E : e.down \in tasks, CycleMembers(tasks, E) = {}
    PROVE  CycleMembers(more, E) = {}
<1> SUFFICES ASSUME NEW left \in SUBSET more, NEW x \in left,
                    \A task \in left : \E e \in E : e.down = task /\ e.up \in left
             PROVE  FALSE
  BY DEF CycleMembers
<1>1. left \in SUBSET tasks
  OBVIOUS
<1> QED BY <1>1 DEF CycleMembers

(* The rules hold of the same edges between more Subtasks, whose owners    *)
(* agree where they did.                                                   *)
LEMMA ValidAmongMore ==
    ASSUME NEW tasks, NEW more, tasks \subseteq more, NEW E, NEW owner, NEW other,
           DependenciesValid(tasks, owner, E),
           \A x, y \in tasks : owner[x] = owner[y] => other[x] = other[y]
    PROVE  DependenciesValid(more, other, E)
<1>1. CycleMembers(more, {e \in E : e.type = "BLOCKING"}) = {}
  BY NewTaskNoCycle DEF DependenciesValid
<1> QED BY <1>1 DEF DependenciesValid

(* With edges that stay within a Big Task, the listing of one is about its *)
(* own Subtasks only.                                                      *)
Local(b) ==
    /\ Touching(TasksOf(b)) = {e \in edges : Within(b, e)}
    /\ ListingReadable(b) <=> DependenciesValid(TasksOf(b), parent, Touching(TasksOf(b)))

LEMMA ListingIsLocal == GraphTypes /\ EdgesOwned => \A b \in BigTasks : Local(b)
<1> SUFFICES ASSUME GraphTypes, EdgesOwned, NEW b \in BigTasks PROVE Local(b)
  OBVIOUS
<1>1. \A s \in Subtasks, c \in BigTasks : s \in TasksOf(b) /\ s \in TasksOf(c) => b = c
  BY DEF TasksOf
<1>2. Touching(TasksOf(b)) = {e \in edges : Within(b, e)}
  BY <1>1 DEF EdgesOwned, Within, Touching, TasksOf
<1>3. TasksOf(b) \subseteq Stored
  BY NoBigTaskAssumption DEF TasksOf, Stored
<1> DEFINE rows == Touching(TasksOf(b))
           named == {e.up : e \in rows} \cup {e.down : e \in rows}
<1>4. named \subseteq TasksOf(b)
  BY <1>2 DEF Within
<1>5. TasksOf(b) \cup named = TasksOf(b)
  BY <1>4
<1> HIDE DEF rows, named
<1>6. ListingReadable(b) <=> named \subseteq Stored /\ DependenciesValid(TasksOf(b) \cup named, parent, rows)
  BY DEF ListingReadable, rows, named
<1> QED BY <1>2, <1>3, <1>4, <1>5, <1>6 DEF rows, Local

LEMMA ListingStaysLocal == (GraphTypes /\ EdgesOwned => \A b \in BigTasks : Local(b))'
BY ListingIsLocal, PTL

(* The listing of a Big Task whose Subtasks and edges stay the same.       *)
LEMMA ListingKept ==
    ASSUME GInv, GraphTypes', EdgesOwned', NEW b \in BigTasks,
           TasksOf(b)' = TasksOf(b),
           \A e : Within(b, e) => (e \in edges' <=> e \in edges)
    PROVE  /\ ListingReadable(b)'
           /\ Touching(TasksOf(b))' = Touching(TasksOf(b))
<1>1. /\ Touching(TasksOf(b)) = {e \in edges : Within(b, e)}
      /\ DependenciesValid(TasksOf(b), parent, Touching(TasksOf(b)))
  BY ListingIsLocal DEF GInv, GraphReadable, Local
<1>2. /\ Touching(TasksOf(b))' = {e \in edges' : Within(b, e)'}
      /\ ListingReadable(b)' <=> DependenciesValid(TasksOf(b)', parent', Touching(TasksOf(b))')
  BY ListingStaysLocal DEF Local
<1>3. \A e : Within(b, e)' <=> Within(b, e)
  BY DEF Within
<1>4. Touching(TasksOf(b))' = Touching(TasksOf(b))
  BY <1>1, <1>2, <1>3
<1>5. \A x \in TasksOf(b) : parent[x] = b /\ parent'[x] = b
  BY DEF TasksOf
<1>6. DependenciesValid(TasksOf(b), parent', Touching(TasksOf(b)))
  BY <1>1, <1>5, ValidAmongMore
<1> QED BY <1>2, <1>4, <1>6

(* The plan of a Big Task whose track stays the same.                      *)
LEMMA PlanKept ==
    ASSUME NEW b \in BigTasks, PlanReadable(b),
           track'[b] = track[b], status[b] # "ABSENT" => status'[b] # "ABSENT",
           contracts \subseteq contracts', \A c \in contracts' \ contracts : c.big # b
    PROVE  PlanReadable(b)'
<1>1. /\ Versions(b)' = Versions(b) /\ Decisions(b)' = Decisions(b)
      /\ Newest(b)' = Newest(b) /\ Planned(b)' = Planned(b)
  BY DEF Versions, Decisions, Newest, Planned
<1>2. Phase(b)' = Phase(b) /\ TrackOrdered(b)' = TrackOrdered(b)
  BY <1>1 DEF Phase, TrackOrdered
<1>3. ASSUME NEW version, BundleReadable(b, version) PROVE BundleReadable(b, version)'
  BY <1>3 DEF BundleReadable
<1>4. ContractsReferenced(b) => ContractsReferenced(b)'
  BY <1>1 DEF ContractsReferenced
<1>5. CASE track[b].began = Never
  BY <1>5 DEF PlanReadable
<1>6. CASE track[b].began # Never
  <2>1. /\ status[b] # "ABSENT"
        /\ Len(Versions(b)) \in 1 .. 3
        /\ Len(Decisions(b)) \in {Len(Versions(b)) - 1, Len(Versions(b))}
        /\ TrackOrdered(b)
        /\ \A n \in DOMAIN Versions(b) : BundleReadable(b, Versions(b)[n])
        /\ ContractsReferenced(b)
        /\ Planned(b) => /\ Phase(b) = "APPROVED"
                         /\ DependenciesValid(Newest(b).plan.tasks,
                                              [s \in Newest(b).plan.tasks |-> b],
                                              Newest(b).plan.edges)
    BY <1>6 DEF PlanReadable
  <2>2. \A n \in DOMAIN Versions(b) : BundleReadable(b, Versions(b)[n])'
    BY <1>1, <1>3, <2>1
  <2> QED BY <1>1, <1>2, <1>4, <1>6, <2>1, <2>2 DEF PlanReadable
<1> QED BY <1>5, <1>6

(* What a Big Task owns, when its track, Subtasks and edges stay the same. *)
LEMMA CanonicalKept ==
    ASSUME NEW b \in BigTasks, Owned(b) => CanonicalReadable(b),
           track'[b] = track[b], receipt'[b] = receipt[b], TasksOf(b)' = TasksOf(b),
           Touching(TasksOf(b))' = Touching(TasksOf(b))
    PROVE  (Owned(b) => CanonicalReadable(b))'
<1> SUFFICES ASSUME Owned(b)' PROVE CanonicalReadable(b)'
  OBVIOUS
<1>1. CanonicalReadable(b)
  BY DEF Owned
<1>2. Newest(b)' = Newest(b) /\ SourceReady(b)' = SourceReady(b)
  BY DEF Newest, Versions, Decisions, SourceReady, Planned, Phase
<1>3. TasksOf(b) = Newest(b).plan.tasks /\ Touching(TasksOf(b)) = Newest(b).plan.edges
  BY <1>1 DEF CanonicalReadable
<1>4. Touching(Newest(b).plan.tasks)' = Newest(b).plan.edges
  <2>1. Touching(TasksOf(b))' = {e \in edges' : e.up \in TasksOf(b)' \/ e.down \in TasksOf(b)'}
    BY DEF Touching
  <2> QED BY <1>2, <1>3, <2>1 DEF Touching
<1> QED BY <1>1, <1>2, <1>3, <1>4 DEF CanonicalReadable

(* Planning a Big Task, or changing its place on the board.                *)
LEMMA Planning ==
    ASSUME GInv, NEW b \in BigTasks, GraphTypes',
           \A x \in BigTasks \ {b} : track'[x] = track[x],
           \A x \in BigTasks : status[x] # "ABSENT" => status'[x] # "ABSENT",
           contracts \subseteq contracts', \A c \in contracts' \ contracts : c.big = b,
           UNCHANGED <<parent, edges, receipt, adding>>,
           PlanReadable(b)', Owned(b) => track'[b] = track[b]
    PROVE  GInv'
<1>1. EdgesOwned' /\ JobsOwned'
  BY DEF GInv, EdgesOwned, JobsOwned, JobOwned, Within, TasksOf
<1>2. ASSUME NEW x \in BigTasks
      PROVE  PlanReadable(x)' /\ ListingReadable(x)' /\ (Owned(x) => CanonicalReadable(x))'
  <2>1. PlanReadable(x)'
    BY <1>2, PlanKept DEF GInv, GraphReadable
  <2>2. TasksOf(x)' = TasksOf(x) /\ Owned(x)' = Owned(x)
    BY DEF TasksOf, Owned
  <2>3. ListingReadable(x)' /\ Touching(TasksOf(x))' = Touching(TasksOf(x))
    BY <1>1, <1>2, <2>2, ListingKept
  <2>4. (Owned(x) => CanonicalReadable(x))'
    BY <1>2, <2>2, <2>3, CanonicalKept DEF GInv, GraphReadable
  <2> QED BY <2>1, <2>3, <2>4
<1> QED BY <1>1, <1>2 DEF GInv, GraphReadable

(* A Big Task with a receipt is planned.                                   *)
LEMMA OwnedIsPlanned == GInv => \A b \in BigTasks : Owned(b) => Planned(b)
BY DEF GInv, GraphReadable, CanonicalReadable, SourceReady

LEMMA PlanningSteps ==
    ASSUME GInv, NEW b \in BigTasks, NEW time \in Times,
           \/ \E plan \in Candidates, bundled \in BOOLEAN, content \in Contents :
                 Propose(b, plan, bundled, content, time)
           \/ \E outcome \in {"APPROVE", "REJECT", "ESCALATE"} :
                 RecordReviewerDecision(b, outcome, time)
           \/ MaterializePlan(b, time)
    PROVE  GInv'
<1>1. /\ UNCHANGED <<status, parent, edges, receipt, adding>>
      /\ PlanReadable(b)' /\ ~Planned(b)
  BY DEF Propose, RecordReviewerDecision, MaterializePlan
<1>2. /\ track' = [x \in BigTasks |-> track'[x]]
      /\ \A x \in BigTasks \ {b} : track'[x] = track[x]
  BY DEF GInv, GraphTypes, Propose, RecordReviewerDecision, MaterializePlan
<1>3. contracts \subseteq contracts' /\ \A c \in contracts' \ contracts : c.big = b
  <2>1. ASSUME NEW plan, NEW bundled, NEW content, Propose(b, plan, bundled, content, time)
        PROVE  contracts \subseteq contracts' /\ \A c \in contracts' \ contracts : c.big = b
    <3>1. \A c \in NewContracts(b, plan, content, time) : c.big = b
      BY DEF NewContracts
    <3> QED BY <2>1, <3>1 DEF Propose
  <2> QED BY <2>1 DEF RecordReviewerDecision, MaterializePlan
<1>4. GraphTypes'
  BY <1>1, <1>2 DEF GInv, GraphTypes
<1>5. ~Owned(b)
  BY <1>1, OwnedIsPlanned
<1> QED BY <1>1, <1>2, <1>3, <1>4, <1>5, Planning

LEMMA BigTaskCreated == ASSUME GInv, NEW b \in BigTasks, CreateBigTask(b) PROVE GInv'
<1>1. /\ UNCHANGED <<parent, edges, track, contracts, receipt, adding>>
      /\ status' = [x \in BigTasks |-> status'[x]]
      /\ \A x \in BigTasks : status[x] # "ABSENT" => status'[x] # "ABSENT"
  BY DEF CreateBigTask, GInv, GraphTypes
<1>2. GraphTypes'
  BY <1>1 DEF GInv, GraphTypes
<1>3. PlanReadable(b)'
  BY <1>1, PlanKept DEF GInv, GraphReadable
<1> QED BY <1>1, <1>2, <1>3, Planning

(* The Subtasks of the plan are nobody's before, and its edges stay among  *)
(* them, so that other Big Tasks do not see them.                          *)
LEMMA TasksMaterialized ==
    ASSUME GInv, NEW b \in BigTasks, NEW time \in Times, MaterializeTasks(b, time)
    PROVE  GInv'
<1> DEFINE plan == Newest(b).plan
<1>1. /\ UNCHANGED <<status, track, contracts, adding>>
      /\ TasksOf(b) = {} /\ plan.tasks \cap Stored = {}
      /\ parent' = [s \in Subtasks |-> IF s \in plan.tasks THEN b ELSE parent[s]]
      /\ edges' = edges \cup plan.edges
      /\ receipt' = [receipt EXCEPT ![b] = time]
      /\ CanonicalReadable(b)' /\ Planned(b)
  BY DEF MaterializeTasks, SourceReady
<1>2. DependenciesValid(plan.tasks, [s \in plan.tasks |-> b], plan.edges)
  BY <1>1 DEF GInv, GraphReadable, PlanReadable, NoTrack, Planned, Never
<1>3. Newest(b)' = Newest(b) /\ TasksOf(b)' = plan.tasks
  BY <1>1 DEF Newest, Versions, CanonicalReadable
<1> HIDE DEF plan
<1>4. GraphTypes'
  BY <1>1 DEF GInv, GraphTypes
<1>5. \A s \in Stored : parent'[s] = parent[s]
  BY <1>1 DEF Stored
<1>6. \A x \in BigTasks \ {b} : TasksOf(x)' = TasksOf(x)
  BY <1>1, NoBigTaskAssumption DEF TasksOf, Stored
<1>7. \A e \in plan.edges : Within(b, e)'
  BY <1>2, <1>3 DEF DependenciesValid, Within
<1>8. \A x \in BigTasks : \A e : Within(x, e) => Within(x, e)'
  BY <1>1, <1>6 DEF Within
<1>9. EdgesOwned' /\ JobsOwned'
  <2>1. EdgesOwned'
    BY <1>1, <1>7, <1>8 DEF GInv, EdgesOwned
  <2>2. JobsOwned'
    <3>1. \A x \in BigTasks : TasksOf(x) \subseteq TasksOf(x)'
      BY <1>1, <1>6
    <3> QED BY <1>1, <1>8, <3>1 DEF GInv, JobsOwned, JobOwned
  <2> QED BY <2>1, <2>2
<1>10. ASSUME NEW x \in BigTasks \ {b}
       PROVE  PlanReadable(x)' /\ ListingReadable(x)' /\ (Owned(x) => CanonicalReadable(x))'
  <2>1. PlanReadable(x)'
    BY <1>1, <1>10, PlanKept DEF GInv, GraphReadable
  <2>2. \A e : Within(x, e) => e \notin plan.edges
    BY <1>1, <1>2, NoBigTaskAssumption DEF DependenciesValid, Within, TasksOf, Stored
  <2>3. ListingReadable(x)' /\ Touching(TasksOf(x))' = Touching(TasksOf(x))
    BY <1>1, <1>4, <1>6, <1>9, <1>10, <2>2, ListingKept
  <2>4. receipt'[x] = receipt[x] /\ track'[x] = track[x]
    BY <1>1, <1>10 DEF GInv, GraphTypes
  <2> QED BY <1>6, <1>10, <2>1, <2>3, <2>4, CanonicalKept DEF GInv, GraphReadable
<1>11. PlanReadable(b)'
  BY <1>1, PlanKept DEF GInv, GraphReadable
<1>12. ListingReadable(b)'
  <2>1. ListingReadable(b)' <=> DependenciesValid(TasksOf(b)', parent', Touching(TasksOf(b))')
    BY <1>4, <1>9, ListingStaysLocal DEF Local
  <2>2. Touching(TasksOf(b))' = plan.edges
    BY <1>1, <1>3 DEF CanonicalReadable, Touching, plan
  <2>3. \A s \in plan.tasks : parent'[s] = b
    BY <1>3 DEF TasksOf
  <2>4. DependenciesValid(plan.tasks, parent', plan.edges)
    BY <1>2, <2>3, ValidAmongMore
  <2> QED BY <1>3, <2>1, <2>2, <2>4
<1> QED BY <1>1, <1>4, <1>9, <1>10, <1>11, <1>12 DEF GInv, GraphReadable

(* A step after which every Big Task other than b has its Subtasks and     *)
(* edges as before, and the plans and receipts are as they were.           *)
LEMMA Adding ==
    ASSUME GInv, GraphTypes', EdgesOwned', JobsOwned', NEW b \in BigTasks,
           UNCHANGED <<status, track, contracts, receipt>>,
           \A x \in BigTasks \ {b} : /\ TasksOf(x)' = TasksOf(x)
                                     /\ \A e : Within(x, e) => (e \in edges' <=> e \in edges),
           ListingReadable(b)',
           Owned(b) => TasksOf(b)' = TasksOf(b) /\ UNCHANGED edges
    PROVE  GInv'
<1>1. ASSUME NEW x \in BigTasks PROVE PlanReadable(x)'
  BY <1>1, PlanKept DEF GInv, GraphReadable
<1>2. ASSUME NEW x \in BigTasks,
             TasksOf(x)' = TasksOf(x), \A e : Within(x, e) => (e \in edges' <=> e \in edges)
      PROVE  ListingReadable(x)' /\ (Owned(x) => CanonicalReadable(x))'
  <2>1. ListingReadable(x)' /\ Touching(TasksOf(x))' = Touching(TasksOf(x))
    BY <1>2, ListingKept
  <2> QED BY <1>2, <2>1, CanonicalKept DEF GInv, GraphReadable
<1>3. (Owned(b) => CanonicalReadable(b))'
  <2>1. CASE Owned(b)
    BY <1>2, <2>1
  <2>2. CASE ~Owned(b)
    BY <2>2 DEF Owned
  <2> QED BY <2>1, <2>2
<1>4. ASSUME NEW x \in BigTasks
      PROVE  ListingReadable(x)' /\ (Owned(x) => CanonicalReadable(x))'
  <2>1. CASE x = b
    BY <1>3, <2>1
  <2>2. CASE x # b
    BY <1>2, <2>2
  <2> QED BY <2>1, <2>2
<1> QED BY <1>1, <1>4 DEF GInv, GraphReadable

(* Nothing but what a process is about to write changes.                   *)
LEMMA OnlyAdding ==
    ASSUME GInv, UNCHANGED <<status, parent, edges, track, contracts, receipt>>,
           adding' = [p \in Processes |-> adding'[p]], JobsOwned'
    PROVE  GInv'
<1>1. GraphTypes' /\ EdgesOwned'
  BY DEF GInv, GraphTypes, EdgesOwned, Within, TasksOf
<1>2. ASSUME NEW x \in BigTasks
      PROVE  PlanReadable(x)' /\ ListingReadable(x)' /\ (Owned(x) => CanonicalReadable(x))'
  <2>1. TasksOf(x)' = TasksOf(x)
    BY DEF TasksOf
  <2>2. PlanReadable(x)'
    BY <1>2, PlanKept DEF GInv, GraphReadable
  <2>3. ListingReadable(x)' /\ Touching(TasksOf(x))' = Touching(TasksOf(x))
    BY <1>1, <1>2, <2>1, ListingKept
  <2> QED BY <1>2, <2>1, <2>2, <2>3, CanonicalKept DEF GInv, GraphReadable
<1> QED BY <1>1, <1>2 DEF GInv, GraphReadable

LEMMA Checked ==
    ASSUME GInv, NEW p \in Processes,
           \/ \E s \in Subtasks, b \in BigTasks : CheckSubtask(p, s, b)
           \/ \E b \in BigTasks, given \in ManualEdges : CheckDependencies(p, b, given)
    PROVE  GInv'
<1>1. CASE \E s \in Subtasks, b \in BigTasks : CheckSubtask(p, s, b)
  <2>1. PICK s \in Subtasks, b \in BigTasks : CheckSubtask(p, s, b)
    BY <1>1
  <2>2. JobsOwned' /\ adding' = [q \in Processes |-> adding'[q]]
    BY <2>1 DEF CheckSubtask, GInv, JobsOwned, JobOwned, GraphTypes, Within, TasksOf
  <2> QED BY <2>1, <2>2, OnlyAdding DEF CheckSubtask
<1>2. CASE \E b \in BigTasks, given \in ManualEdges : CheckDependencies(p, b, given)
  <2>1. PICK b \in BigTasks, given \in ManualEdges : CheckDependencies(p, b, given)
    BY <1>2
  <2> DEFINE job == [op |-> "EDGES", big |-> b, given |-> given, targets |-> TasksOf(b)]
  <2>2. /\ job.op = "EDGES" /\ job.big = b /\ job.given = given /\ job.targets = TasksOf(b)
        /\ adding' = [adding EXCEPT ![p] = job] /\ UNCHANGED parent
        /\ \A e \in given : Within(b, e)
    BY <2>1 DEF CheckDependencies, Within
  <2> HIDE DEF job
  <2>3. JobsOwned' /\ adding' = [q \in Processes |-> adding'[q]]
    BY <2>2 DEF GInv, JobsOwned, JobOwned, GraphTypes, Within, TasksOf
  <2> QED BY <2>1, <2>3, OnlyAdding DEF CheckDependencies
<1> QED BY <1>1, <1>2

LEMMA SubtaskInserted ==
    ASSUME GInv, NEW p \in Processes, InsertSubtask(p)
    PROVE  GInv'
<1>0. PICK s, b : s = adding[p].task /\ b = adding[p].big
  OBVIOUS
<1>1. /\ adding[p].op = "SUBTASK" /\ s \in Subtasks /\ b \in BigTasks
      /\ adding' = [adding EXCEPT ![p] = NoJob]
      /\ UNCHANGED <<status, edges, track, contracts, receipt>>
  BY <1>0 DEF InsertSubtask, GInv, JobsOwned, JobOwned
<1>2. NoJob.op = "NONE"
  BY DEF NoJob
<1>3. adding' = [q \in Processes |-> adding'[q]]
  BY <1>1 DEF GInv, GraphTypes
<1>4. CASE SubtaskRefused(adding[p])
  <2>1. UNCHANGED parent
    BY <1>4 DEF InsertSubtask
  <2>2. JobsOwned'
    BY <1>1, <1>2, <2>1 DEF GInv, JobsOwned, JobOwned, GraphTypes, Within, TasksOf
  <2> QED BY <1>1, <1>3, <2>1, <2>2, OnlyAdding
<1>5. CASE ~SubtaskRefused(adding[p])
  <2>1. s \notin Stored /\ ~Owned(b) /\ parent' = [parent EXCEPT ![s] = b]
    BY <1>0, <1>5 DEF InsertSubtask, SubtaskRefused
  <2>2. /\ \A x \in BigTasks \ {b} : TasksOf(x)' = TasksOf(x)
        /\ TasksOf(b)' = TasksOf(b) \cup {s}
    BY <1>1, <2>1, NoBigTaskAssumption DEF TasksOf, Stored, GInv, GraphTypes
  <2>3. \A x \in BigTasks : \A e : Within(x, e) => Within(x, e)'
    BY <2>2 DEF Within
  <2>4. GraphTypes'
    BY <1>1, <1>3, <2>1 DEF GInv, GraphTypes
  <2>5. EdgesOwned'
    BY <1>1, <2>3 DEF GInv, EdgesOwned
  <2>6. JobsOwned'
    <3>1. \A x \in BigTasks : TasksOf(x) \subseteq TasksOf(x)'
      BY <2>2
    <3>2. \A q \in Processes : adding'[q] = adding[q] \/ adding'[q] = NoJob
      BY <1>1 DEF GInv, GraphTypes
    <3> QED BY <1>2, <2>3, <3>1, <3>2 DEF GInv, JobsOwned, JobOwned
  <2>7. ListingReadable(b)'
    <3>1. /\ Touching(TasksOf(b)) = {e \in edges : Within(b, e)}
          /\ DependenciesValid(TasksOf(b), parent, Touching(TasksOf(b)))
      BY <1>1, ListingIsLocal DEF GInv, GraphReadable, Local
    <3>2. /\ Touching(TasksOf(b))' = {e \in edges' : Within(b, e)'}
          /\ ListingReadable(b)' <=> DependenciesValid(TasksOf(b)', parent', Touching(TasksOf(b))')
      BY <1>1, <2>4, <2>5, ListingStaysLocal DEF Local
    <3>3. \A e \in edges : s \notin {e.up, e.down}
      BY <2>1, NoBigTaskAssumption DEF GInv, EdgesOwned, Within, TasksOf, Stored
    <3>4. \A e \in edges : Within(b, e)' <=> Within(b, e)
      BY <2>2, <3>3 DEF Within
    <3>5. Touching(TasksOf(b))' = Touching(TasksOf(b))
      BY <1>1, <3>1, <3>2, <3>4
    <3>6. \A x \in TasksOf(b) : parent'[x] = b
      BY <2>2 DEF TasksOf
    <3>7. DependenciesValid(TasksOf(b)', parent', Touching(TasksOf(b)))
      BY <2>2, <3>1, <3>6, ValidAmongMore
    <3> QED BY <3>2, <3>5, <3>7
  <2> QED BY <1>1, <2>1, <2>2, <2>4, <2>5, <2>6, <2>7, Adding
<1> QED BY <1>4, <1>5

LEMMA DependenciesReplaced ==
    ASSUME GInv, NEW p \in Processes, ReplaceDependencies(p)
    PROVE  GInv'
<1>0. PICK job, b : job = adding[p] /\ b = job.big
  OBVIOUS
<1>1. /\ job.op = "EDGES"
      /\ edges' = IF Owned(b) THEN edges
                  ELSE {e \in edges : e.down \notin job.targets} \cup job.given
      /\ adding' = [adding EXCEPT ![p] = NoJob]
      /\ UNCHANGED <<status, parent, track, contracts, receipt>>
      /\ ~Owned(b) => ListingReadable(b)'
  BY <1>0 DEF ReplaceDependencies
<1>2. /\ b \in BigTasks /\ job.targets \subseteq TasksOf(b)
      /\ \A e \in job.given : Within(b, e)
  BY <1>0, <1>1 DEF GInv, JobsOwned, JobOwned
<1>3. NoJob.op = "NONE"
  BY DEF NoJob
<1>4. GraphTypes'
  BY <1>1 DEF GInv, GraphTypes
<1>5. \A x : TasksOf(x)' = TasksOf(x)
  BY <1>1 DEF TasksOf
<1>6. \A x, e : Within(x, e)' <=> Within(x, e)
  BY <1>5 DEF Within
<1>7. EdgesOwned'
  BY <1>1, <1>2, <1>6 DEF GInv, EdgesOwned
<1>8. JobsOwned'
  <2>1. \A q \in Processes : adding'[q] = adding[q] \/ adding'[q] = NoJob
    BY <1>1 DEF GInv, GraphTypes
  <2> QED BY <1>3, <1>5, <1>6, <2>1 DEF GInv, JobsOwned, JobOwned
<1>9. CASE Owned(b)
  <2>1. UNCHANGED edges /\ adding' = [q \in Processes |-> adding'[q]]
    BY <1>1, <1>9 DEF GInv, GraphTypes
  <2> QED BY <1>1, <1>8, <2>1, OnlyAdding
<1>10. CASE ~Owned(b)
  <2>1. ASSUME NEW x \in BigTasks \ {b}, NEW e, Within(x, e)
        PROVE  e \in edges' <=> e \in edges
    <3>1. e.down \notin job.targets /\ e \notin job.given
      BY <1>2, <2>1 DEF Within, TasksOf
    <3> QED BY <1>1, <1>10, <3>1
  <2> QED BY <1>1, <1>2, <1>4, <1>5, <1>7, <1>8, <1>10, <2>1, Adding
<1> QED BY <1>9, <1>10

LEMMA GraphStarts == GraphInit => GInv
<1> SUFFICES ASSUME GraphInit PROVE GInv
  OBVIOUS
<1>1. GraphTypes /\ EdgesOwned /\ JobsOwned
  BY DEF GraphInit, GraphTypes, EdgesOwned, JobsOwned, JobOwned, NoJob
<1>2. ASSUME NEW b \in BigTasks
      PROVE  PlanReadable(b) /\ ListingReadable(b) /\ ~Owned(b)
  <2>1. PlanReadable(b) /\ ~Owned(b)
    BY DEF GraphInit, PlanReadable, NoTrack, Owned
  <2>2. Touching(TasksOf(b)) = {}
    BY DEF GraphInit, Touching
  <2>3. CycleMembers(TasksOf(b), {}) = {}
    BY DEF CycleMembers
  <2>4. DependenciesValid(TasksOf(b), parent, {})
    BY <2>3 DEF DependenciesValid
  <2> QED BY <1>1, <2>1, <2>2, <2>4, ListingIsLocal DEF Local
<1> QED BY <1>1, <1>2 DEF GInv, GraphReadable

LEMMA GraphKept == GInv /\ [GraphNext]_graphVars => GInv'
<1> SUFFICES ASSUME GInv, [GraphNext]_graphVars PROVE GInv'
  OBVIOUS
<1>1. CASE UNCHANGED graphVars
  <2>1. adding' = [q \in Processes |-> adding'[q]] /\ JobsOwned'
    BY <1>1 DEF graphVars, GInv, GraphTypes, JobsOwned, JobOwned, Within, TasksOf
  <2> QED BY <1>1, <2>1, OnlyAdding DEF graphVars
<1>2. ASSUME NEW b \in BigTasks, NEW time \in Times, MaterializeTasks(b, time) PROVE GInv'
  BY <1>2, TasksMaterialized
<1> QED BY <1>1, <1>2, BigTaskCreated, PlanningSteps, Checked, SubtaskInserted,
           DependenciesReplaced DEF GraphNext

(* What the operations of planning and of the task hierarchy demand of the *)
(* database when they read it is true in every state, whatever processes   *)
(* add, plan and materialize in whatever order and whatever the clock      *)
(* reads (orchestration-planning.ts, task-storage.ts).                     *)
THEOREM GraphStaysReadable == GraphSpec => []GraphReadable
<1>1. GraphInit /\ [][GraphNext]_graphVars => []GInv
  BY GraphStarts, GraphKept, PTL
<1>2. GInv => GraphReadable
  BY DEF GInv
<1> QED BY <1>1, <1>2, PTL DEF GraphSpec

(* What a plan became is kept. *)
MaterializedKept ==
    \A b \in BigTasks : Owned(b) =>
        /\ receipt'[b] = receipt[b] /\ track'[b] = track[b]
        /\ TasksOf(b)' = TasksOf(b)
        /\ Touching(TasksOf(b))' = Touching(TasksOf(b))

(* Once the plan of a Big Task became Subtasks, neither the plan nor its   *)
(* receipt changes any more, no Subtask joins or leaves the Big Task, and  *)
(* no dependency of its Subtasks is added or dropped, also not by a        *)
(* process that checked its own change before the materialization          *)
(* (materializeApprovedCanonicalTasks, the triggers on its receipt).       *)
THEOREM MaterializedPlansAreFinal == GraphSpec => [][MaterializedKept]_graphVars
<1>1. ASSUME GInv, GInv', [GraphNext]_graphVars PROVE MaterializedKept \/ UNCHANGED graphVars
  <2> SUFFICES ASSUME GraphNext, NEW b \in BigTasks, Owned(b)
               PROVE  /\ receipt'[b] = receipt[b] /\ track'[b] = track[b]
                      /\ TasksOf(b)' = TasksOf(b)
                      /\ Touching(TasksOf(b))' = Touching(TasksOf(b))
    BY <1>1 DEF MaterializedKept
  <2>1. CanonicalReadable(b) /\ Planned(b)
    BY <1>1 DEF GInv, GraphReadable, CanonicalReadable, SourceReady
  <2>2. track'[b] = track[b]
    <3>1. ASSUME NEW c \in BigTasks, NEW time, NEW plan, NEW bundled, NEW content,
                 Propose(c, plan, bundled, content, time)
          PROVE  track'[b] = track[b]
      BY <1>1, <2>1, <3>1 DEF Propose, GInv, GraphTypes, Planned
    <3>2. ASSUME NEW c \in BigTasks, NEW time, NEW outcome,
                 RecordReviewerDecision(c, outcome, time)
          PROVE  track'[b] = track[b]
      BY <1>1, <2>1, <3>2 DEF RecordReviewerDecision, GInv, GraphTypes, Planned
    <3>3. ASSUME NEW c \in BigTasks, NEW time, MaterializePlan(c, time)
          PROVE  track'[b] = track[b]
      BY <1>1, <2>1, <3>3 DEF MaterializePlan, GInv, GraphTypes, Planned
    <3>4. ASSUME NEW c \in BigTasks, NEW time, CreateBigTask(c) \/ MaterializeTasks(c, time)
          PROVE  track' = track
      BY <3>4 DEF CreateBigTask, MaterializeTasks
    <3>5. ASSUME NEW p \in Processes, NEW c \in BigTasks, NEW s, NEW given,
                 \/ CheckSubtask(p, s, c) \/ CheckDependencies(p, c, given)
                 \/ InsertSubtask(p) \/ ReplaceDependencies(p)
          PROVE  track' = track
      BY <3>5 DEF CheckSubtask, CheckDependencies, InsertSubtask, ReplaceDependencies
    <3> QED BY <3>1, <3>2, <3>3, <3>4, <3>5 DEF GraphNext
  <2>3. receipt'[b] = receipt[b]
    <3>1. ASSUME NEW c \in BigTasks, NEW time, MaterializeTasks(c, time)
          PROVE  receipt'[b] = receipt[b]
      BY <1>1, <3>1 DEF MaterializeTasks, GInv, GraphTypes, Owned
    <3>2. ASSUME NEW c \in BigTasks, NEW time, NEW plan, NEW bundled, NEW content, NEW outcome,
                 \/ CreateBigTask(c) \/ Propose(c, plan, bundled, content, time)
                 \/ RecordReviewerDecision(c, outcome, time) \/ MaterializePlan(c, time)
          PROVE  receipt' = receipt
      BY <3>2 DEF CreateBigTask, Propose, RecordReviewerDecision, MaterializePlan
    <3>3. ASSUME NEW p \in Processes, NEW c \in BigTasks, NEW s, NEW given,
                 \/ CheckSubtask(p, s, c) \/ CheckDependencies(p, c, given)
                 \/ InsertSubtask(p) \/ ReplaceDependencies(p)
          PROVE  receipt' = receipt
      BY <3>3 DEF CheckSubtask, CheckDependencies, InsertSubtask, ReplaceDependencies
    <3> QED BY <3>1, <3>2, <3>3 DEF GraphNext
  <2>4. CanonicalReadable(b)'
    BY <1>1, <2>3 DEF GInv, GraphReadable, Owned
  <2>5. Newest(b)' = Newest(b)
    BY <2>2 DEF Newest, Versions
  <2> QED BY <2>1, <2>2, <2>3, <2>4, <2>5 DEF CanonicalReadable
<1>2. GraphInit /\ [][GraphNext]_graphVars => []GInv
  BY GraphStarts, GraphKept, PTL
<1> QED BY <1>1, <1>2, PTL DEF GraphSpec

-----------------------------------------------------------------------------
(***************************************************************************)
(* Execution attempts.  An identity is used once, so that its two rows     *)
(* appear together; every operation looks at both rows of the attempt and  *)
(* at all others in its transaction, and refuses a clock that went back    *)
(* behind what the rows say.                                               *)
(***************************************************************************)

(* Both rows of an attempt can be read and agree on whether it is over.    *)
RowsSound(a) ==
    \/ Free(a)
    \/ ThreadReadable(a) /\ RunReadable(a) /\ ((thread[a].status = "OPEN") <=> Live(a))

(* Two attempts share neither a Subtask under way, nor a provider thread,  *)
(* nor the right to write as a role.                                       *)
Apart(a, x) ==
    (~Free(a) /\ ~Free(x) /\ a # x) =>
        /\ Live(a) /\ Live(x) => thread[a].task # thread[x].task
        /\ thread[a].provider # Unbound => thread[a].provider # thread[x].provider
        /\ ~( /\ Live(a) /\ thread[a].kind = "WRITING_ROLE"
              /\ Live(x) /\ thread[x].kind = "WRITING_ROLE")

EInv ==
    /\ ExecTypeOK
    /\ \A a \in Attempts : RowsSound(a)
    /\ \A a, x \in Attempts : Apart(a, x)

LEMMA EInvIsSound == EInv => AttemptsSound
  BY DEF EInv, AttemptsSound, RowsSound, Apart

(* A row that exists has every field of its table.                         *)
LEMMA Rows ==
  ASSUME ExecTypeOK, NEW a \in Attempts, RowsSound(a)
  PROVE  /\ ~Free(a) => thread[a] \in ThreadRow /\ run[a] \in RunRow
         /\ Free(a) => thread[a] = NoThread /\ run[a] = NoRun
  BY DEF ExecTypeOK, RowsSound, Free, ThreadRow, RunRow, NoThread, NoRun,
         ThreadReadable, RunReadable, Terminal

LEMMA Start == ExecInit => EInv
  BY DEF ExecInit, EInv, ExecTypeOK, RowsSound, Apart, Free, NoThread, NoRun

(* An attempt whose rows are replaced, while those of the others stay.     *)
Only(a) ==
    /\ \A x \in Attempts \ {a} : thread'[x] = thread[x] /\ run'[x] = run[x]

LEMMA OthersKeep ==
  ASSUME EInv, NEW a \in Attempts, Only(a), ExecTypeOK',
         RowsSound(a)',
         \A x \in Attempts \ {a} : Apart(a, x)' /\ Apart(x, a)'
  PROVE  EInv'
<1>1. ASSUME NEW x \in Attempts PROVE RowsSound(x)'
  <2>1. CASE x = a  BY <2>1
  <2>2. CASE x # a
    <3>1. RowsSound(x)  BY DEF EInv
    <3>2. thread'[x] = thread[x] /\ run'[x] = run[x]  BY <2>2 DEF Only
    <3> QED  BY <3>1, <3>2 DEF RowsSound, Free, Live, ThreadReadable, RunReadable
  <2> QED  BY <2>1, <2>2
<1>2. ASSUME NEW x \in Attempts, NEW y \in Attempts PROVE Apart(x, y)'
  <2>1. CASE x = a \/ y = a
    <3>1. CASE x = y  BY <3>1 DEF Apart
    <3>2. CASE x # y  BY <2>1, <3>2
    <3> QED  BY <3>1, <3>2
  <2>2. CASE x # a /\ y # a
    <3>1. Apart(x, y)  BY DEF EInv
    <3>2. thread'[x] = thread[x] /\ run'[x] = run[x]  BY <2>2 DEF Only
    <3>3. thread'[y] = thread[y] /\ run'[y] = run[y]  BY <2>2 DEF Only
    <3> QED  BY <3>1, <3>2, <3>3 DEF Apart, Free, Live
  <2> QED  BY <2>1, <2>2
<1> QED  BY <1>1, <1>2 DEF EInv

(* A reservation, whichever operation makes it.                            *)
LEMMA Reserve ==
  ASSUME EInv, NEW a \in Attempts, NEW s \in ExecTasks, NEW kind \in Kinds,
         NEW t \in ExecTimes, NEW u \in ExecTimes,
         Free(a), NoLiveAttempt(s),
         kind = "WRITING_ROLE" => \A x \in Attempts : Live(x) => ~Writes(x),
         thread' = [thread EXCEPT ![a] = NewThread(s, kind, t)],
         run' = [run EXCEPT ![a] = NewRun(u)]
  PROVE  EInv'
<1>0. ExecTypeOK  BY DEF EInv
<1>1. /\ thread'[a] = NewThread(s, kind, t) /\ run'[a] = NewRun(u)
      /\ Only(a)
  BY <1>0 DEF ExecTypeOK, Only
<1>2. NewThread(s, kind, t) \in ThreadRow /\ NewRun(u) \in RunRow
  BY DEF NewThread, NewRun, ThreadRow, RunRow
<1>3. ExecTypeOK'  BY <1>0, <1>2 DEF ExecTypeOK
<1>4. RowsSound(a)'
  BY <1>1 DEF RowsSound, ThreadReadable, RunReadable, Live, NewThread, NewRun, ExecTimes
<1>5. ASSUME NEW x \in Attempts \ {a} PROVE Apart(a, x)' /\ Apart(x, a)'
  <2>1. thread'[x] = thread[x] /\ run'[x] = run[x]  BY <1>1 DEF Only
  <2>2. Live(x) => thread[x].task # s /\ (kind = "WRITING_ROLE" => thread[x].kind = "READING_ROLE")
    BY DEF NoLiveAttempt, Writes
  <2>3. thread'[a].provider = Unbound /\ thread'[a].task = s /\ thread'[a].kind = kind
    BY <1>1 DEF NewThread
  <2> QED  BY <2>1, <2>2, <2>3 DEF Apart, Live, Free
<1> QED  BY <1>1, <1>3, <1>4, <1>5, OthersKeep

LEMMA Bind ==
  ASSUME EInv, NEW a \in Attempts, NEW provider \in ProviderThreads, NEW t \in ExecTimes,
         BindProvider(a, provider, t)
  PROVE  EInv'
<1>0. ExecTypeOK /\ RowsSound(a) /\ ~Free(a)  BY DEF EInv, BindProvider, Free
<1>1. thread[a] \in ThreadRow /\ run[a] \in RunRow  BY <1>0, Rows
<1>2. /\ thread'[a] = [thread[a] EXCEPT !.provider = provider, !.updated = t]
      /\ run' = run /\ Only(a)
  BY <1>0 DEF ExecTypeOK, Only, BindProvider
<1>3. ExecTypeOK'
  <2>1. thread'[a] \in ThreadRow  BY <1>1, <1>2 DEF ThreadRow
  <2> QED  BY <1>0, <1>2, <2>1 DEF ExecTypeOK, BindProvider
<1>4. RowsSound(a)'
  <2>1. ThreadReadable(a) /\ RunReadable(a) /\ Live(a) /\ run[a].provider = Unbound
    BY <1>0, UnboundAssumption DEF RowsSound, BindProvider, RunReadable
  <2>2. ThreadReadable(a)'
    <3>0. thread[a].status = "OPEN" /\ thread[a].closed = NotYet
      BY <2>1 DEF ThreadReadable, BindProvider
    <3>1. /\ thread'[a].created = thread[a].created /\ thread'[a].updated = t
          /\ thread'[a].status = "OPEN" /\ thread'[a].closed = NotYet
      BY <1>1, <1>2, <3>0 DEF ThreadRow
    <3>2. /\ thread[a].created \in Nat /\ thread[a].updated \in Nat /\ t \in Nat
          /\ thread[a].updated <= t
      BY <1>1, LimitsAssumption DEF BindProvider, ThreadRow, ExecTimes
    <3>3. thread[a].created <= thread[a].updated  BY <2>1 DEF ThreadReadable
    <3> QED  BY <3>1, <3>2, <3>3 DEF ThreadReadable
  <2>3. RunReadable(a)'  BY <1>2, <2>1 DEF RunReadable
  <2>4. (thread[a].status = "OPEN")' /\ Live(a)'
    BY <1>1, <1>2, <2>1 DEF Live, BindProvider, ThreadRow
  <2> QED  BY <2>2, <2>3, <2>4 DEF RowsSound
<1>5. ASSUME NEW x \in Attempts \ {a} PROVE Apart(a, x)' /\ Apart(x, a)'
  <2>1. thread'[x] = thread[x] /\ run'[x] = run[x]  BY <1>2 DEF Only
  <2>2. /\ thread'[a].task = thread[a].task /\ thread'[a].kind = thread[a].kind
        /\ thread'[a].provider = provider /\ thread'[a].status = thread[a].status
    BY <1>1, <1>2 DEF ThreadRow
  <2>3. Apart(a, x) /\ Apart(x, a) /\ RowsSound(x)  BY DEF EInv
  <2>4. ~Free(x) => thread[x].provider # provider /\ thread[x].status # "NONE"
    BY <1>0, <2>3, Rows DEF BindProvider, ThreadRow
  <2> QED  BY <1>0, <1>2, <2>1, <2>2, <2>3, <2>4 DEF Apart, Live, Free
<1> QED  BY <1>2, <1>3, <1>4, <1>5, OthersKeep

LEMMA StartIt ==
  ASSUME EInv, NEW a \in Attempts, NEW t \in ExecTimes, StartRun(a, t)
  PROVE  EInv'
<1>0. ExecTypeOK /\ RowsSound(a) /\ ~Free(a)  BY DEF EInv, StartRun, Free
<1>1. thread[a] \in ThreadRow /\ run[a] \in RunRow  BY <1>0, Rows
<1>2. /\ run'[a] = [run[a] EXCEPT !.status = "RUNNING", !.provider = thread[a].provider,
                                  !.updated = t, !.started = t]
      /\ thread' = thread /\ Only(a)
  BY <1>0 DEF ExecTypeOK, Only, StartRun
<1>3. ExecTypeOK'
  <2>1. run'[a] \in RunRow  BY <1>1, <1>2 DEF RunRow, ThreadRow
  <2> QED  BY <1>0, <1>2, <2>1 DEF ExecTypeOK, StartRun
<1>4. RowsSound(a)'
  <2>1. /\ ThreadReadable(a) /\ RunReadable(a)
        /\ run[a].status = "CREATED" /\ run[a].updated <= t
        /\ thread[a].status = "OPEN" /\ thread[a].provider # Unbound
    BY <1>0 DEF RowsSound, StartRun
  <2>2. ThreadReadable(a)'  BY <1>2, <2>1 DEF ThreadReadable
  <2>3. RunReadable(a)'
    BY <1>1, <1>2, <2>1 DEF RunReadable, RunRow, ExecTimes, Terminal
  <2>4. (thread[a].status = "OPEN")' /\ Live(a)'  BY <1>1, <1>2, <2>1 DEF Live, RunRow
  <2> QED  BY <2>2, <2>3, <2>4 DEF RowsSound
<1>5. ASSUME NEW x \in Attempts \ {a} PROVE Apart(a, x)' /\ Apart(x, a)'
  <2>1. thread'[x] = thread[x] /\ run'[x] = run[x]  BY <1>2 DEF Only
  <2>2. Apart(a, x) /\ Apart(x, a)  BY DEF EInv
  <2>3. Live(a)  BY DEF StartRun, Live
  <2> QED  BY <1>0, <1>2, <2>1, <2>2, <2>3 DEF Apart, Live, Free
<1> QED  BY <1>2, <1>3, <1>4, <1>5, OthersKeep

LEMMA FinalizeIt ==
  ASSUME EInv, NEW a \in Attempts, NEW outcome \in Terminal,
         NEW t \in ExecTimes, NEW u \in ExecTimes, Finalize(a, outcome, t, u)
  PROVE  EInv'
<1>0. ExecTypeOK /\ RowsSound(a) /\ ~Free(a)  BY DEF EInv, Finalize, Free
<1>1. thread[a] \in ThreadRow /\ run[a] \in RunRow  BY <1>0, Rows
<1>2. /\ run'[a] = [run[a] EXCEPT !.status = outcome, !.updated = t, !.ended = t]
      /\ thread'[a] = [thread[a] EXCEPT !.status = "CLOSED", !.updated = u, !.closed = u]
      /\ Only(a)
  BY <1>0 DEF ExecTypeOK, Only, Finalize, Finished, Closed
<1>3. ExecTypeOK'
  <2>1. run'[a] \in RunRow /\ thread'[a] \in ThreadRow  BY <1>1, <1>2 DEF RunRow, ThreadRow
  <2> QED  BY <1>0, <2>1 DEF ExecTypeOK, Finalize, Finished, Closed
<1>4. RowsSound(a)' /\ ~Live(a)'
  <2>1. /\ ThreadReadable(a) /\ RunReadable(a) /\ MayFinish(a, outcome)
        /\ run[a].updated <= t /\ thread[a].updated <= u
    BY <1>0 DEF RowsSound, Finalize
  <2>2. ThreadReadable(a)'
    BY <1>1, <1>2, <2>1 DEF ThreadReadable, ThreadRow, ExecTimes
  <2>3. RunReadable(a)'
    <3>1. run'[a].status = outcome /\ run'[a].provider = run[a].provider
          /\ run'[a].created = run[a].created /\ run'[a].started = run[a].started
          /\ run'[a].updated = t /\ run'[a].ended = t
          /\ thread'[a].provider = thread[a].provider
      BY <1>1, <1>2 DEF RunRow, ThreadRow
    <3>2. CASE run[a].status = "CREATED" /\ outcome = "FAILED"
      BY <1>1, <2>1, <3>1, <3>2 DEF RunReadable, RunRow, ExecTimes, Terminal
    <3>3. CASE run[a].status = "RUNNING"
      BY <1>1, <2>1, <3>1, <3>3 DEF RunReadable, RunRow, ExecTimes, Terminal, NotYet
    <3> QED  BY <2>1, <3>2, <3>3 DEF MayFinish
  <2>4. (thread[a].status = "CLOSED")' /\ ~Live(a)'
    BY <1>1, <1>2 DEF Live, RunRow, ThreadRow, Terminal
  <2> QED  BY <2>2, <2>3, <2>4 DEF RowsSound
<1>5. ASSUME NEW x \in Attempts \ {a} PROVE Apart(a, x)' /\ Apart(x, a)'
  <2>1. thread'[x] = thread[x] /\ run'[x] = run[x]  BY <1>2 DEF Only
  <2>2. thread'[a].provider = thread[a].provider  BY <1>1, <1>2 DEF ThreadRow
  <2>3. Apart(a, x) /\ Apart(x, a)  BY DEF EInv
  <2> QED  BY <1>0, <1>4, <2>1, <2>2, <2>3 DEF Apart, Live, Free
<1> QED  BY <1>2, <1>3, <1>4, <1>5, OthersKeep

LEMMA Step == EInv /\ [ExecNext]_execVars => EInv'
<1> SUFFICES ASSUME EInv, [ExecNext]_execVars PROVE EInv'
  OBVIOUS
<1>1. ASSUME NEW a \in Attempts, NEW t \in ExecTimes, NEW s \in ExecTasks,
             ReserveOwned(a, s, t)
      PROVE  EInv'
  BY <1>1, Reserve DEF ReserveOwned, Kinds
<1>2. ASSUME NEW a \in Attempts, NEW t \in ExecTimes, NEW s \in ExecTasks,
             NEW kind \in Kinds, NEW u \in ExecTimes, ReserveRole(a, s, kind, t, u)
      PROVE  EInv'
  BY <1>2, Reserve DEF ReserveRole, SlotLeft
<1>3. CASE UNCHANGED execVars
  BY <1>3 DEF execVars, EInv, ExecTypeOK, RowsSound, Apart, Free, Live,
              ThreadReadable, RunReadable
<1> QED  BY <1>1, <1>2, <1>3, Bind, StartIt, FinalizeIt DEF ExecNext

(* Every read of an attempt accepts its rows, a Subtask has at most one    *)
(* attempt under way, and the project at most one governed role that       *)
(* writes, whatever the clock does (task-storage.ts, reservePrimary-       *)
(* ExecutionAttempt to finalizePrimaryExecutionAttempt).                   *)
THEOREM AttemptsStaySound == ExecSpec => []AttemptsSound
<1>1. ExecSpec => []EInv  BY Start, Step, PTL DEF ExecSpec
<1> QED  BY <1>1, EInvIsSound, PTL

-----------------------------------------------------------------------------
(***************************************************************************)
(* Context.  An item is replaced by one that is created with it in the     *)
(* same transaction, so that replacement never leads back: there is an     *)
(* order in which every item was created after the one it replaced.        *)
(***************************************************************************)

ItemRow == [status : ItemStatuses, scope : Scopes, supersedes : Items \cup {NoReference}]
ContextTypes ==
    /\ known \subseteq Scopes
    /\ items \in [Items -> ItemRow \cup {NoItem}]
    /\ digests \in [Digests -> Scopes \cup {NoDigest}]
    /\ writing \in [Writers -> [digest : Digests, scope : Scopes] \cup {Idle}]

(* Each link is valid, and the last item of a chain is the active one.     *)
Replaces(i) == items[i].supersedes # NoReference
Linked(i) ==
    /\ items[i].scope \in known
    /\ Replaces(i) => LinkValid(i, items[i].supersedes)
    /\ Replaces(i) /\ Successors(i) = {} => items[i].status = "ACTIVE"

(* An order in which items may have been created.                          *)
Order(before) ==
    /\ before \subseteq StoredItems \X StoredItems
    /\ \A x : <<x, x>> \notin before
    /\ \A x, y, z : <<x, y>> \in before /\ <<y, z>> \in before => <<x, z>> \in before
    /\ \A i \in StoredItems : Replaces(i) => <<items[i].supersedes, i>> \in before

OneDigest == \A d, x \in Digests : (digests[d] # NoDigest /\ d # x) => digests[d] # digests[x]

CInv ==
    /\ ContextTypes
    /\ \A i \in StoredItems : Linked(i)
    /\ \E before : Order(before)
    /\ OneDigest

(* What an order leads to from an item it never leads back to.             *)
LEMMA NeverBack ==
    ASSUME ContextTypes, NEW before, Order(before), NEW i \in StoredItems
    PROVE  i \notin Predecessors(i)
<1> DEFINE all == {x \in StoredItems : <<x, i>> \in before}
<1>1. all \in SUBSET Items /\ i \notin all
  BY DEF Order, StoredItems
<1>2. ReplacedBy(i) \subseteq all
  BY DEF Order, ReplacedBy, Replaces
<1>3. ASSUME NEW q \in all \cap StoredItems PROVE ReplacedBy(q) \subseteq all
  <2> SUFFICES ASSUME Replaces(q) PROVE items[q].supersedes \in all
    BY DEF ReplacedBy, Replaces
  <2>1. <<items[q].supersedes, q>> \in before /\ <<q, i>> \in before
    BY DEF Order
  <2>2. <<items[q].supersedes, i>> \in before
    BY <2>1, Zenon DEF Order
  <2>3. items[q].supersedes \in StoredItems
    BY <2>1 DEF Order
  <2> QED BY <2>2, <2>3
<1> HIDE DEF all
<1>4. \A p \in Predecessors(i) : p \in all
  <2> SUFFICES ASSUME NEW p \in Predecessors(i) PROVE p \in all
    OBVIOUS
  <2>1. ReplacedBy(i) \subseteq all /\ (\A q \in all \cap StoredItems : ReplacedBy(q) \subseteq all)
          => p \in all
    BY <1>1, Zenon DEF Predecessors
  <2> QED BY <1>2, <1>3, <2>1
<1> QED BY <1>1, <1>4

LEMMA ContextIsReadable == CInv => ContextReadable
<1> SUFFICES ASSUME CInv PROVE ContextReadable
  OBVIOUS
<1>1. ASSUME NEW i \in StoredItems PROVE ItemReadable(i)
  <2>1. Linked(i) /\ i \notin Predecessors(i)
    BY NeverBack DEF CInv
  <2>2. Cardinality(Successors(i)) <= 1
    <3>1. CASE Successors(i) = {}
      BY <3>1, FS_EmptySet
    <3>2. ASSUME NEW s \in Successors(i) PROVE Cardinality(Successors(i)) <= 1
      <4>1. s \in StoredItems /\ items[s].supersedes = i /\ Replaces(s)
        BY <3>2, NamesAssumption DEF Successors, Replaces, StoredItems
      <4>2. Successors(i) = {s}
        BY <4>1 DEF CInv, Linked, LinkValid
      <4>3. Cardinality({s}) = 1
        BY FS_Singleton
      <4> QED BY <4>2, <4>3
    <3> QED BY <3>1, <3>2
  <2> QED BY <2>1, <2>2 DEF ItemReadable, Linked, Replaces
<1> QED BY <1>1 DEF CInv, OneDigest, ContextReadable

LEMMA ContextStarts == ContextInit => CInv
<1> SUFFICES ASSUME ContextInit PROVE CInv
  OBVIOUS
<1>1. StoredItems = {}
  BY DEF ContextInit, StoredItems, NoItem
<1>2. Order({})
  BY <1>1 DEF Order
<1> QED BY <1>1, <1>2 DEF ContextInit, CInv, ContextTypes, OneDigest

(* An item that is the last of its chain, or of no chain, is created.      *)
LEMMA ItemCreated ==
    ASSUME CInv, NEW i \in Items, NEW scope \in Scopes, NEW condition \in ItemStatuses,
           CreateItem(i, scope, condition)
    PROVE  CInv'
<1> DEFINE row == [status |-> condition, scope |-> scope, supersedes |-> NoReference]
<1>1. /\ items \in [Items -> ItemRow \cup {NoItem}] /\ row \in ItemRow
      /\ items' = [items EXCEPT ![i] = row]
      /\ i \notin StoredItems /\ scope \in known /\ known' = known
  BY DEF CInv, ContextTypes, CreateItem, ItemRow
<1>2. /\ row.status # "NONE" /\ row.scope = scope /\ row.supersedes = NoReference
  BY DEF ItemStatuses
<1> HIDE DEF row
<1>3. items'[i] = row /\ \A x \in Items : x # i => items'[x] = items[x]
  BY <1>1
<1>4. StoredItems' = StoredItems \cup {i}
  BY <1>1, <1>2, <1>3 DEF StoredItems
<1>5. \A x \in StoredItems : x \in Items /\ x # i /\ items'[x] = items[x]
  BY <1>1, <1>3 DEF StoredItems
<1>6. ASSUME NEW x \in Items PROVE Successors(x)' = Successors(x)
  BY <1>2, <1>3, <1>4, <1>5, <1>6, NamesAssumption DEF Successors
<1>7. ASSUME NEW x \in StoredItems' PROVE Linked(x)'
  <2>1. CASE x = i
    BY <1>1, <1>2, <1>3, <2>1 DEF Linked, Replaces
  <2>2. CASE x # i
    <3>1. x \in StoredItems /\ Linked(x) /\ items'[x] = items[x] /\ x \in Items
      BY <1>4, <1>5, <1>7, <2>2 DEF CInv
    <3>2. Replaces(x) => LET p == items[x].supersedes IN
             p \in StoredItems /\ p \in Items /\ items'[p] = items[p]
      BY <1>5, <3>1 DEF Linked, LinkValid
    <3> QED BY <1>1, <1>4, <1>6, <3>1, <3>2 DEF Linked, Replaces, LinkValid
  <2> QED BY <2>1, <2>2
<1>8. \E before : Order(before)'
  <2>1. PICK before : Order(before)
    BY DEF CInv
  <2>2. Order(before)'
    BY <1>2, <1>3, <1>4, <1>5, <2>1 DEF Order, Replaces
  <2> QED BY <2>2
<1>9. ContextTypes' /\ OneDigest'
  BY <1>1 DEF CInv, ContextTypes, OneDigest, CreateItem
<1> QED BY <1>7, <1>8, <1>9 DEF CInv

(* An item replaces the last one of a chain, or one that is in no chain.   *)
LEMMA ItemSuperseded ==
    ASSUME CInv, NEW i \in Items, NEW scope \in Scopes, NEW prior \in Items,
           SupersedeItem(i, scope, prior)
    PROVE  CInv'
<1> DEFINE row == [status |-> "ACTIVE", scope |-> scope, supersedes |-> prior]
           old == [items[prior] EXCEPT !.status = "SUPERSEDED"]
<1>1. /\ items \in [Items -> ItemRow \cup {NoItem}] /\ row \in ItemRow
      /\ i # prior /\ i \notin StoredItems /\ scope \in known /\ known' = known
      /\ prior \in StoredItems /\ Successors(prior) = {}
      /\ items[prior].scope = scope
  BY DEF CInv, ContextTypes, SupersedeItem, ItemRow, ItemStatuses
<1>2. items[prior] \in ItemRow
  BY <1>1 DEF StoredItems, NoItem
<1>3. /\ old \in ItemRow /\ old.status = "SUPERSEDED" /\ old.scope = scope
      /\ old.supersedes = items[prior].supersedes
  BY <1>1, <1>2 DEF ItemRow, ItemStatuses
<1>4. row.status = "ACTIVE" /\ row.scope = scope /\ row.supersedes = prior
  OBVIOUS
<1>5. items' = [items EXCEPT ![i] = row, ![prior] = old]
  BY <1>1 DEF SupersedeItem, Replaced
<1> HIDE DEF row, old
<1>6. /\ items'[i] = row /\ items'[prior] = old
      /\ \A x \in Items : x \notin {i, prior} => items'[x] = items[x]
  BY <1>1, <1>5
<1>7. StoredItems' = StoredItems \cup {i}
  BY <1>1, <1>3, <1>4, <1>6 DEF StoredItems
<1>8. \A x \in StoredItems : /\ x \in Items /\ x # i /\ items'[x].scope = items[x].scope
                             /\ items'[x].supersedes = items[x].supersedes
                             /\ x # prior => items'[x] = items[x]
  BY <1>1, <1>3, <1>6 DEF StoredItems
<1>9. Successors(prior)' = {i} /\ \A x \in Items \ {prior} : Successors(x)' = Successors(x)
  BY <1>1, <1>4, <1>6, <1>7, <1>8 DEF Successors
<1>10. Successors(i)' = {}
  <2>1. ASSUME NEW s \in StoredItems, items[s].supersedes = i PROVE FALSE
    BY <1>1, <2>1, NamesAssumption DEF CInv, Linked, LinkValid, Replaces
  <2> QED BY <1>1, <1>9, <2>1 DEF Successors
<1>11. ASSUME NEW x \in StoredItems' PROVE Linked(x)'
  <2>1. CASE x = i
    BY <1>1, <1>3, <1>4, <1>6, <1>7, <1>9, <2>1 DEF Linked, Replaces, LinkValid
  <2>2. CASE x # i
    <3>1. x \in StoredItems /\ Linked(x) /\ x \in Items
      BY <1>7, <1>8, <1>11, <2>2 DEF CInv
    <3>2. Replaces(x) => LET p == items[x].supersedes IN
             p \in StoredItems /\ p # prior /\ items'[p] = items[p] /\ p \in Items
      BY <1>1, <1>8, <3>1 DEF Linked, LinkValid, Replaces, Successors
    <3>3. items'[x].status \in {items[x].status, "SUPERSEDED"} /\ (x # prior => items'[x] = items[x])
      BY <1>3, <1>6, <1>8, <3>1
    <3> QED BY <1>1, <1>7, <1>8, <1>9, <3>1, <3>2, <3>3 DEF Linked, Replaces, LinkValid
  <2> QED BY <2>1, <2>2
<1>12. \E before : Order(before)'
  <2>1. PICK before : Order(before)
    BY DEF CInv
  <2>0. PICK after : after = before \cup {<<x, i>> : x \in StoredItems}
    OBVIOUS
  <2>2. \A x, y : <<x, y>> \in after <=> <<x, y>> \in before \/ (y = i /\ x \in StoredItems)
    BY <2>0
  <2>3. after \subseteq StoredItems' \X StoredItems'
    BY <1>7, <2>0, <2>1 DEF Order
  <2>4. \A x, y : <<x, y>> \in before => x \in StoredItems /\ y \in StoredItems
    BY <2>1 DEF Order
  <2>5. \A x : <<x, x>> \notin after
    BY <1>1, <2>1, <2>2 DEF Order
  <2>6. \A x, y, z : <<x, y>> \in after /\ <<y, z>> \in after => <<x, z>> \in after
    BY <1>1, <2>1, <2>2, <2>4 DEF Order
  <2>7. ASSUME NEW x \in StoredItems', Replaces(x)' PROVE <<items'[x].supersedes, x>> \in after
    <3>1. CASE x = i
      BY <1>1, <1>4, <1>6, <2>2, <3>1
    <3>2. CASE x # i
      BY <1>7, <1>8, <2>1, <2>2, <2>7, <3>2 DEF Order, Replaces
    <3> QED BY <3>1, <3>2
  <2>8. Order(after)'
    BY <2>3, <2>5, <2>6, <2>7 DEF Order
  <2> QED BY <2>8
<1>13. ContextTypes' /\ OneDigest'
  BY <1>1, <1>3, <1>5 DEF CInv, ContextTypes, OneDigest, SupersedeItem
<1> QED BY <1>11, <1>12, <1>13 DEF CInv

(* Steps that leave the items as they are.                                 *)
LEMMA ItemsKept ==
    ASSUME CInv, UNCHANGED items, known \subseteq known', ContextTypes', OneDigest'
    PROVE  CInv'
<1>1. StoredItems' = StoredItems
  BY DEF StoredItems
<1>2. \A x : Successors(x)' = Successors(x)
  BY <1>1 DEF Successors
<1>3. ASSUME NEW x \in StoredItems' PROVE Linked(x)'
  <2>1. Linked(x)
    BY <1>1, <1>3 DEF CInv
  <2> QED BY <1>1, <1>2, <2>1 DEF Linked, Replaces, LinkValid
<1>4. \E before : Order(before)'
  BY <1>1 DEF CInv, Order, Replaces
<1> QED BY <1>3, <1>4 DEF CInv

LEMMA DigestInserted ==
    ASSUME CInv, NEW w \in Writers, InsertDigest(w) PROVE CInv'
<1> DEFINE d == writing[w].digest
           scope == writing[w].scope
<1>1. d \in Digests /\ scope \in Scopes /\ UNCHANGED <<known, items>>
  BY DEF CInv, ContextTypes, InsertDigest
<1>2. digests' = digests \/ (DigestAccepted(d, scope) /\ digests' = [digests EXCEPT ![d] = scope])
  BY DEF InsertDigest
<1>3. writing' \in [Writers -> [digest : Digests, scope : Scopes] \cup {Idle}]
  BY DEF CInv, ContextTypes, InsertDigest
<1> HIDE DEF d, scope
<1>4. ContextTypes' /\ OneDigest'
  <2>1. digests \in [Digests -> Scopes \cup {NoDigest}] /\ OneDigest
    BY DEF CInv, ContextTypes
  <2>2. OneDigest'
    BY <1>1, <1>2, <2>1, NamesAssumption DEF OneDigest, DigestAccepted
  <2>3. digests' \in [Digests -> Scopes \cup {NoDigest}]
    BY <1>1, <1>2, <2>1
  <2> QED BY <1>1, <1>3, <2>2, <2>3 DEF CInv, ContextTypes
<1> QED BY <1>1, <1>4, ItemsKept

LEMMA ContextKept == CInv /\ [ContextNext]_contextVars => CInv'
<1> SUFFICES ASSUME CInv, [ContextNext]_contextVars PROVE CInv'
  OBVIOUS
<1>1. ASSUME NEW scope \in Scopes, ScopeCreated(scope) PROVE CInv'
  BY <1>1, ItemsKept DEF ScopeCreated, CInv, ContextTypes, OneDigest
<1>2. ASSUME NEW scope \in Scopes, NEW w \in Writers, NEW d \in Digests,
             CheckDigest(w, d, scope)
      PROVE  CInv'
  BY <1>2, ItemsKept DEF CheckDigest, CInv, ContextTypes, OneDigest
<1>3. CASE UNCHANGED contextVars
  BY <1>3, ItemsKept DEF contextVars, CInv, ContextTypes, OneDigest
<1> QED BY <1>1, <1>2, <1>3, ItemCreated, ItemSuperseded, DigestInserted DEF ContextNext

(* Every chain of context items can be followed in both directions, and a  *)
(* scope has at most one digest, whoever creates, replaces and digests     *)
(* what at the same time (task-storage.ts, createContextItem,              *)
(* supersedeContextItem, createContextDigest).                             *)
THEOREM ContextStaysReadable == ContextSpec => []ContextReadable
<1>1. ContextSpec => []CInv
  BY ContextStarts, ContextKept, PTL DEF ContextSpec
<1> QED BY <1>1, ContextIsReadable, PTL

-----------------------------------------------------------------------------
(* From the creation of its lock until it has removed it, and of its       *)
(* session, and processes that will never act on a file again.             *)
SessionSteps == {"WRITE_SESSION", "READY", "SERVING", "DRAINING", "STUCK",
                 "UNDO_SESSION", "CLOSE_SESSION"}
LockSteps == SessionSteps \cup {"WRITE_LOCK", "CHECK", "OPEN", "LISTEN",
                                "UNDO_LOCK", "CLOSE_LOCK"}
Stopped   == {"GONE", "CONNECTED", "OTHER"}

Steps     == LockSteps \cup Stopped \cup
    {"ABSENT", "RECOVER", "PARSE_LOCK", "PROBE", "CHECK_SESSION",
     "DROP_SESSION", "CHECK_LOCK", "DROP_LOCK", "READ", "PARSE_SESSION",
     "LOCK"}

Files == [by : Programs, full : BOOLEAN]
Types ==
    /\ lockFile \in SUBSET Files /\ sessionFile \in SUBSET Files
    /\ at \in [Programs -> Steps]
    /\ met \in [Programs -> SUBSET Programs]
    /\ raced \in BOOLEAN

(* The lock is that of the process that relies on it. *)
LockOf(p) == at[p] \in LockSteps =>
    /\ \A f \in lockFile : f.by = p
    /\ at[p] = "WRITE_LOCK" => Of(lockFile, p)
    /\ at[p] # "WRITE_LOCK" => Whole(lockFile, p)

(* Files are left only by processes that stopped, sessions under a lock.   *)
LockBy(f)    == at[f.by] \in LockSteps \cup Stopped
SessionBy(f) == at[f.by] \in SessionSteps \cup Stopped /\ Whole(lockFile, f.by)

Removing == {"CHECK_SESSION", "DROP_SESSION", "CHECK_LOCK", "DROP_LOCK"}

(* A recovery only goes on for the owner of a lock that has stopped, whose *)
(* session is gone before its lock is.                                     *)
RecoveryOf(p) == \A owner \in met[p] :
    /\ at[p] \in {"PARSE_LOCK", "PROBE"} =>
          at[owner] \in LockSteps \cup Stopped
    /\ at[p] \in Removing => at[owner] \in Stopped
    /\ at[p] \in {"CHECK_LOCK", "DROP_LOCK"} => ~Of(sessionFile, owner)

Sound ==
    /\ \A p \in Programs : LockOf(p) /\ RecoveryOf(p)
    /\ \A f \in lockFile : LockBy(f)
    /\ \A f \in sessionFile : SessionBy(f)
Single == \A p \in Programs : \A x, y \in met[p] : x = y
AInv  == Types /\ Single /\ (raced \/ Sound)

-----------------------------------------------------------------------------
(* Files and steps *)

LEMMA WholeIsOf == ASSUME NEW file, NEW p, Whole(file, p) PROVE Of(file, p)
BY DEF Whole, Of

(* A whole file of p is written by p, who has created it.                  *)
LEMMA FilledIsWhole ==
    ASSUME NEW file \in SUBSET Files, NEW p \in Programs, Of(file, p)
    PROVE  Whole(Filled(file, p), p)
<1>1. PICK f \in file : f.by = p
  BY DEF Of
<1> QED BY <1>1 DEF Filled, Whole

LEMMA FilledFiles ==
    ASSUME NEW file \in SUBSET Files, NEW p \in Programs
    PROVE  /\ Filled(file, p) \in SUBSET Files
           /\ \A g \in Filled(file, p) : \E f \in file : g.by = f.by
<1>1. ASSUME NEW g \in Filled(file, p)
      PROVE  g \in Files /\ \E f \in file : g.by = f.by
  <2>1. PICK f \in file : g = IF f.by = p THEN [by |-> p, full |-> TRUE] ELSE f
    BY DEF Filled
  <2>2. CASE f.by = p
    BY <2>1, <2>2 DEF Files
  <2>3. CASE f.by # p
    BY <2>1, <2>3
  <2> QED BY <2>2, <2>3
<1> QED BY <1>1

LEMMA EmptyFile ==
    ASSUME NEW p \in Programs
    PROVE  /\ Empty(p) \in SUBSET Files /\ Of(Empty(p), p)
           /\ \A f \in Empty(p) : f.by = p
BY DEF Empty, Files, Of

(* Only the step of p changes.                                             *)
Others(p) == \A q \in Programs : q # p => at'[q] = at[q] /\ met'[q] = met[q]

(* A process goes on among the steps in which it relies on its lock, stops *)
(* for ever, or goes on before it has a lock.                              *)
GoesOn(p) ==
    \/ at'[p] \in Stopped
    \/ /\ at[p] \in LockSteps \ {"WRITE_LOCK"}
       /\ at'[p] \in LockSteps \ {"WRITE_LOCK"}
       /\ Of(sessionFile', p) => at'[p] \in SessionSteps
    \/ at[p] \notin LockSteps \cup Stopped /\ at'[p] \notin LockSteps

(* A session is left or relied on by its daemon. *)
LEMMA OwnSession ==
    ASSUME Types, Sound, NEW p \in Programs, Of(sessionFile, p)
    PROVE  at[p] \in SessionSteps \cup Stopped
BY DEF Sound, SessionBy, Of

(* The recovery of every other process is not disturbed.                   *)
LEMMA OtherRecoveries ==
    ASSUME Types, Sound, NEW p \in Programs, Others(p),
           at[p] \in LockSteps \cup Stopped =>
               at'[p] \in LockSteps \cup Stopped,
           at[p] \in Stopped => at'[p] \in Stopped,
           \A owner \in Programs :
               at[owner] \in Stopped /\ Of(sessionFile', owner) =>
                   Of(sessionFile, owner)
    PROVE  \A q \in Programs : q # p => RecoveryOf(q)'
<1>1. ASSUME NEW q \in Programs, q # p, NEW owner \in met[q]
      PROVE  /\ at[q] \in {"PARSE_LOCK", "PROBE"} =>
                   at'[owner] \in LockSteps \cup Stopped
             /\ at[q] \in Removing => at'[owner] \in Stopped
             /\ at[q] \in {"CHECK_LOCK", "DROP_LOCK"} =>
                   ~Of(sessionFile', owner)
  <2>1. owner \in Programs /\ RecoveryOf(q)
    BY <1>1 DEF Types, Sound
  <2>2. owner # p => at'[owner] = at[owner]
    BY <2>1 DEF Others
  <2> QED BY <1>1, <2>1, <2>2 DEF RecoveryOf, Removing
<1> QED BY <1>1 DEF RecoveryOf, Removing, Others

(* A step that leaves the files as they are. *)
LEMMA WalkSound ==
    ASSUME Types, Sound, NEW p \in Programs, Others(p), GoesOn(p),
           RecoveryOf(p)', UNCHANGED <<lockFile, sessionFile>>
    PROVE  Sound'
<1>1. ASSUME NEW q \in Programs PROVE LockOf(q)'
  <2>1. LockOf(q)
    BY DEF Sound
  <2>2. at'[q] \in LockSteps =>
            /\ at[q] \in LockSteps
            /\ at[q] = "WRITE_LOCK" <=> at'[q] = "WRITE_LOCK"
    BY DEF GoesOn, Others, Stopped, LockSteps, SessionSteps
  <2> QED BY <2>1, <2>2 DEF LockOf
<1>2. \A q \in Programs : q # p => RecoveryOf(q)'
  BY OtherRecoveries DEF GoesOn, LockSteps, SessionSteps, Stopped
<1>3. ASSUME NEW f \in lockFile PROVE at'[f.by] \in LockSteps \cup Stopped
  BY DEF Types, Files, Sound, LockBy, GoesOn, Others
<1>4. ASSUME NEW f \in sessionFile
      PROVE  at'[f.by] \in SessionSteps \cup Stopped /\ Whole(lockFile, f.by)
  <2>1. f.by \in Programs /\ SessionBy(f) /\ Of(sessionFile, f.by)
    BY DEF Types, Files, Sound, Of
  <2> QED BY <2>1 DEF SessionBy, GoesOn, Others, LockSteps, SessionSteps,
             Stopped
<1> QED BY <1>1, <1>2, <1>3, <1>4 DEF Sound, LockBy, SessionBy

(* A process that relies on its lock gives it up; no session is its own.   *)
LEMMA LockGiven ==
    ASSUME Types, Sound, NEW p \in Programs, Others(p),
           at[p] \in LockSteps \ SessionSteps, at'[p] \in Stopped,
           lockFile' = Less(lockFile, p), UNCHANGED sessionFile
    PROVE  Sound'
<1>1. lockFile' = {}
  BY DEF Sound, LockOf, Less
<1>2. sessionFile = {}
  <2>1. ASSUME NEW f \in sessionFile PROVE FALSE
    <3>1. SessionBy(f) /\ LockOf(p) /\ f.by \in Programs
      BY <2>1 DEF Sound, Types, Files
    <3>2. f.by = p
      BY <3>1 DEF SessionBy, LockOf, Whole
    <3> QED BY <3>1, <3>2 DEF SessionBy, Stopped, LockSteps, SessionSteps
  <2> QED BY <2>1
<1>3. \A q \in Programs : q # p => at[q] \notin LockSteps
  <2>1. Of(lockFile, p)
    BY WholeIsOf DEF Sound, LockOf
  <2> QED BY <2>1 DEF Sound, LockOf, Of
<1>4. \A q \in Programs : q # p => RecoveryOf(q)'
  BY OtherRecoveries DEF LockSteps, SessionSteps, Stopped
<1>5. RecoveryOf(p)'
  BY DEF RecoveryOf, Removing, Stopped
<1>6. \A q \in Programs : LockOf(q)'
  BY <1>3 DEF LockOf, Others, Stopped, LockSteps, SessionSteps
<1> QED BY <1>1, <1>2, <1>4, <1>5, <1>6 DEF Sound

(* A process that relies on its lock removes its session. *)
LEMMA SessionGiven ==
    ASSUME Types, Sound, NEW p \in Programs, Others(p),
           at[p] \in SessionSteps,
           at'[p] \in Stopped \cup (LockSteps \ {"WRITE_LOCK"}),
           sessionFile' = Less(sessionFile, p), UNCHANGED lockFile
    PROVE  Sound'
<1>1. sessionFile' = {}
  <2>1. ASSUME NEW f \in sessionFile PROVE f.by = p
    <3>1. SessionBy(f) /\ LockOf(p)
      BY <2>1 DEF Sound
    <3> QED BY <3>1 DEF SessionBy, LockOf, Whole, LockSteps
  <2> QED BY <2>1 DEF Less
<1>2. ASSUME NEW q \in Programs PROVE LockOf(q)'
  <2>1. LockOf(q)
    BY DEF Sound
  <2> QED BY <2>1 DEF LockOf, Others, Stopped, LockSteps, SessionSteps
<1>3. \A q \in Programs : q # p => RecoveryOf(q)'
  BY <1>1, OtherRecoveries DEF LockSteps, SessionSteps, Stopped, Of
<1>4. RecoveryOf(p)'
  BY DEF RecoveryOf, Removing, LockSteps, SessionSteps, Stopped
<1>5. ASSUME NEW f \in lockFile PROVE at'[f.by] \in LockSteps \cup Stopped
  BY DEF Types, Files, Sound, LockBy, Others
<1> QED BY <1>1, <1>2, <1>3, <1>4, <1>5 DEF Sound, LockBy

-----------------------------------------------------------------------------
(* The operations *)

LEMMA LaunchSound ==
    ASSUME AInv, ~raced', NEW p \in Programs, Launch(p)
    PROVE  Sound'
<1>1. Types /\ Sound /\ Others(p) /\ UNCHANGED <<lockFile, sessionFile>>
  BY DEF AInv, Types, Launch, From, Others
<1>2. GoesOn(p)
  BY <1>1 DEF Types, Launch, From, GoesOn, LockSteps, SessionSteps, Stopped
<1>3. RecoveryOf(p)'
  BY DEF Types, AInv, RecoveryOf, Removing, Launch, From
<1> QED BY <1>1, <1>2, <1>3, WalkSound

LEMMA OpenLockSound ==
    ASSUME AInv, ~raced', NEW p \in Programs, OpenLock(p)
    PROVE  Sound'
<1>1. Types /\ Sound /\ Others(p) /\ UNCHANGED <<lockFile, sessionFile>>
  BY DEF AInv, Types, OpenLock, From, Others
<1>2. GoesOn(p)
  BY <1>1 DEF Types, OpenLock, From, GoesOn, LockSteps, SessionSteps, Stopped
<1>3. RecoveryOf(p)'
  BY <1>1 DEF Types, Sound, LockBy, RecoveryOf, Removing, OpenLock, From,
     LockSteps, SessionSteps, Stopped, Of, Whole, Files
<1> QED BY <1>1, <1>2, <1>3, WalkSound

LEMMA ParseLockSound ==
    ASSUME AInv, ~raced', NEW p \in Programs, ParseLock(p)
    PROVE  Sound'
<1>1. Types /\ Sound /\ Others(p) /\ UNCHANGED <<lockFile, sessionFile>>
  BY DEF AInv, Types, ParseLock, From, Others
<1>2. GoesOn(p)
  BY <1>1 DEF Types, ParseLock, From, GoesOn, LockSteps, SessionSteps, Stopped
<1>3. RecoveryOf(p)'
  BY <1>1 DEF Types, Sound, LockBy, RecoveryOf, Removing, ParseLock, From,
     LockSteps, SessionSteps, Stopped, Of, Whole, Files
<1> QED BY <1>1, <1>2, <1>3, WalkSound

LEMMA ProbeSound ==
    ASSUME AInv, ~raced', NEW p \in Programs, Probe(p)
    PROVE  Sound'
<1>1. Types /\ Sound /\ Others(p) /\ UNCHANGED <<lockFile, sessionFile>>
  BY DEF AInv, Types, Probe, From, Others
<1>2. GoesOn(p)
  BY <1>1 DEF Types, Probe, From, GoesOn, LockSteps, SessionSteps, Stopped,
     Alive, Over
<1>3. RecoveryOf(p)'
  <2>1. ASSUME NEW owner \in met[p], ~Alive(owner)
        PROVE  at'[owner] \in Stopped
    <3>1. owner \in Programs /\ at[p] = "PROBE" /\ RecoveryOf(p)
      BY <1>1 DEF Types, Sound, Probe, From
    <3>2. at[owner] \in Stopped
      BY <2>1, <3>1 DEF RecoveryOf, Removing, Alive, Over, LockSteps,
         SessionSteps, Stopped
    <3> QED BY <1>1, <3>1, <3>2 DEF Others, Stopped
  <2>2. /\ met'[p] = met[p]
        /\ at'[p] \notin {"PARSE_LOCK", "PROBE", "DROP_SESSION", "DROP_LOCK"}
    BY <1>1 DEF Probe, From, Types
  <2>3. at'[p] \in {"CHECK_SESSION", "CHECK_LOCK"} =>
            \A owner \in met[p] : ~Alive(owner)
    BY <1>1 DEF Probe, From, Types, AInv, Single
  <2>4. at'[p] = "CHECK_LOCK" => sessionFile' = {}
    BY <1>1 DEF Probe, From, Types
  <2> QED BY <2>1, <2>2, <2>3, <2>4 DEF RecoveryOf, Removing, Of
<1> QED BY <1>1, <1>2, <1>3, WalkSound

LEMMA CheckSessionSound ==
    ASSUME AInv, ~raced', NEW p \in Programs, CheckSession(p)
    PROVE  Sound'
<1>1. Types /\ Sound /\ Others(p) /\ UNCHANGED <<lockFile, sessionFile>>
  BY DEF AInv, Types, CheckSession, From, Others
<1>2. GoesOn(p)
  BY <1>1 DEF Types, CheckSession, From, GoesOn, LockSteps, SessionSteps,
     Stopped
<1>3. RecoveryOf(p)'
  BY <1>1 DEF Types, Sound, LockBy, RecoveryOf, Removing, CheckSession, From,
     LockSteps, SessionSteps, Stopped, Of, Whole, Files
<1> QED BY <1>1, <1>2, <1>3, WalkSound

LEMMA CheckLockSound ==
    ASSUME AInv, ~raced', NEW p \in Programs, CheckLock(p)
    PROVE  Sound'
<1>1. Types /\ Sound /\ Others(p) /\ UNCHANGED <<lockFile, sessionFile>>
  BY DEF AInv, Types, CheckLock, From, Others
<1>2. GoesOn(p)
  BY <1>1 DEF Types, CheckLock, From, GoesOn, LockSteps, SessionSteps, Stopped
<1>3. RecoveryOf(p)'
  BY <1>1 DEF Types, Sound, LockBy, RecoveryOf, Removing, CheckLock, From,
     LockSteps, SessionSteps, Stopped, Of, Whole, Files
<1> QED BY <1>1, <1>2, <1>3, WalkSound

LEMMA OpenSessionSound ==
    ASSUME AInv, ~raced', NEW p \in Programs, OpenSession(p)
    PROVE  Sound'
<1>1. Types /\ Sound /\ Others(p) /\ UNCHANGED <<lockFile, sessionFile>>
  BY DEF AInv, Types, OpenSession, From, Others
<1>2. GoesOn(p)
  BY <1>1 DEF Types, OpenSession, From, GoesOn, LockSteps, SessionSteps,
     Stopped
<1>3. RecoveryOf(p)'
  BY DEF Types, AInv, RecoveryOf, Removing, OpenSession, From
<1> QED BY <1>1, <1>2, <1>3, WalkSound

LEMMA ParseSessionSound ==
    ASSUME AInv, ~raced', NEW p \in Programs, ParseSession(p)
    PROVE  Sound'
<1>1. Types /\ Sound /\ Others(p) /\ UNCHANGED <<lockFile, sessionFile>>
  BY DEF AInv, Types, ParseSession, From, Others
<1>2. GoesOn(p)
  BY <1>1 DEF Types, ParseSession, From, GoesOn, LockSteps, SessionSteps,
     Stopped
<1>3. RecoveryOf(p)'
  BY DEF Types, AInv, RecoveryOf, Removing, ParseSession, From
<1> QED BY <1>1, <1>2, <1>3, WalkSound

LEMMA RefusedSound ==
    ASSUME AInv, ~raced', NEW p \in Programs, Refused(p)
    PROVE  Sound'
<1>1. Types /\ Sound /\ Others(p) /\ UNCHANGED <<lockFile, sessionFile>>
  BY DEF AInv, Types, Refused, From, Others
<1>2. GoesOn(p)
  BY <1>1 DEF Types, Refused, From, GoesOn, LockSteps, SessionSteps, Stopped
<1>3. RecoveryOf(p)'
  BY DEF Types, AInv, RecoveryOf, Removing, Refused, From
<1> QED BY <1>1, <1>2, <1>3, WalkSound

LEMMA CheckSound ==
    ASSUME AInv, ~raced', NEW p \in Programs, Check(p)
    PROVE  Sound'
<1>1. Types /\ Sound /\ Others(p) /\ UNCHANGED <<lockFile, sessionFile>>
  BY DEF AInv, Types, Check, From, Others
<1>2. GoesOn(p)
  BY <1>1, OwnSession, WholeIsOf DEF Types, Sound, LockOf, Check, From, GoesOn,
     LockSteps, SessionSteps, Stopped, Of, Whole, Files
<1>3. RecoveryOf(p)'
  BY DEF Types, AInv, RecoveryOf, Removing, Check, From
<1> QED BY <1>1, <1>2, <1>3, WalkSound

LEMMA OpenDatabaseSound ==
    ASSUME AInv, ~raced', NEW p \in Programs, OpenDatabase(p)
    PROVE  Sound'
<1>1. Types /\ Sound /\ Others(p) /\ UNCHANGED <<lockFile, sessionFile>>
  BY DEF AInv, Types, OpenDatabase, From, Others
<1>2. GoesOn(p)
  BY <1>1, OwnSession, WholeIsOf DEF Types, Sound, LockOf, OpenDatabase, From,
     GoesOn, LockSteps, SessionSteps, Stopped, Of, Whole, Files
<1>3. RecoveryOf(p)'
  BY DEF Types, AInv, RecoveryOf, Removing, OpenDatabase, From
<1> QED BY <1>1, <1>2, <1>3, WalkSound

LEMMA ReadySound ==
    ASSUME AInv, ~raced', NEW p \in Programs, Ready(p)
    PROVE  Sound'
<1>1. Types /\ Sound /\ Others(p) /\ UNCHANGED <<lockFile, sessionFile>>
  BY DEF AInv, Types, Ready, From, Others
<1>2. GoesOn(p)
  BY <1>1 DEF Types, Ready, From, GoesOn, LockSteps, SessionSteps, Stopped
<1>3. RecoveryOf(p)'
  BY DEF Types, AInv, RecoveryOf, Removing, Ready, From
<1> QED BY <1>1, <1>2, <1>3, WalkSound

LEMMA StopSound ==
    ASSUME AInv, ~raced', NEW p \in Programs, Stop(p)
    PROVE  Sound'
<1>1. Types /\ Sound /\ Others(p) /\ UNCHANGED <<lockFile, sessionFile>>
  BY DEF AInv, Types, Stop, From, Others
<1>2. GoesOn(p)
  BY <1>1 DEF Types, Stop, From, GoesOn, LockSteps, SessionSteps, Stopped
<1>3. RecoveryOf(p)'
  BY DEF Types, AInv, RecoveryOf, Removing, Stop, From
<1> QED BY <1>1, <1>2, <1>3, WalkSound

LEMMA DrainedSound ==
    ASSUME AInv, ~raced', NEW p \in Programs, Drained(p)
    PROVE  Sound'
<1>1. Types /\ Sound /\ Others(p) /\ UNCHANGED <<lockFile, sessionFile>>
  BY DEF AInv, Types, Drained, From, Others
<1>2. GoesOn(p)
  BY <1>1 DEF Types, Drained, From, GoesOn, LockSteps, SessionSteps, Stopped
<1>3. RecoveryOf(p)'
  BY DEF Types, AInv, RecoveryOf, Removing, Drained, From
<1> QED BY <1>1, <1>2, <1>3, WalkSound

LEMMA KilledSound ==
    ASSUME AInv, ~raced', NEW p \in Programs, Killed(p)
    PROVE  Sound'
<1>1. Types /\ Sound /\ Others(p) /\ UNCHANGED <<lockFile, sessionFile>>
  BY DEF AInv, Types, Killed, From, Others
<1>2. GoesOn(p)
  BY <1>1 DEF Types, Killed, From, GoesOn, LockSteps, SessionSteps, Stopped,
     Running, Over
<1>3. RecoveryOf(p)'
  BY DEF Types, AInv, RecoveryOf, Removing, Killed, From
<1> QED BY <1>1, <1>2, <1>3, WalkSound

LEMMA ReusedSound ==
    ASSUME AInv, ~raced', NEW p \in Programs, Reused(p)
    PROVE  Sound'
<1>1. Types /\ Sound /\ Others(p) /\ UNCHANGED <<lockFile, sessionFile>>
  BY DEF AInv, Types, Reused, From, Others
<1>2. GoesOn(p)
  BY <1>1 DEF Types, Reused, From, GoesOn, LockSteps, SessionSteps, Stopped
<1>3. RecoveryOf(p)'
  BY DEF Types, AInv, RecoveryOf, Removing, Reused, From
<1> QED BY <1>1, <1>2, <1>3, WalkSound

LEMMA UndoLockSound ==
    ASSUME AInv, ~raced', NEW p \in Programs, UndoLock(p)
    PROVE  Sound'
<1>1. Types /\ Sound /\ Others(p)
  BY DEF AInv, Types, UndoLock, From, Others
<1>2. /\ at[p] \in LockSteps \ SessionSteps /\ at'[p] \in Stopped
      /\ lockFile' = Less(lockFile, p) /\ UNCHANGED sessionFile
  BY <1>1 DEF Types, UndoLock, From, LockSteps, SessionSteps, Stopped
<1> QED BY <1>1, <1>2, LockGiven

LEMMA CloseLockSound ==
    ASSUME AInv, ~raced', NEW p \in Programs, CloseLock(p)
    PROVE  Sound'
<1>1. Types /\ Sound /\ Others(p)
  BY DEF AInv, Types, CloseLock, From, Others
<1>2. /\ at[p] \in LockSteps \ SessionSteps /\ at'[p] \in Stopped
      /\ lockFile' = Less(lockFile, p) /\ UNCHANGED sessionFile
  BY <1>1 DEF Types, CloseLock, From, LockSteps, SessionSteps, Stopped
<1> QED BY <1>1, <1>2, LockGiven

LEMMA UndoSessionSound ==
    ASSUME AInv, ~raced', NEW p \in Programs, UndoSession(p)
    PROVE  Sound'
<1>1. Types /\ Sound /\ Others(p)
  BY DEF AInv, Types, UndoSession, From, Others
<1>2. /\ at[p] \in SessionSteps
      /\ at'[p] \in Stopped \cup (LockSteps \ {"WRITE_LOCK"})
      /\ sessionFile' = Less(sessionFile, p) /\ UNCHANGED lockFile
  BY <1>1 DEF Types, UndoSession, From, LockSteps, SessionSteps, Stopped
<1> QED BY <1>1, <1>2, SessionGiven

LEMMA CloseSessionSound ==
    ASSUME AInv, ~raced', NEW p \in Programs, CloseSession(p)
    PROVE  Sound'
<1>1. Types /\ Sound /\ Others(p)
  BY DEF AInv, Types, CloseSession, From, Others
<1>2. /\ at[p] \in SessionSteps
      /\ at'[p] \in Stopped \cup (LockSteps \ {"WRITE_LOCK"})
      /\ sessionFile' = Less(sessionFile, p) /\ UNCHANGED lockFile
  BY <1>1 DEF Types, CloseSession, From, LockSteps, SessionSteps, Stopped
<1> QED BY <1>1, <1>2, SessionGiven

LEMMA WriteLockSound ==
    ASSUME AInv, ~raced', NEW p \in Programs, WriteLock(p)
    PROVE  Sound'
<1>1. Types /\ Sound /\ Others(p)
  BY DEF AInv, Types, WriteLock, From, Others
<1>2. CASE at'[p] = "GONE" /\ lockFile' = Less(lockFile, p)
  <2>1. /\ at[p] \in LockSteps \ SessionSteps /\ at'[p] \in Stopped
        /\ UNCHANGED sessionFile
    BY <1>2 DEF WriteLock, From, LockSteps, SessionSteps, Stopped
  <2> QED BY <1>1, <1>2, <2>1, LockGiven
<1>3. CASE at'[p] = "CHECK" /\ lockFile' = Filled(lockFile, p)
  <2>1. at[p] = "WRITE_LOCK" /\ UNCHANGED <<sessionFile, met>> /\ LockOf(p)
    BY <1>1 DEF WriteLock, From, Sound
  <2>2. Of(lockFile, p) /\ \A f \in lockFile : f.by = p
    BY <2>1 DEF LockOf, LockSteps
  <2>3. Whole(lockFile', p) /\ \A f \in lockFile' : f.by = p
    BY <1>1, <1>3, <2>2, FilledIsWhole, FilledFiles DEF Types
  <2>4. sessionFile = {}
    <3>1. ASSUME NEW f \in sessionFile PROVE FALSE
      <4>1. f.by = p
        BY <1>1, <2>2 DEF Sound, SessionBy, Whole
      <4> QED BY <1>1, <2>1, <4>1 DEF Sound, SessionBy, SessionSteps, Stopped
    <3> QED BY <3>1
  <2>5. \A q \in Programs : q # p => RecoveryOf(q)'
    BY <1>1, <1>3, <2>1, OtherRecoveries DEF LockSteps, SessionSteps, Stopped
  <2>6. RecoveryOf(p)'
    BY <1>3 DEF RecoveryOf, Removing
  <2>7. \A q \in Programs : LockOf(q)'
    BY <1>1, <1>3, <2>2, <2>3 DEF Sound, LockOf, Others, Of
  <2>8. \A f \in lockFile' : LockBy(f)'
    BY <1>3, <2>3 DEF LockBy, LockSteps
  <2> QED BY <2>1, <2>4, <2>5, <2>6, <2>7, <2>8 DEF Sound
<1> QED BY <1>1, <1>2, <1>3 DEF WriteLock, From, Types

LEMMA CreateLockSound ==
    ASSUME AInv, ~raced', NEW p \in Programs, CreateLock(p)
    PROVE  Sound'
<1>1. Types /\ Sound /\ Others(p)
  BY DEF AInv, Types, CreateLock, From, Others
<1>2. /\ at[p] = "LOCK" /\ at'[p] = "WRITE_LOCK" /\ lockFile = {}
      /\ UNCHANGED <<sessionFile, met>>
  BY <1>1 DEF CreateLock, From, Types
<1>3. Of(lockFile', p) /\ \A f \in lockFile' : f.by = p
  BY EmptyFile DEF CreateLock
<1>4. sessionFile = {}
  BY <1>1, <1>2 DEF Sound, SessionBy, Whole
<1>5. \A q \in Programs : at[q] \notin LockSteps
  BY <1>1, <1>2 DEF Sound, LockOf, Of, Whole
<1>6. \A q \in Programs : q # p => RecoveryOf(q)'
  BY <1>1, <1>2, OtherRecoveries DEF LockSteps, SessionSteps, Stopped
<1>7. RecoveryOf(p)'
  BY <1>2 DEF RecoveryOf, Removing
<1>8. \A q \in Programs : LockOf(q)'
  BY <1>1, <1>2, <1>3, <1>5 DEF LockOf, Others
<1>9. \A f \in lockFile' : LockBy(f)'
  BY <1>2, <1>3 DEF LockBy, LockSteps
<1> QED BY <1>2, <1>4, <1>6, <1>7, <1>8, <1>9 DEF Sound

(* The files stay by p, which goes on with its lock. *)
LEMMA SessionMade ==
    ASSUME Types, Sound, NEW p \in Programs, Others(p),
           UNCHANGED <<lockFile, met>>, at[p] \in LockSteps \ {"WRITE_LOCK"},
           at'[p] \in SessionSteps,
           \A f \in sessionFile' : f.by = p
    PROVE  Sound'
<1>1. Whole(lockFile, p) /\ \A f \in lockFile : f.by = p
  BY DEF Sound, LockOf
<1>2. \A f \in sessionFile' : SessionBy(f)'
  BY <1>1 DEF SessionBy
<1>3. ASSUME NEW q \in Programs PROVE LockOf(q)'
  <2>1. LockOf(q)
    BY DEF Sound
  <2> QED BY <2>1 DEF LockOf, Others, LockSteps, SessionSteps
<1>4. \A q \in Programs : q # p => RecoveryOf(q)'
  BY OtherRecoveries DEF LockSteps, SessionSteps, Stopped, Of
<1>5. RecoveryOf(p)'
  BY DEF RecoveryOf, Removing, SessionSteps
<1>6. \A f \in lockFile : at'[f.by] \in LockSteps \cup Stopped
  BY <1>1 DEF LockSteps
<1> QED BY <1>2, <1>3, <1>4, <1>5, <1>6 DEF Sound, LockBy

LEMMA CreateSessionSound ==
    ASSUME AInv, ~raced', NEW p \in Programs, CreateSession(p)
    PROVE  Sound'
<1>1. Types /\ Sound /\ Others(p)
  BY DEF AInv, Types, CreateSession, From, Others
<1>2. CASE at'[p] = "WRITE_SESSION" /\ sessionFile' = Empty(p)
  <2>1. /\ at[p] \in LockSteps \ {"WRITE_LOCK"} /\ at'[p] \in SessionSteps
        /\ UNCHANGED <<lockFile, met>>
    BY <1>2 DEF CreateSession, From, LockSteps, SessionSteps
  <2> QED BY <1>1, <1>2, <2>1, EmptyFile, SessionMade
<1>3. CASE at'[p] = "UNDO_LOCK" /\ UNCHANGED sessionFile
  <2>1. at[p] = "LISTEN" /\ UNCHANGED <<lockFile, met>>
    BY DEF CreateSession, From
  <2>2. GoesOn(p) /\ RecoveryOf(p)'
    BY <1>1, <1>3, <2>1, OwnSession DEF GoesOn, RecoveryOf, Removing,
       LockSteps, SessionSteps, Stopped
  <2> QED BY <1>1, <1>3, <2>1, <2>2, WalkSound
<1> QED BY <1>1, <1>2, <1>3 DEF CreateSession, From, Types

LEMMA WriteSessionSound ==
    ASSUME AInv, ~raced', NEW p \in Programs, WriteSession(p)
    PROVE  Sound'
<1>1. Types /\ Sound /\ Others(p)
  BY DEF AInv, Types, WriteSession, From, Others
<1>2. at[p] = "WRITE_SESSION" /\ UNCHANGED <<lockFile, met>>
  BY DEF WriteSession, From
<1>3. CASE at'[p] = "READY" /\ sessionFile' = Filled(sessionFile, p)
  <2>1. ASSUME NEW f \in sessionFile PROVE f.by = p
    <3>1. SessionBy(f) /\ LockOf(p)
      BY <1>1, <2>1 DEF Sound
    <3> QED BY <1>2, <3>1 DEF SessionBy, LockOf, Whole, LockSteps, SessionSteps
  <2>2. \A f \in sessionFile' : f.by = p
    BY <1>1, <1>3, <2>1, FilledFiles DEF Types
  <2> QED BY <1>1, <1>2, <1>3, <2>2, SessionMade DEF LockSteps, SessionSteps
<1>4. CASE at'[p] = "UNDO_LOCK" /\ sessionFile' = Less(sessionFile, p)
  BY <1>1, <1>2, <1>4, SessionGiven DEF LockSteps, SessionSteps
<1> QED BY <1>1, <1>3, <1>4 DEF WriteSession, From, Types

LEMMA DropSessionSound ==
    ASSUME AInv, ~raced', NEW p \in Programs, DropSession(p)
    PROVE  Sound'
<1>1. Types /\ Sound /\ Others(p)
  BY DEF AInv, Types, DropSession, From, Others
<1>2. /\ at[p] = "DROP_SESSION" /\ at'[p] \in {"GONE", "CHECK_LOCK"}
      /\ sessionFile' = {} /\ UNCHANGED <<lockFile, met>>
  BY <1>1 DEF DropSession, From, Types
<1>3. \A q \in Programs : q # p => RecoveryOf(q)'
  BY <1>1, <1>2, OtherRecoveries DEF LockSteps, SessionSteps, Stopped, Of
<1>4. RecoveryOf(p)'
  <2>1. ASSUME NEW owner \in met[p] PROVE at'[owner] \in Stopped
    <3>1. owner \in Programs /\ at[owner] \in Stopped
      BY <1>1, <1>2 DEF Types, Sound, RecoveryOf, Removing
    <3> QED BY <1>1, <1>2, <3>1 DEF Others, Stopped
  <2> QED BY <1>2, <2>1 DEF RecoveryOf, Removing, Of
<1>5. \A q \in Programs : LockOf(q)'
  BY <1>1, <1>2 DEF Sound, LockOf, Others, LockSteps, SessionSteps
<1>6. \A f \in lockFile : at'[f.by] \in LockSteps \cup Stopped
  BY <1>1, <1>2 DEF Sound, LockBy, Others, Types, Files, LockSteps,
     SessionSteps, Stopped
<1> QED BY <1>2, <1>3, <1>4, <1>5, <1>6 DEF Sound, LockBy

LEMMA DropLockSound ==
    ASSUME AInv, ~raced', NEW p \in Programs, DropLock(p)
    PROVE  Sound'
<1>1. Types /\ Sound /\ Others(p)
  BY DEF AInv, Types, DropLock, From, Others
<1>2. PICK owner \in met[p] :
         /\ at[p] = "DROP_LOCK" /\ at'[p] \in {"GONE", "READ"}
         /\ lockFile' = {} /\ Less(lockFile, owner) = {}
         /\ UNCHANGED <<sessionFile, met>>
  BY <1>1 DEF DropLock, From, Types
<1>3. at[owner] \in Stopped /\ ~Of(sessionFile, owner) /\ owner \in Programs
  BY <1>1, <1>2 DEF Types, Sound, RecoveryOf, Removing
<1>4. \A f \in lockFile : f.by = owner
  BY <1>2 DEF Less
<1>5. sessionFile = {}
  <2>1. ASSUME NEW f \in sessionFile PROVE f.by = owner
    BY <1>1, <1>4, <2>1 DEF Sound, SessionBy, Whole
  <2> QED BY <1>3, <2>1 DEF Of
<1>6. \A q \in Programs : at[q] \notin LockSteps
  <2>1. ASSUME NEW q \in Programs, at[q] \in LockSteps PROVE q = owner
    <3>1. Of(lockFile, q)
      BY <1>1, <2>1, WholeIsOf DEF Sound, LockOf
    <3> QED BY <1>1, <1>4, <2>1, <3>1 DEF Sound, LockOf, Of
  <2> QED BY <1>3, <2>1 DEF LockSteps, SessionSteps, Stopped
<1>7. \A q \in Programs : q # p => RecoveryOf(q)'
  BY <1>1, <1>2, OtherRecoveries DEF LockSteps, SessionSteps, Stopped
<1>8. RecoveryOf(p)'
  BY <1>2 DEF RecoveryOf, Removing
<1>9. \A q \in Programs : LockOf(q)'
  BY <1>1, <1>2, <1>6 DEF LockOf, Others, LockSteps, SessionSteps
<1> QED BY <1>2, <1>5, <1>7, <1>8, <1>9 DEF Sound

-----------------------------------------------------------------------------
(* The invariant *)

LEMMA AuthorityStarts == AuthorityInit => AInv
BY DEF AuthorityInit, AInv, Types, Single, Sound, LockOf, RecoveryOf, Removing,
   Steps, LockSteps, SessionSteps

(* What a step changes keeps its type. *)
LEMMA TypesKept ==
    ASSUME AInv, NEW p \in Programs, AuthorityStep(p)
    PROVE  Types' /\ Single'
<1> USE DEF AInv, Types, Single, From, Less, Steps, LockSteps, SessionSteps,
            Stopped
<1>1. CASE Launch(p)
  BY <1>1 DEF Launch
<1>2. CASE OpenLock(p)
  BY <1>2 DEF OpenLock, Files
<1>3. CASE ParseLock(p)
  BY <1>3 DEF ParseLock
<1>4. CASE Probe(p)
  BY <1>4 DEF Probe
<1>5. CASE CheckSession(p)
  BY <1>5 DEF CheckSession
<1>6. CASE DropSession(p)
  BY <1>6 DEF DropSession
<1>7. CASE CheckLock(p)
  BY <1>7 DEF CheckLock
<1>8. CASE DropLock(p)
  BY <1>8 DEF DropLock
<1>9. CASE OpenSession(p)
  BY <1>9 DEF OpenSession, Files
<1>10. CASE ParseSession(p)
  BY <1>10 DEF ParseSession, Files
<1>11. CASE Refused(p)
  BY <1>11 DEF Refused
<1>12. CASE CreateLock(p)
  BY <1>12, EmptyFile DEF CreateLock
<1>13. CASE WriteLock(p)
  BY <1>13, FilledFiles DEF WriteLock
<1>14. CASE Check(p)
  BY <1>14 DEF Check
<1>15. CASE OpenDatabase(p)
  BY <1>15 DEF OpenDatabase
<1>16. CASE CreateSession(p)
  BY <1>16, EmptyFile DEF CreateSession
<1>17. CASE WriteSession(p)
  BY <1>17, FilledFiles DEF WriteSession
<1>18. CASE Ready(p)
  BY <1>18 DEF Ready
<1>19. CASE UndoSession(p)
  BY <1>19 DEF UndoSession
<1>20. CASE UndoLock(p)
  BY <1>20 DEF UndoLock
<1>21. CASE Stop(p)
  BY <1>21 DEF Stop
<1>22. CASE Drained(p)
  BY <1>22 DEF Drained
<1>23. CASE CloseSession(p)
  BY <1>23 DEF CloseSession
<1>24. CASE CloseLock(p)
  BY <1>24 DEF CloseLock
<1>25. CASE Killed(p)
  BY <1>25 DEF Killed
<1>26. CASE Reused(p)
  BY <1>26 DEF Reused
<1> QED BY <1>1, <1>2, <1>3, <1>4, <1>5, <1>6, <1>7, <1>8, <1>9, <1>10, <1>11,
           <1>12, <1>13, <1>14, <1>15, <1>16, <1>17, <1>18, <1>19, <1>20,
           <1>21, <1>22, <1>23, <1>24, <1>25, <1>26 DEF AuthorityStep

LEMMA AuthoritySteps == AInv /\ [AuthorityNext]_authorityVars => AInv'
<1> SUFFICES ASSUME AInv, [AuthorityNext]_authorityVars PROVE AInv'
  OBVIOUS
<1>1. CASE UNCHANGED authorityVars
  BY <1>1 DEF authorityVars, AInv, Types, Single, Sound, LockOf, RecoveryOf,
     Removing, LockBy, SessionBy
<1>2. CASE AuthorityNext
  <2>1. PICK p \in Programs : AuthorityStep(p)
    BY <1>2 DEF AuthorityNext
  <2>2. Types' /\ Single'
    BY <2>1, TypesKept
  <2>3. ASSUME ~raced' PROVE Sound'
    <3>1. CASE Launch(p)
      BY <2>3, <3>1, LaunchSound
    <3>2. CASE OpenLock(p)
      BY <2>3, <3>2, OpenLockSound
    <3>3. CASE ParseLock(p)
      BY <2>3, <3>3, ParseLockSound
    <3>4. CASE Probe(p)
      BY <2>3, <3>4, ProbeSound
    <3>5. CASE CheckSession(p)
      BY <2>3, <3>5, CheckSessionSound
    <3>6. CASE DropSession(p)
      BY <2>3, <3>6, DropSessionSound
    <3>7. CASE CheckLock(p)
      BY <2>3, <3>7, CheckLockSound
    <3>8. CASE DropLock(p)
      BY <2>3, <3>8, DropLockSound
    <3>9. CASE OpenSession(p)
      BY <2>3, <3>9, OpenSessionSound
    <3>10. CASE ParseSession(p)
      BY <2>3, <3>10, ParseSessionSound
    <3>11. CASE Refused(p)
      BY <2>3, <3>11, RefusedSound
    <3>12. CASE CreateLock(p)
      BY <2>3, <3>12, CreateLockSound
    <3>13. CASE WriteLock(p)
      BY <2>3, <3>13, WriteLockSound
    <3>14. CASE Check(p)
      BY <2>3, <3>14, CheckSound
    <3>15. CASE OpenDatabase(p)
      BY <2>3, <3>15, OpenDatabaseSound
    <3>16. CASE CreateSession(p)
      BY <2>3, <3>16, CreateSessionSound
    <3>17. CASE WriteSession(p)
      BY <2>3, <3>17, WriteSessionSound
    <3>18. CASE Ready(p)
      BY <2>3, <3>18, ReadySound
    <3>19. CASE UndoSession(p)
      BY <2>3, <3>19, UndoSessionSound
    <3>20. CASE UndoLock(p)
      BY <2>3, <3>20, UndoLockSound
    <3>21. CASE Stop(p)
      BY <2>3, <3>21, StopSound
    <3>22. CASE Drained(p)
      BY <2>3, <3>22, DrainedSound
    <3>23. CASE CloseSession(p)
      BY <2>3, <3>23, CloseSessionSound
    <3>24. CASE CloseLock(p)
      BY <2>3, <3>24, CloseLockSound
    <3>25. CASE Killed(p)
      BY <2>3, <3>25, KilledSound
    <3>26. CASE Reused(p)
      BY <2>3, <3>26, ReusedSound
    <3> QED BY <2>1, <3>1, <3>2, <3>3, <3>4, <3>5, <3>6, <3>7, <3>8, <3>9,
               <3>10, <3>11, <3>12, <3>13, <3>14, <3>15, <3>16, <3>17, <3>18,
               <3>19, <3>20, <3>21, <3>22, <3>23, <3>24, <3>25, <3>26
               DEF AuthorityStep
  <2> QED BY <2>2, <2>3 DEF AInv
<1> QED BY <1>1, <1>2

LEMMA AuthorityInvariant == AuthoritySpec => []AInv
BY AuthorityStarts, AuthoritySteps, PTL DEF AuthoritySpec

-----------------------------------------------------------------------------
(* One daemon at most has the database, whatever processes start, recover, *)
(* stop or die, unless a recovery removed a file it had not read: whoever  *)
(* has the database is the one who made the lock.                          *)
THEOREM DaemonsAreAlone == AuthoritySpec => []OneDaemon
<1>1. AInv => OneDaemon
  <2> SUFFICES ASSUME Types, Sound PROVE Cardinality(HoldsDatabase) <= 1
    BY DEF AInv, OneDaemon
  <2>1. ASSUME NEW p \in HoldsDatabase, NEW q \in HoldsDatabase PROVE p = q
    <3>1. /\ p \in Programs /\ at[p] \in LockSteps
          /\ q \in Programs /\ at[q] \in LockSteps
      BY DEF HoldsDatabase, LockSteps, SessionSteps
    <3>2. Of(lockFile, p)
      BY <3>1, WholeIsOf DEF Sound, LockOf
    <3> QED BY <3>1, <3>2 DEF Sound, LockOf, Of
  <2>2. CASE HoldsDatabase = {}
    BY <2>2, FS_EmptySet
  <2>3. CASE HoldsDatabase # {}
    <3>1. PICK p \in HoldsDatabase : TRUE
      BY <2>3
    <3>2. HoldsDatabase = {p}
      BY <2>1, <3>1
    <3> QED BY <3>2, FS_Singleton
  <2> QED BY <2>2, <2>3
<1> QED BY <1>1, AuthorityInvariant, PTL

(* Every session is under the whole lock of its daemon, unless a recovery  *)
(* removed a file it had not read: files are made lock first and removed   *)
(* session first, and a recovery removes a lock only without its session.  *)
THEOREM SessionsAreLocked == AuthoritySpec => []SessionUnderLock
<1>1. AInv => SessionUnderLock
  BY DEF AInv, SessionUnderLock, Sound, SessionBy
<1> QED BY <1>1, AuthorityInvariant, PTL
=============================================================================
