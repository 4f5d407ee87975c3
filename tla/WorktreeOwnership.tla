------------------------- MODULE WorktreeOwnership -------------------------
(***************************************************************************)
(* The owned Git worktrees of the subtasks of one project                  *)
(* (packages/storage/src/worktree-ownership.ts) and the two facts of the   *)
(* task store they are decided with: the board status of a subtask and its *)
(* active execution run.                                                   *)
(*                                                                         *)
(* SQLite and Git do not share a transaction.  Each operation is therefore *)
(* a sequence of steps of a process, one per durable or physical effect,   *)
(* and a process may die between any two of them; several processes open   *)
(* the same database and repository.  An immediate transaction waits for   *)
(* the writer lock, which only a finishing release keeps across steps.     *)
(*                                                                         *)
(* The path, the branch and the checkout of an ownership are named by its  *)
(* id.  The head of a branch is the number of commits above the starting   *)
(* commit of its ownership; source heads and approved bases are numbered.  *)
(* A physical generation is the identity of the Git administration and of  *)
(* the marker file: a copied marker has the same bytes, not the identity.  *)
(***************************************************************************)
EXTENDS Naturals, FiniteSets

CONSTANTS
    Tasks, Procs, Ids,
    Planned,        \* the subtasks of live-planned Big Tasks: based on the result head
    Paused,         \* the subtasks whose lifecycle is paused in the console
    MaxActive,      \* the project's maxActiveCodingSubtasks
    MaxMoves,       \* bound on the moves of the source and of the result head together
    MaxCommits,     \* bound on the commits of one worktree
    MaxGen,         \* bound on the checkouts made at one path
    MaxFaults,      \* bound on crashes, failures and foreign acts
    Events,         \* the faults and acts that may happen in this instance
    None

Faults == { "CRASH",     \* a process dies
            "GIT",       \* a Git operation fails
            "STORE",     \* a transaction fails
            "DISCARD",   \* someone removes a checkout
            "RECREATE",  \* someone makes a checkout again, copying the marker
            "DROP",      \* someone deletes the directory but not the registration
            "SWITCH",    \* someone checks out another branch
            "REWIND" }   \* someone moves the branch

ASSUME ConstantsAssumption ==
    /\ Planned \subseteq Tasks /\ Paused \subseteq Tasks
    /\ MaxActive \in Nat /\ MaxMoves \in Nat /\ MaxCommits \in Nat /\ MaxGen \in Nat
    /\ MaxFaults \in Nat
    /\ Events \subseteq Faults
    /\ None \notin Ids /\ None \notin Procs /\ None \notin Nat /\ None \notin Tasks

VARIABLES
    rows,       \* worktree_ownerships and worktree_checkout_generations
    latest,     \* the ownership of a subtask that was created last
    board, run, proof,      \* task store
    tree, branch, source, base,     \* Git and the file system
    lock,       \* the SQLite writer lock, when it is held across steps
    pc, job,    \* the processes
    faults      \* faults so far

durable == <<rows, latest>>
task == <<board, run, proof>>
git == <<tree, branch, source, base>>
process == <<lock, pc, job>>
vars == <<durable, task, git, process, faults>>

Status == {"NONE", "PROVISIONING", "ACTIVE", "RELEASING", "RELEASED", "FAILED"}
NonTerminal == {"PROVISIONING", "ACTIVE", "RELEASING"}
Board == {"TODO", "IN_PROGRESS", "DONE"}
Head == 0 .. MaxCommits
Row == [ status : Status, task : Tasks \cup {None}, start : (0 .. 2 * MaxMoves) \cup {None},
         releaseHead : Head \cup {None}, evidence : (1 .. MaxGen) \cup {None} ]
Tree == [ place : { "ABSENT", "PRESENT",
                    "MISSING",       \* registered, no directory
                    "STRAY" },       \* a directory, not registered
          gen : 0 .. MaxGen, marker : {"NONE", "OWN", "COPY"},
          onBranch : BOOLEAN, dirty : BOOLEAN ]
Job == [ task : Tasks \cup {None}, id : Ids \cup {None}, source : 0 .. MaxMoves,
         base : 0 .. MaxMoves, board : Board, head : Head, governed : BOOLEAN ]
Pc == { "IDLE",
        "RESERVE", "ADD", "MARK", "RECORD", "VERIFY", "ACTIVATE", "UNDO",
        "CAPTURE", "RELEASE", "FINISH", "REMOVE", "CONFIRM" }

TypeOK ==
    /\ rows \in [Ids -> Row] /\ latest \in [Tasks -> Ids \cup {None}]
    /\ board \in [Tasks -> Board] /\ run \in [Tasks -> BOOLEAN]
    /\ proof \in [Tasks -> [id : Ids, head : Head] \cup {None}]
    /\ tree \in [Ids -> Tree] /\ branch \in [Ids -> Head \cup {None}]
    /\ source \in 0 .. MaxMoves /\ base \in 0 .. MaxMoves
    /\ lock \in Procs \cup {None}
    /\ pc \in [Procs -> Pc] /\ job \in [Procs -> Job]
    /\ faults \in 0 .. MaxFaults

NoRow == [ status |-> "NONE", task |-> None, start |-> None, releaseHead |-> None,
           evidence |-> None ]
NoTree(g) == [ place |-> "ABSENT", gen |-> g, marker |-> "NONE", onBranch |-> TRUE,
               dirty |-> FALSE ]
NoJob == [ task |-> None, id |-> None, source |-> 0, base |-> 0, board |-> "TODO",
           head |-> 0, governed |-> FALSE ]

Init ==
    /\ rows = [i \in Ids |-> NoRow] /\ latest = [t \in Tasks |-> None]
    /\ board = [t \in Tasks |-> "TODO"] /\ run = [t \in Tasks |-> FALSE]
    /\ proof = [t \in Tasks |-> None]
    /\ tree = [i \in Ids |-> NoTree(0)] /\ branch = [i \in Ids |-> None]
    /\ source = 0 /\ base = 0
    /\ lock = None /\ pc = [p \in Procs |-> "IDLE"] /\ job = [p \in Procs |-> NoJob]
    /\ faults = 0
-----------------------------------------------------------------------------
(***************************************************************************)
(* What a process reads                                                    *)
(***************************************************************************)
Held(t) == {i \in Ids : rows[i].task = t /\ rows[i].status \in NonTerminal}
(* The non-terminal ownership, or else the one that was created last.      *)
Current(t) == IF Held(t) # {} THEN CHOOSE i \in Held(t) : TRUE ELSE latest[t]

(* Commit 0 is both the source head and the approved head; later ones of   *)
(* the result branch are numbered above those of the source.               *)
StartingCommit(t, j) ==
    IF t \in Planned THEN (IF j.base = 0 THEN 0 ELSE MaxMoves + j.base) ELSE j.source

(* A paused subtask without a run keeps its ACTIVE checkout without using  *)
(* one of the project's slots.                                             *)
IdleRetained(t) == t \in Paused /\ ~run[t]
UsedSlots == {i \in Ids : \/ rows[i].status \in {"PROVISIONING", "RELEASING"}
                          \/ rows[i].status = "ACTIVE" /\ ~IdleRetained(rows[i].task)}

Absent(i) == tree[i].place = "ABSENT"
Registered(i) == tree[i].place = "PRESENT" /\ tree[i].onBranch
(* The checkout is the physical generation whose identity was recorded.    *)
SameGeneration(i) ==
    /\ rows[i].evidence # None
    /\ tree[i].gen = rows[i].evidence /\ tree[i].marker = "OWN"
Observed(i) == Registered(i) /\ SameGeneration(i)
AtStart(i) == branch[i] = 0
Clean(i) == ~tree[i].dirty
(* What reconciliation asks of a pending checkout before it activates it.  *)
ReconcilableByMarker(i) ==               \* faulty: the marker decides, not the evidence
    Registered(i) /\ tree[i].marker # "NONE" /\ AtStart(i) /\ source = rows[i].start
Reconcilable(i) == Observed(i) /\ AtStart(i) /\ source = rows[i].start
Retained(i) == branch[i] = rows[i].releaseHead

Free == lock = None
Idle(p) == pc[p] = "IDLE"
Goto(p, where) == pc' = [pc EXCEPT ![p] = where] /\ UNCHANGED job
Return(p) == pc' = [pc EXCEPT ![p] = "IDLE"] /\ job' = [job EXCEPT ![p] = NoJob]
Fault(kind) == kind \in Events /\ faults < MaxFaults /\ faults' = faults + 1
SetStatus(i, s) == rows' = [rows EXCEPT ![i].status = s] /\ UNCHANGED latest
-----------------------------------------------------------------------------
(***************************************************************************)
(* Provisioning: reserve, git worktree add, marker, evidence, activation   *)
(***************************************************************************)
BeginProvision(p, t) ==
    /\ Idle(p) /\ board[t] \in {"TODO", "IN_PROGRESS"}
    /\ \E i \in Ids :
         /\ branch[i] = None /\ Absent(i)
         /\ job' = [job EXCEPT ![p] = [NoJob EXCEPT !.task = t, !.id = i, !.source = source,
                                                    !.base = base, !.board = board[t]]]
    /\ pc' = [pc EXCEPT ![p] = "RESERVE"]
    /\ UNCHANGED <<durable, task, git, lock, faults>>

ReservableUnchecked(t, i, seen) ==       \* faulty: the subtask is not looked up again
    board[t] = seen /\ Cardinality(UsedSlots) < MaxActive /\ rows[i].status = "NONE"
Reservable(t, i, seen) ==
    /\ board[t] = seen
    /\ Held(t) = {}
    /\ Cardinality(UsedSlots) < MaxActive
    /\ rows[i].status = "NONE"
Reserve(p) ==
    LET t == job[p].task  i == job[p].id IN
    /\ pc[p] = "RESERVE" /\ Free
    /\ IF Reservable(t, i, job[p].board)
       THEN /\ rows' = [rows EXCEPT ![i] = [ status |-> "PROVISIONING", task |-> t,
                                            start |-> StartingCommit(t, job[p]),
                                            releaseHead |-> None, evidence |-> None ]]
            /\ latest' = [latest EXCEPT ![t] = i]
            /\ Goto(p, "ADD")
       ELSE Return(p) /\ UNCHANGED durable
    /\ UNCHANGED <<task, git, lock, faults>>

NewTree(i, m) == [ place |-> "PRESENT", gen |-> tree[i].gen + 1, marker |-> m,
                   onBranch |-> TRUE, dirty |-> FALSE ]
AddWorktree(p) ==
    LET i == job[p].id IN
    /\ pc[p] = "ADD" /\ branch[i] = None /\ Absent(i) /\ tree[i].gen < MaxGen
    /\ tree' = [tree EXCEPT ![i] = NewTree(i, "NONE")]
    /\ branch' = [branch EXCEPT ![i] = 0]
    /\ Goto(p, "MARK")
    /\ UNCHANGED <<durable, task, source, base, lock, faults>>
(* A failed or interrupted add leaves nothing, the branch, or a directory. *)
AddFails(p) ==
    LET i == job[p].id IN
    /\ pc[p] = "ADD"
    /\ \/ /\ ~(branch[i] = None /\ Absent(i)) \/ tree[i].gen >= MaxGen
          /\ UNCHANGED <<git, faults>>
       \/ /\ branch[i] = None /\ Absent(i) /\ Fault("GIT")
          /\ UNCHANGED <<source, base>>
          /\ \/ UNCHANGED <<tree, branch>>
             \/ branch' = [branch EXCEPT ![i] = 0] /\ UNCHANGED tree
             \/ /\ branch' = [branch EXCEPT ![i] = 0]
                /\ tree' = [tree EXCEPT ![i].place = "STRAY"]
    /\ Goto(p, "UNDO")
    /\ UNCHANGED <<durable, task, lock>>

Mark(p) ==
    LET i == job[p].id IN
    /\ pc[p] = "MARK"
    /\ IF Registered(i) /\ AtStart(i) /\ tree[i].marker = "NONE"
       THEN tree' = [tree EXCEPT ![i].marker = "OWN"] /\ Goto(p, "RECORD")
       ELSE UNCHANGED tree /\ Goto(p, "UNDO")
    /\ UNCHANGED <<durable, task, branch, source, base, lock, faults>>
Record(p) ==
    LET i == job[p].id IN
    /\ pc[p] = "RECORD" /\ Free
    /\ IF rows[i].status = "PROVISIONING" /\ rows[i].evidence = None
       THEN /\ rows' = [rows EXCEPT ![i].evidence = tree[i].gen] /\ UNCHANGED latest
            /\ Goto(p, "VERIFY")
       ELSE UNCHANGED durable /\ Goto(p, "UNDO")
    /\ UNCHANGED <<task, git, lock, faults>>
Verify(p) ==
    LET i == job[p].id IN
    /\ pc[p] = "VERIFY"
    /\ Goto(p, IF /\ Observed(i) /\ AtStart(i)
                  /\ source = job[p].source /\ (job[p].task \in Planned => base = job[p].base)
               THEN "ACTIVATE" ELSE "UNDO")
    /\ UNCHANGED <<durable, task, git, lock, faults>>
Activate(p) ==
    LET i == job[p].id IN
    /\ pc[p] = "ACTIVATE" /\ Free
    /\ IF rows[i].status = "PROVISIONING" /\ rows[i].evidence # None
       THEN SetStatus(i, "ACTIVE") /\ Return(p)
       ELSE UNCHANGED durable /\ Goto(p, "UNDO")
    /\ UNCHANGED <<task, git, lock, faults>>
(* Only proven absence ends a reservation.                                 *)
UndoUnproven(p) ==                       \* faulty: every failure ends it
    LET i == job[p].id IN
    /\ pc[p] = "UNDO" /\ Free
    /\ IF rows[i].status = "PROVISIONING" THEN SetStatus(i, "FAILED") ELSE UNCHANGED durable
    /\ Return(p)
    /\ UNCHANGED <<task, git, lock, faults>>
Undo(p) ==
    LET i == job[p].id IN
    /\ pc[p] = "UNDO" /\ Free
    /\ IF Absent(i) /\ rows[i].status = "PROVISIONING" THEN SetStatus(i, "FAILED")
                                                       ELSE UNCHANGED durable
    /\ Return(p)
    /\ UNCHANGED <<task, git, lock, faults>>
-----------------------------------------------------------------------------
(***************************************************************************)
(* Release: the intention is durable before the checkout is removed        *)
(***************************************************************************)
BeginRelease(p, t) ==
    LET i == Current(t) IN
    /\ Idle(p) /\ i # None /\ rows[i].status = "ACTIVE" /\ Observed(i) /\ Clean(i)
    /\ job' = [job EXCEPT ![p] = [NoJob EXCEPT !.task = t, !.id = i]]
    /\ pc' = [pc EXCEPT ![p] = "CAPTURE"]
    /\ UNCHANGED <<durable, task, git, lock, faults>>
Capture(p) ==
    LET i == job[p].id IN
    /\ pc[p] = "CAPTURE"
    /\ IF rows[i].status = "ACTIVE" /\ Observed(i)
       THEN /\ job' = [job EXCEPT ![p].head = branch[i]]
            /\ pc' = [pc EXCEPT ![p] = "RELEASE"]
       ELSE Return(p)
    /\ UNCHANGED <<durable, task, git, lock, faults>>
RunIgnored(t) == board[t] # "DONE"       \* faulty: the runs are not looked up
NoActiveRun(t) == ~run[t]
StartRelease(p) ==
    LET i == job[p].id IN
    /\ pc[p] = "RELEASE" /\ Free
    /\ IF rows[i].status = "ACTIVE" /\ NoActiveRun(rows[i].task)
       THEN /\ rows' = [rows EXCEPT ![i].status = "RELEASING", ![i].releaseHead = job[p].head]
            /\ UNCHANGED latest /\ Goto(p, "FINISH")
       ELSE Return(p) /\ UNCHANGED durable
    /\ UNCHANGED <<task, git, lock, faults>>

(* The governed release proves the completed candidate in the transaction. *)
ProofHolds(t, i) ==
    /\ proof[t] # None /\ proof[t].id = i /\ NoActiveRun(t)
    /\ rows[i].evidence # None
    /\ rows[i].status \in {"RELEASING", "RELEASED"} => rows[i].releaseHead = proof[t].head
GovernedRelease(p, t) ==
    LET i == Current(t) IN
    /\ Idle(p) /\ Free /\ i # None /\ ProofHolds(t, i)
    /\ \/ /\ rows[i].status = "ACTIVE" /\ Observed(i) /\ branch[i] = proof[t].head /\ Clean(i)
          /\ rows' = [rows EXCEPT ![i].status = "RELEASING", ![i].releaseHead = proof[t].head]
          /\ UNCHANGED latest
       \/ rows[i].status = "RELEASING" /\ UNCHANGED durable
    /\ pc' = [pc EXCEPT ![p] = "FINISH"]
    /\ job' = [job EXCEPT ![p] = [NoJob EXCEPT !.task = t, !.id = i, !.governed = TRUE]]
    /\ UNCHANGED <<task, git, lock, faults>>

ReleasedWhenAbsent(i) ==
    IF rows[i].status = "RELEASING" /\ Retained(i) THEN SetStatus(i, "RELEASED")
                                                   ELSE UNCHANGED durable
(* One transaction spans the removal and the terminal status.              *)
RemovableUnidentified(i) ==              \* faulty: a look-alike checkout qualifies
    Registered(i) /\ Retained(i) /\ Clean(i)
Removable(i) == Observed(i) /\ Retained(i) /\ Clean(i)
Finish(p) ==
    LET i == job[p].id IN
    /\ pc[p] = "FINISH" /\ Free
    /\ IF /\ rows[i].status = "RELEASING" /\ Current(job[p].task) = i
          /\ job[p].governed => ProofHolds(job[p].task, i)
       THEN IF Absent(i) THEN ReleasedWhenAbsent(i) /\ Return(p) /\ UNCHANGED lock
            ELSE IF Removable(i) THEN lock' = p /\ Goto(p, "REMOVE") /\ UNCHANGED durable
            ELSE Return(p) /\ UNCHANGED <<durable, lock>>
       ELSE Return(p) /\ UNCHANGED <<durable, lock>>
    /\ UNCHANGED <<task, git, faults>>
(* Git itself refuses to remove a checkout with changes.                   *)
Remove(p) ==
    LET i == job[p].id IN
    /\ pc[p] = "REMOVE" /\ Clean(i)
    /\ tree' = [tree EXCEPT ![i] = NoTree(tree[i].gen)]
    /\ Goto(p, "CONFIRM")
    /\ UNCHANGED <<durable, task, branch, source, base, lock, faults>>
RemoveFails(p) ==
    /\ pc[p] = "REMOVE"
    /\ \/ ~Clean(job[p].id) /\ UNCHANGED faults
       \/ Clean(job[p].id) /\ Fault("GIT")
    /\ lock' = None /\ Return(p)
    /\ UNCHANGED <<durable, task, git>>
Confirm(p) ==
    LET i == job[p].id IN
    /\ pc[p] = "CONFIRM"
    /\ IF Absent(i) THEN ReleasedWhenAbsent(i) ELSE UNCHANGED durable
    /\ lock' = None /\ Return(p)
    /\ UNCHANGED <<task, git, faults>>
-----------------------------------------------------------------------------
(***************************************************************************)
(* Reconciliation, in one transaction                                      *)
(***************************************************************************)
Reconcile(p, t) ==
    LET i == Current(t) IN
    /\ Idle(p) /\ Free /\ i # None
    /\ \/ /\ rows[i].status = "PROVISIONING"
          /\ \/ Absent(i) /\ SetStatus(i, "FAILED")
             \/ ~Absent(i) /\ Reconcilable(i) /\ SetStatus(i, "ACTIVE")
       \/ rows[i].status = "RELEASING" /\ Absent(i) /\ Retained(i) /\ SetStatus(i, "RELEASED")
    /\ UNCHANGED <<task, git, process, faults>>
-----------------------------------------------------------------------------
(***************************************************************************)
(* The work on a subtask, and the moves of the repository          *)
(***************************************************************************)
(* An attempt is reserved in a transaction that resolves the checkout.     *)
StartRun(t) ==
    LET i == Current(t) IN
    /\ Free /\ ~run[t] /\ board[t] \in {"TODO", "IN_PROGRESS"}
    /\ i # None /\ rows[i].status = "ACTIVE" /\ Observed(i)
    /\ run' = [run EXCEPT ![t] = TRUE] /\ board' = [board EXCEPT ![t] = "IN_PROGRESS"]
    /\ UNCHANGED <<durable, proof, git, process, faults>>
EndRun(t) ==
    /\ Free /\ run[t] /\ run' = [run EXCEPT ![t] = FALSE]
    /\ UNCHANGED <<durable, board, proof, git, process, faults>>
Edit(i) ==
    /\ tree[i].place = "PRESENT" /\ Clean(i) /\ rows[i].status \in {"ACTIVE", "RELEASING"}
    /\ tree' = [tree EXCEPT ![i].dirty = TRUE]
    /\ UNCHANGED <<durable, task, branch, source, base, process, faults>>
CommitWork(i) ==
    /\ tree[i].place = "PRESENT" /\ tree[i].onBranch /\ ~Clean(i)
    /\ branch[i] # None /\ branch[i] < MaxCommits
    /\ tree' = [tree EXCEPT ![i].dirty = FALSE]
    /\ branch' = [branch EXCEPT ![i] = @ + 1]
    /\ UNCHANGED <<durable, task, source, base, process, faults>>
Complete(t) ==
    LET i == Current(t) IN
    /\ Free /\ ~run[t] /\ board[t] = "IN_PROGRESS"
    /\ i # None /\ rows[i].status = "ACTIVE" /\ Observed(i) /\ Clean(i)
    /\ board' = [board EXCEPT ![t] = "DONE"]
    /\ proof' = [proof EXCEPT ![t] = [id |-> i, head |-> branch[i]]]
    /\ UNCHANGED <<durable, run, git, process, faults>>
MoveSource ==
    /\ source + base < MaxMoves /\ source' = source + 1
    /\ UNCHANGED <<durable, task, tree, branch, base, process, faults>>
(* A completed sibling is integrated: the result head moves on.            *)
MoveBase ==
    /\ Planned # {} /\ source + base < MaxMoves /\ base' = base + 1
    /\ UNCHANGED <<durable, task, tree, branch, source, process, faults>>
-----------------------------------------------------------------------------
(***************************************************************************)
(* Faults.  A foreign act on a checkout does not fall inside an operation  *)
(* on it: between two observations of one operation the code cannot see it.*)
(***************************************************************************)
Crash(p) ==
    /\ ~Idle(p) /\ Fault("CRASH")
    /\ Return(p) /\ lock' = IF lock = p THEN None ELSE lock
    /\ UNCHANGED <<durable, task, git>>
StoreFails(p) ==
    /\ pc[p] \in {"RESERVE", "RECORD", "ACTIVATE", "UNDO", "RELEASE", "CONFIRM"}
    /\ Fault("STORE")
    /\ IF pc[p] \in {"RECORD", "ACTIVATE"} THEN Goto(p, "UNDO") ELSE Return(p)
    /\ lock' = IF lock = p THEN None ELSE lock
    /\ UNCHANGED <<durable, task, git>>
Unattended(i) == \A p \in Procs : job[p].id # i
Foreign(i, kind) == Unattended(i) /\ rows[i].status # "NONE" /\ Fault(kind)
Discard(i) ==
    /\ Foreign(i, "DISCARD") /\ ~Absent(i)
    /\ tree' = [tree EXCEPT ![i] = NoTree(tree[i].gen)]
    /\ UNCHANGED <<durable, task, branch, source, base, process>>
Recreate(i) ==
    /\ Foreign(i, "RECREATE") /\ branch[i] # None /\ tree[i].gen < MaxGen
    /\ \E m \in {"NONE", "COPY"} : tree' = [tree EXCEPT ![i] = NewTree(i, m)]
    /\ UNCHANGED <<durable, task, branch, source, base, process>>
Drop(i) ==
    /\ Foreign(i, "DROP") /\ tree[i].place = "PRESENT"
    /\ tree' = [tree EXCEPT ![i].place = "MISSING", ![i].dirty = FALSE]
    /\ UNCHANGED <<durable, task, branch, source, base, process>>
Switch(i) ==
    /\ Foreign(i, "SWITCH") /\ tree[i].place = "PRESENT"
    /\ tree' = [tree EXCEPT ![i].onBranch = ~@]
    /\ UNCHANGED <<durable, task, branch, source, base, process>>
Rewind(i) ==
    /\ Foreign(i, "REWIND") /\ branch[i] # None /\ Absent(i)
    /\ \E h \in (Head \cup {None}) \ {branch[i]} : branch' = [branch EXCEPT ![i] = h]
    /\ UNCHANGED <<durable, task, tree, source, base, process>>

Step(p) ==
    \/ Reserve(p) \/ AddWorktree(p) \/ AddFails(p) \/ Mark(p) \/ Record(p) \/ Verify(p)
    \/ Activate(p) \/ Undo(p)
    \/ Capture(p) \/ StartRelease(p) \/ Finish(p) \/ Remove(p) \/ RemoveFails(p) \/ Confirm(p)
    \/ Crash(p) \/ StoreFails(p)
Request(p, t) ==
    BeginProvision(p, t) \/ BeginRelease(p, t) \/ GovernedRelease(p, t) \/ Reconcile(p, t)
Work(t) == StartRun(t) \/ EndRun(t) \/ Complete(t)
Change(i) ==
    \/ Edit(i) \/ CommitWork(i)
    \/ Discard(i) \/ Recreate(i) \/ Drop(i) \/ Switch(i) \/ Rewind(i)

Next ==
    \/ \E p \in Procs : Step(p) \/ \E t \in Tasks : Request(p, t)
    \/ \E t \in Tasks : Work(t)
    \/ \E i \in Ids : Change(i)
    \/ MoveSource \/ MoveBase

Spec == Init /\ [][Next]_vars
-----------------------------------------------------------------------------
(***************************************************************************)
(* Properties                                                              *)
(***************************************************************************)
(* A subtask never has two ownerships that are not over, whichever         *)
(* processes provision, release and reconcile it at the same time          *)
(* (reserveOwnership re-reads the rows in its transaction).                *)
OneOwner ==
    \A i, j \in Ids : /\ i # j /\ rows[i].status \in NonTerminal /\ rows[j].status \in NonTerminal
                      => rows[i].task # rows[j].task

(* While an execution run of a subtask is active, its checkout is neither  *)
(* released nor being released: the run and the release are decided in two *)
(* transactions of two actors (transitionOwnershipInTransaction).          *)
RunHasCheckout ==
    \A t \in Tasks : run[t] => \E i \in Ids : rows[i].task = t /\ rows[i].status = "ACTIVE"

(* An ownership becomes ACTIVE, by its provisioner or after a crash by     *)
(* reconciliation, only over the very checkout it created: the recorded    *)
(* physical generation, on its branch, at its starting commit; a recreated *)
(* look-alike with a copied marker is never adopted.                       *)
ActivationProven ==
    [][\A i \in Ids : rows[i].status # "ACTIVE" /\ rows'[i].status = "ACTIVE"
           => /\ rows[i].status = "PROVISIONING"
              /\ tree[i].place = "PRESENT" /\ tree[i].onBranch /\ branch[i] = 0
              /\ tree[i].gen = rows[i].evidence /\ tree[i].marker = "OWN"]_vars

(* The only checkout a process removes is the recorded generation of a     *)
(* release that is already durable, without uncommitted changes, and with  *)
(* its branch left where it is: no work is lost (#finishRelease).          *)
NoWorkLost ==
    [][\A p \in Procs : pc[p] = "REMOVE" /\ pc'[p] = "CONFIRM"
           => LET i == job[p].id IN
              /\ rows[i].status = "RELEASING" /\ ~tree[i].dirty
              /\ tree[i].gen = rows[i].evidence /\ tree[i].marker = "OWN"
              /\ branch'[i] = branch[i] /\ branch[i] # None]_vars

(* An ownership ends, and frees its slot, only when its checkout is proven *)
(* absent; a released one only with the branch at the recorded head.       *)
EndIsProven ==
    [][\A i \in Ids :
         /\ rows[i].status \in NonTerminal /\ rows'[i].status \in {"FAILED", "RELEASED"}
            => tree[i].place = "ABSENT"
         /\ rows[i].status # "RELEASED" /\ rows'[i].status = "RELEASED"
            => rows[i].releaseHead # None /\ branch[i] = rows[i].releaseHead]_vars

(* GIT_WORKTREE_OWNERSHIP_V0.md: an exact pending worktree with unchanged  *)
(* source, matching evidence and starting head may become ACTIVE.  The     *)
(* source has not moved since the reservation, yet the check compares it   *)
(* with the starting commit, which for a live-planned subtask is the       *)
(* result head and not the source head.                                    *)
PendingIsReconcilable ==
    \A i \in Ids : rows[i].status = "PROVISIONING" /\ Observed(i) /\ AtStart(i) /\ source = 0
                   /\ Unattended(i)
                   => Reconcilable(i)
=============================================================================
