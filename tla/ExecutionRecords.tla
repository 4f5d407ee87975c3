-------------------------- MODULE ExecutionRecords --------------------------
(***************************************************************************)
(* The durable record of execution attempts: a chat thread and its single  *)
(* run, as packages/storage task-storage.ts keeps them for a Subtask that  *)
(* is executed on its own and for the roles of governed execution.         *)
(*                                                                         *)
(* Every operation is one transaction, on a clock that may be set back     *)
(* between two of them.  Rows are checked by every later read: a row that  *)
(* breaks the lifecycle locks the Subtask it belongs to.  Whether the      *)
(* Subtask is in progress, has ready dependencies and a worktree is judged *)
(* by other modules and may allow a reservation at any time here.          *)
(***************************************************************************)
EXTENDS Naturals, FiniteSets

CONSTANTS
    ExecTasks,          \* Subtasks of one project
    Attempts,           \* identities of attempts: thread and run
    ProviderThreads,    \* threads the provider names
    MaxActiveRuns,      \* the project's slots for governed roles
    LatestTime          \* bound on the clock

ASSUME LimitsAssumption == LatestTime \in Nat /\ MaxActiveRuns \in Nat

ExecTimes == 1 .. LatestTime
NotYet    == 0
Unbound   == "UNBOUND"
ASSUME UnboundAssumption == Unbound \notin ProviderThreads

VARIABLES
    thread,     \* chat_threads
    run         \* execution_runs

execVars == <<thread, run>>

Terminal == {"SUCCEEDED", "FAILED", "INTERRUPTED"}
Kinds    == {"OWNED", "READING_ROLE", "WRITING_ROLE"}

NoThread == [status |-> "NONE"]
NoRun    == [status |-> "NONE"]

NewThread(task, kind, t) ==
    [status |-> "OPEN", task |-> task, kind |-> kind, provider |-> Unbound,
     created |-> t, updated |-> t, closed |-> NotYet]
NewRun(t) ==
    [status |-> "CREATED", provider |-> Unbound, created |-> t, updated |-> t,
     started |-> NotYet, ended |-> NotYet]

ThreadRow == [status : {"OPEN", "CLOSED"}, task : ExecTasks, kind : Kinds,
              provider : ProviderThreads \cup {Unbound}, created : ExecTimes,
              updated : ExecTimes, closed : ExecTimes \cup {NotYet}]
RunRow    == [status : {"CREATED", "RUNNING"} \cup Terminal,
              provider : ProviderThreads \cup {Unbound}, created : ExecTimes,
              updated : ExecTimes, started : ExecTimes \cup {NotYet},
              ended : ExecTimes \cup {NotYet}]

ExecTypeOK ==
    /\ thread \in [Attempts -> ThreadRow \cup {NoThread}]
    /\ run \in [Attempts -> RunRow \cup {NoRun}]

Free(a)   == thread[a].status = "NONE" /\ run[a].status = "NONE"
Live(a)   == run[a].status \in {"CREATED", "RUNNING"}
Writes(a) == thread[a].kind # "READING_ROLE"
IsRole(a) == thread[a].kind # "OWNED"

ExecInit ==
    /\ thread = [a \in Attempts |-> NoThread]
    /\ run = [a \in Attempts |-> NoRun]

----------------------------------------------------------------------------
NoLiveAttempt(s) == \A a \in Attempts : Live(a) => thread[a].task # s

(* reservePrimaryExecutionAttempt *)
ReserveOwned(a, s, t) ==
    /\ NoLiveAttempt(s)
    /\ Free(a)
    /\ thread' = [thread EXCEPT ![a] = NewThread(s, "OWNED", t)]
    /\ run' = [run EXCEPT ![a] = NewRun(t)]

BusyTasks == {thread[a].task : a \in {x \in Attempts : Live(x)}}

SlotLeft(kind) ==
    /\ Cardinality(BusyTasks) < MaxActiveRuns
    /\ kind = "WRITING_ROLE" => \A a \in Attempts : Live(a) => ~Writes(a)

(* reserveRoleExecutionAttempt, whose identities are made from the role.   *)
(* The two rows are stored by calls that read the clock by themselves.     *)
ReserveRole(a, s, kind, t, u) ==
    /\ kind # "OWNED"
    /\ SlotLeft(kind)
    /\ NoLiveAttempt(s)
    /\ Free(a)
    /\ thread' = [thread EXCEPT ![a] = NewThread(s, kind, t)]
    /\ run' = [run EXCEPT ![a] = NewRun(u)]

(* bindChatThreadProviderReference; the same reference again is no step.   *)
BindProvider(a, provider, t) ==
    /\ thread[a].status = "OPEN" /\ thread[a].provider = Unbound
    /\ \A x \in Attempts : thread[x].status # "NONE" => thread[x].provider # provider
    /\ t >= thread[a].updated
    /\ thread' = [thread EXCEPT ![a].provider = provider, ![a].updated = t]
    /\ UNCHANGED run

(* startExecutionRun *)
StartRun(a, t) ==
    /\ run[a].status = "CREATED"
    /\ thread[a].status = "OPEN" /\ thread[a].provider # Unbound
    /\ t >= run[a].updated
    /\ run' = [run EXCEPT ![a].status = "RUNNING", ![a].provider = thread[a].provider,
                          ![a].updated = t, ![a].started = t]
    /\ UNCHANGED thread

MayFinish(a, outcome) ==
    \/ run[a].status = "CREATED" /\ outcome = "FAILED"
    \/ run[a].status = "RUNNING" /\ outcome \in Terminal

Finished(a, outcome, t) ==
    [run EXCEPT ![a].status = outcome, ![a].updated = t, ![a].ended = t]
Closed(a, t) ==
    [thread EXCEPT ![a].status = "CLOSED", ![a].updated = t, ![a].closed = t]

FinalizeInParts(a, outcome, t, u) ==    \* faulty: a refused close keeps the rest
    /\ thread[a].status = "OPEN"
    /\ MayFinish(a, outcome)
    /\ t >= run[a].updated
    /\ run' = Finished(a, outcome, t)
    /\ thread' = IF u >= thread[a].updated THEN Closed(a, u) ELSE thread

(* finalizePrimaryExecutionAttempt: the run ends and its thread is closed, *)
(* or neither.                                                             *)
Finalize(a, outcome, t, u) ==
    /\ thread[a].status = "OPEN"
    /\ MayFinish(a, outcome)
    /\ t >= run[a].updated
    /\ u >= thread[a].updated
    /\ run' = Finished(a, outcome, t)
    /\ thread' = Closed(a, u)

ExecNext ==
    \E a \in Attempts, t \in ExecTimes :
          \/ \E s \in ExecTasks :
                \/ ReserveOwned(a, s, t)
                \/ \E kind \in Kinds, u \in ExecTimes : ReserveRole(a, s, kind, t, u)
          \/ \E provider \in ProviderThreads : BindProvider(a, provider, t)
          \/ StartRun(a, t)
          \/ \E outcome \in Terminal, u \in ExecTimes : Finalize(a, outcome, t, u)

ExecSpec == ExecInit /\ [][ExecNext]_execVars

----------------------------------------------------------------------------
(* What every read of a thread and of a run demands of the rows.           *)
ThreadReadable(a) ==
    /\ thread[a].created <= thread[a].updated
    /\ \/ thread[a].status = "OPEN" /\ thread[a].closed = NotYet
       \/ thread[a].status = "CLOSED" /\ thread[a].closed = thread[a].updated

RunReadable(a) ==
    /\ run[a].provider \in {Unbound, thread[a].provider}
    /\ run[a].created <= run[a].updated
    /\ \/ /\ run[a].status = "CREATED"
          /\ run[a].provider = Unbound
          /\ run[a].updated = run[a].created
          /\ run[a].started = NotYet /\ run[a].ended = NotYet
       \/ /\ run[a].status = "RUNNING"
          /\ run[a].provider # Unbound
          /\ run[a].updated = run[a].started /\ run[a].ended = NotYet
       \/ /\ run[a].status \in Terminal
          /\ run[a].updated = run[a].ended
          /\ \/ /\ run[a].status = "FAILED"
                /\ run[a].started = NotYet /\ run[a].provider = Unbound
             \/ /\ run[a].created <= run[a].started /\ run[a].started <= run[a].ended
                /\ run[a].started # NotYet /\ run[a].provider # Unbound

(* The records of attempts stay sound over every order of reservations,    *)
(* bindings, starts and ends and every move of the clock: each row can be  *)
(* read again, a thread is open exactly while its run is under way, a      *)
(* Subtask has at most one attempt under way, a provider thread belongs to *)
(* one attempt, and at most one governed role that writes is under way in  *)
(* the project.                                                            *)
AttemptsSound ==
    /\ \A a \in Attempts :
          \/ Free(a)
          \/ /\ ThreadReadable(a) /\ RunReadable(a)
             /\ (thread[a].status = "OPEN") <=> Live(a)
    /\ \A a, x \in Attempts : (~Free(a) /\ ~Free(x) /\ a # x) =>
          /\ Live(a) /\ Live(x) => thread[a].task # thread[x].task
          /\ thread[a].provider # Unbound => thread[a].provider # thread[x].provider
          /\ ~( /\ Live(a) /\ thread[a].kind = "WRITING_ROLE"
                /\ Live(x) /\ thread[x].kind = "WRITING_ROLE")
=============================================================================
