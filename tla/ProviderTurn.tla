---------------------------- MODULE ProviderTurn ----------------------------
(***************************************************************************)
(* One provider turn (packages/codex-adapter/src/live-execution.ts): the   *)
(* program that starts an app-server child, asks it for a thread and a     *)
(* turn and waits for its end; the JSONL client that matches answers to    *)
(* requests; the tracker that decides which notifications the turn may     *)
(* have; and the durable record of the run.                                *)
(*                                                                         *)
(* Four programs share the client and the tracker: a governed role (ROLE), *)
(* a primary attempt in an owned worktree (OWNED), a planning turn (PLAN)  *)
(* and a plain read-only turn (LIVE).                                      *)
(*                                                                         *)
(* The child is not trusted: it may send any message at any time, close    *)
(* its output or exit.  A message is handled in one step of the event      *)
(* loop; the program goes on in a later one, after any number of further   *)
(* messages of the same chunk.                                             *)
(***************************************************************************)
EXTENDS Naturals, FiniteSets

CONSTANTS
    Flows,          \* the programs of this instance
    Items,          \* ids of tool items
    MaxToolItems,   \* MAX_WRITE_TOOL_ITEMS
    MaxNotes,       \* limits.maxNotifications
    MaxUsage,       \* bound on the token counts the provider reports
    TokenLimit,     \* the tokens that remain of the approval
    MaxFaults,      \* bound on the failures of the store
    None

VARIABLES
    flow, writes,       \* the program, and whether its sandbox is writable
    pc, at,             \* where it is, and which request it is at
    code,               \* failureCode
    req, why,           \* the requests, and why the last one was rejected
    failure, refused,   \* the client's and the tracker's #failure
    child, closing,     \* the child process, and the client's #shuttingDown
    tracker, notes,     \* the tracker, and the control notifications received
    captured,           \* the evidence taken before the shutdown
    record, faults      \* the durable run, and the store failures so far

program == <<flow, writes, pc, at, code, captured>>
client == <<req, why, failure, child, closing>>
events == <<refused, tracker, notes>>
vars == <<program, client, events, record, faults>>

Requests == {"initialize", "account", "config", "thread", "turn", "interrupt"}
Codes == { "INTERRUPTED", "TIMEOUT", "AUTH", "PROTOCOL", "EXITED", "START", "AUTHORITY", "STORE",
           "FAILED", "CLEANUP" }
Endings == {"completed", "failed", "interrupted"}
Names == {"own", "other"}       \* the thread and the turn of the responses, or others
ToolItem == [ type : {"command", "file"}, state : {"STARTED", "COMPLETED"} ]
ASSUME ConstantsAssumption ==
    /\ Flows \subseteq {"ROLE", "OWNED", "PLAN", "LIVE"}
    /\ MaxToolItems \in Nat /\ MaxNotes \in Nat /\ MaxUsage \in Nat /\ TokenLimit \in Nat
    /\ MaxFaults \in Nat
    /\ None \notin Codes \cup Endings \cup Names \cup ToolItem

Tracker == [ authed : BOOLEAN,
             thread : BOOLEAN, turn : BOOLEAN,              \* set by a response
             seenThread : Names \cup {None}, seenTurn : Names \cup {None},
             sent : BOOLEAN,
             terminal : Endings \cup {None},
             phase : {"NONE", "COMMENTARY", "FINAL"},
             items : [Items -> ToolItem \cup {None}],
             usage : 0 .. MaxUsage ]
(* What a validator says of a response: version, account, policy of the    *)
(* thread, turn.                                                           *)
Verdict == {"GOOD", "BAD"}
Record == [ run : {"NONE", "CREATED", "RUNNING", "SUCCEEDED", "FAILED", "INTERRUPTED"},
            claim : {"NONE", "OWN", "EARLIER"},     \* who claimed the start of the provider
            bound : BOOLEAN,        \* the provider's run reference is recorded
            usage : 0 .. MaxUsage ]

TypeOK ==
    /\ flow \in Flows /\ writes \in BOOLEAN
    /\ pc \in { "BEGIN", "LAUNCH", "SEND", "AWAIT", "BIND", "START", "WAIT", "CATCH", "INTERRUPT",
                "CLOSE", "CLEAN", "SETTLE", "FINALIZE", "DONE" }
    /\ at \in Requests /\ code \in Codes \cup {None}
    /\ req \in [Requests -> {"NEW", "PENDING", "REJECTED"} \cup Verdict]
    /\ why \in Codes \cup {None}
    /\ failure \in Codes \cup {None} /\ refused \in Codes \cup {None}
    /\ child \in {"NONE", "UP", "CLOSED"} /\ closing \in BOOLEAN
    /\ tracker \in Tracker /\ notes \in 0 .. MaxNotes
    /\ captured \in [ terminal : Endings \cup {None}, usage : 0 .. MaxUsage ]
    /\ record \in Record /\ faults \in 0 .. MaxFaults

Durable == flow \in {"ROLE", "OWNED"}       \* the program keeps an execution run

Init ==
    /\ flow \in Flows
    /\ writes \in IF flow = "ROLE" THEN BOOLEAN ELSE {flow = "OWNED"}
    /\ pc = "BEGIN" /\ at = "initialize" /\ code = None
    /\ req = [m \in Requests |-> "NEW"] /\ why = None
    /\ failure = None /\ refused = None
    /\ child = "NONE" /\ closing = FALSE
    /\ tracker = [ authed |-> FALSE, thread |-> FALSE, turn |-> FALSE, seenThread |-> None,
                   seenTurn |-> None, sent |-> FALSE, terminal |-> None, phase |-> "NONE",
                   items |-> [i \in Items |-> None], usage |-> 0 ]
    /\ notes = 0
    /\ captured = [terminal |-> None, usage |-> 0]
    /\ record \in [ run : CASE flow = "PLAN" -> {"RUNNING"}
                           [] flow = "ROLE" -> {"NONE", "CREATED"}
                           [] OTHER -> {"NONE"},
                    claim : {"NONE", "EARLIER"}, bound : {FALSE}, usage : {0} ]
    /\ record.claim = "EARLIER" => record.run = "CREATED"
    /\ faults = 0
-----------------------------------------------------------------------------
(***************************************************************************)
(* The client                                                              *)
(***************************************************************************)
StoreFails == faults < MaxFaults /\ faults' = faults + 1
Goto(where) == pc' = where /\ UNCHANGED <<flow, writes, at, code, captured>>
Throw(c) == pc' = "CATCH" /\ code' = c /\ UNCHANGED <<flow, writes, at, captured>>

Rejected == [m \in Requests |-> IF req[m] = "PENDING" THEN "REJECTED" ELSE req[m]]
Refuse(c) == refused' = IF refused = None THEN c ELSE refused
(* The first failure stays: every pending request is rejected with it.     *)
Fail(c) ==
    IF failure # None THEN UNCHANGED <<failure, req, why, refused>>
    ELSE /\ failure' = c /\ req' = Rejected /\ why' = c /\ Refuse(c)

(* Nothing of the output is read after a failure, and after the shutdown   *)
(* the program runs to its end without waiting.                            *)
Reading == child = "UP" /\ failure = None /\ pc \notin {"CLEAN", "SETTLE", "FINALIZE", "DONE"}
HasSettled == req[at] \in {"GOOD", "BAD", "REJECTED"}

Request(m) ==
    /\ at' = m
    /\ IF failure # None THEN req' = [req EXCEPT ![m] = "REJECTED"] /\ why' = failure
                         ELSE req' = [req EXCEPT ![m] = "PENDING"] /\ UNCHANGED why
    /\ UNCHANGED <<failure, child, closing>>
RequestTimeout(m) ==
    /\ req[m] = "PENDING"
    /\ req' = [req EXCEPT ![m] = "REJECTED"] /\ why' = "TIMEOUT"
    /\ UNCHANGED <<program, failure, child, closing, events, record, faults>>
(* The abort signal of a governed role: the client itself has not failed.  *)
CancelPending ==
    /\ flow = "ROLE" /\ child # "NONE" /\ refused # "INTERRUPTED"
    /\ pc \in {"SEND", "AWAIT", "BIND", "START", "WAIT", "CATCH", "INTERRUPT"}
    /\ req' = Rejected /\ why' = "INTERRUPTED" /\ Refuse("INTERRUPTED")
    /\ UNCHANGED <<program, failure, child, closing, tracker, notes, record, faults>>
Exit ==
    /\ child = "UP" /\ child' = "CLOSED"
    /\ IF closing THEN UNCHANGED <<req, why, failure, refused>> ELSE Fail("EXITED")
    /\ UNCHANGED <<program, closing, tracker, notes, record, faults>>
(* An unfinished, overlong or unreadable line, or a request of the server: *)
(* an approval is declined, and the turn fails all the same.               *)
BreakProtocol ==
    /\ Reading /\ Fail("PROTOCOL")
    /\ UNCHANGED <<program, child, closing, tracker, notes, record, faults>>

(* The hook of a result runs before anything else is read.                 *)
ResultAccepted(m) ==
    CASE m = "thread" -> ~tracker.thread /\ tracker.seenThread \in {None, "own"}
      [] m = "turn" -> /\ tracker.sent /\ ~tracker.turn /\ tracker.seenTurn \in {None, "own"}
                       /\ tracker.terminal = None
      [] OTHER -> TRUE
Observe(m) ==
    CASE m = "account" -> [tracker EXCEPT !.authed = TRUE]
      [] m = "thread" -> [tracker EXCEPT !.thread = TRUE]
      [] m = "turn" -> [tracker EXCEPT !.turn = TRUE]
      [] OTHER -> tracker
Hooked == {"account", "thread", "turn"}
Answer(m, verdict) ==
    /\ Reading
    /\ IF req[m] # "PENDING" \/ (m \in Hooked /\ ~(verdict = "GOOD" /\ ResultAccepted(m)))
       THEN Fail(IF m = "account" /\ req[m] = "PENDING" THEN "AUTH" ELSE "PROTOCOL")
            /\ UNCHANGED tracker
       ELSE /\ req' = [req EXCEPT ![m] = verdict]
            /\ tracker' = Observe(m)
            /\ UNCHANGED <<failure, why, refused>>
    /\ UNCHANGED <<program, child, closing, notes, record, faults>>
AnswerError(m) ==
    /\ Reading /\ req[m] = "PENDING"
    /\ req' = [req EXCEPT ![m] = "REJECTED"] /\ why' = "PROTOCOL"
    /\ UNCHANGED <<program, failure, child, closing, events, record, faults>>
-----------------------------------------------------------------------------
(***************************************************************************)
(* The tracker                                                             *)
(***************************************************************************)
SameThread(n) == (tracker.thread => n = "own") /\ tracker.seenThread \in {None, n}
SameTurn(n) == (tracker.turn => n = "own") /\ tracker.seenTurn \in {None, n}
InTurn(th, tu) ==
    tracker.sent /\ tracker.terminal = None /\ SameThread(th) /\ SameTurn(tu)
Seen(th, tu) == [tracker EXCEPT !.seenThread = th, !.seenTurn = tu]

(* A tracker that accepts a notification has a new state; one that refuses *)
(* it fails the client.                                                    *)
Notice(accepted, next, otherwise) ==
    /\ Reading
    /\ IF notes = MaxNotes THEN Fail("PROTOCOL") /\ UNCHANGED <<tracker, notes>>
       ELSE /\ notes' = notes + 1
            /\ IF accepted THEN tracker' = next /\ UNCHANGED <<failure, req, why, refused>>
                           ELSE Fail(otherwise) /\ UNCHANGED tracker
    /\ UNCHANGED <<program, child, closing, faults>>

(* The account is no longer a ChatGPT account: only the tracker fails.     *)
AccountLost ==
    /\ Reading /\ notes < MaxNotes /\ notes' = notes + 1
    /\ tracker' = [tracker EXCEPT !.authed = FALSE] /\ Refuse("AUTH")
    /\ UNCHANGED <<program, client, record, faults>>
ThreadStarted(th, ephemeral) ==
    /\ Notice(ephemeral /\ SameThread(th), [tracker EXCEPT !.seenThread = th], "PROTOCOL")
    /\ UNCHANGED record
TurnStarted(th, tu) ==
    Notice(InTurn(th, tu), Seen(th, tu), "PROTOCOL") /\ UNCHANGED record
(* Progress messages, reasoning and the like do not change the turn, nor   *)
(* do the deltas of the answer.                                            *)
Message(th, tu, phase) ==
    /\ Notice(InTurn(th, tu) /\ ~(phase = "FINAL" /\ tracker.phase = "FINAL"),
              [Seen(th, tu) EXCEPT !.phase = IF phase = "NONE" \/ @ = "FINAL" THEN @ ELSE phase],
              "PROTOCOL")
    /\ UNCHANGED record

(* What the policy of the turn has: no tools, commands (a planning turn    *)
(* with the console's research tools), or file changes as well.            *)
ToolAllowed(type) ==
    CASE flow = "LIVE" -> FALSE
      [] writes -> TRUE
      [] OTHER -> type = "command"
(* A command runs, and a file is changed, inside the worktree (or the      *)
(* directories that may be researched).                                    *)
Acceptable(type, inside) == ToolAllowed(type) /\ inside
StartedItems == {i \in Items : tracker.items[i] # None}
ItemStarted(i, type, inside) ==
    /\ Notice(/\ InTurn("own", "own") /\ Acceptable(type, inside)
              /\ tracker.items[i] = None /\ Cardinality(StartedItems) < MaxToolItems,
              [Seen("own", "own") EXCEPT !.items[i] = [type |-> type, state |-> "STARTED"]],
              "PROTOCOL")
    /\ UNCHANGED record
ItemActive(i, type) == tracker.items[i] = [type |-> type, state |-> "STARTED"]
ItemCompleted(i, type) ==
    /\ Notice(InTurn("own", "own") /\ ToolAllowed(type) /\ ItemActive(i, type),
              [Seen("own", "own") EXCEPT !.items[i] = [type |-> type, state |-> "COMPLETED"]],
              "PROTOCOL")
    /\ UNCHANGED record
ItemOutput(i, type) ==
    /\ Notice(InTurn("own", "own") /\ ToolAllowed(type) /\ ItemActive(i, type),
              Seen("own", "own"), "PROTOCOL")
    /\ UNCHANGED record

(* A planning turn stores the reported usage at once, and refuses to store *)
(* one below it.                                                           *)
BelowStored(u) == flow = "PLAN" /\ u < record.usage
Stored(u) == IF flow = "PLAN" THEN [record EXCEPT !.usage = u] ELSE record

(* The tracker has the usage before it is stored, and it is stored before  *)
(* the limit is checked.                                                   *)
UsageUpdated(u) ==
    LET accepted == InTurn("own", "own")
        over == flow \in {"ROLE", "PLAN"} /\ u >= TokenLimit IN
    /\ Reading
    /\ IF notes = MaxNotes \/ ~accepted
       THEN Fail("PROTOCOL") /\ UNCHANGED <<tracker, record, faults>>
       ELSE /\ tracker' = [Seen("own", "own") EXCEPT !.usage = u]
            /\ \/ BelowStored(u) /\ Fail("PROTOCOL") /\ UNCHANGED <<record, faults>>
               \/ /\ ~BelowStored(u) /\ record' = Stored(u)
                  /\ IF over THEN Fail("INTERRUPTED") ELSE UNCHANGED <<failure, req, why, refused>>
                  /\ UNCHANGED faults
               \/ flow = "PLAN" /\ StoreFails /\ Fail("PROTOCOL") /\ UNCHANGED record
    /\ notes' = IF notes = MaxNotes THEN notes ELSE notes + 1
    /\ UNCHANGED <<program, child, closing>>

(* The end of the turn: after both responses, after its final answer when  *)
(* it named phases, and with no tool item open.                            *)
OpenItems == {i \in Items : tracker.items[i] # None /\ tracker.items[i].state = "STARTED"}
MayEnd ==
    /\ tracker.sent /\ tracker.thread /\ tracker.turn /\ tracker.terminal = None
    /\ tracker.phase # "COMMENTARY"
    /\ OpenItems = {}
TurnCompleted(th, tu, ending) ==
    /\ Notice(MayEnd /\ th = "own" /\ tu = "own", [tracker EXCEPT !.terminal = ending], "PROTOCOL")
    /\ UNCHANGED record
-----------------------------------------------------------------------------
(***************************************************************************)
(* The program up to the turn                                              *)
(***************************************************************************)
(* A role reserves its run, or finds the one an earlier call reserved, and *)
(* claims the start of the provider, once for ever; then it looks at the   *)
(* checkout.  What fails before the claim leaves the run to a later call.  *)
ReserveRole ==
    /\ pc = "BEGIN" /\ flow = "ROLE"
    /\ \/ /\ record.claim = "NONE"
          /\ record' = [record EXCEPT !.run = "CREATED", !.claim = "OWN"]
          /\ Goto("LAUNCH") \/ Throw("AUTHORITY")
       \/ /\ record' \in {record, [record EXCEPT !.run = "CREATED"]}
          /\ Throw("AUTHORITY")
    /\ UNCHANGED <<client, events, faults>>
ReserveOwned ==
    /\ pc = "BEGIN" /\ flow = "OWNED"
    /\ \/ /\ record' = [record EXCEPT !.run = "CREATED", !.claim = "OWN"]
          /\ Goto("LAUNCH")
       \/ Throw("AUTHORITY") /\ UNCHANGED record
    /\ UNCHANGED <<client, events, faults>>
PrepareReadOnly ==
    /\ pc = "BEGIN" /\ flow \in {"PLAN", "LIVE"}
    /\ Goto("LAUNCH") \/ Throw("START")
    /\ UNCHANGED <<client, events, record, faults>>
Launch ==
    /\ pc = "LAUNCH"
    /\ \/ Goto("SEND") /\ child' = "UP"
       \/ Throw("START") /\ UNCHANGED child
       \/ Durable /\ Throw("AUTHORITY") /\ UNCHANGED child
    /\ UNCHANGED <<req, why, failure, closing, events, record, faults>>

(* Before a request: the time that is left and the abort signal, the       *)
(* authority over the checkout, and the account.                           *)
Bounded == flow \in {"ROLE", "PLAN"}
Send ==
    /\ pc = "SEND"
    /\ \/ Bounded /\ Throw("TIMEOUT") /\ UNCHANGED <<client, events>>
       \/ Durable /\ at \in {"thread", "turn"} /\ Throw("AUTHORITY") /\ UNCHANGED <<client, events>>
       \/ /\ flow = "ROLE" /\ refused = "INTERRUPTED"
          /\ Throw("INTERRUPTED") /\ UNCHANGED <<client, events>>
       \/ /\ at \in {"config", "turn"} /\ (refused # None \/ ~tracker.authed)
          /\ Throw(IF refused # None THEN refused ELSE "AUTH") /\ UNCHANGED <<client, events>>
       \/ /\ at \in {"config", "turn"} => refused = None /\ tracker.authed
          /\ ~(flow = "ROLE" /\ refused = "INTERRUPTED")
          /\ Request(at)
          /\ tracker' = [tracker EXCEPT !.sent = @ \/ (at = "turn" /\ failure = None)]
          /\ pc' = "AWAIT"
          /\ UNCHANGED <<flow, writes, code, captured, refused, notes>>
    /\ UNCHANGED <<record, faults>>

Following ==
    CASE at = "initialize" -> "account"
      [] at = "account" -> IF flow = "LIVE" THEN "thread" ELSE "config"
      [] at = "config" -> "thread"
      [] OTHER -> "turn"
Continue ==
    /\ pc = "AWAIT" /\ HasSettled
    /\ CASE req[at] = "REJECTED" -> Throw(why)
         [] req[at] = "BAD" -> Throw("PROTOCOL")
         [] req[at] = "GOOD" ->
              IF at \in {"thread", "turn"}
              THEN Goto(IF at = "thread" THEN "BIND" ELSE "START")
              ELSE at' = Following /\ pc' = "SEND" /\ UNCHANGED <<flow, writes, code, captured>>
    /\ UNCHANGED <<client, events, record, faults>>
(* What the failure of the store is called: a planning turn has no name    *)
(* for it.                                                                 *)
StoreCode == IF flow = "PLAN" THEN "PROTOCOL" ELSE "STORE"
(* The thread is recorded; it may name another model than the chosen one.  *)
BindThread ==
    /\ pc = "BIND"
    /\ \/ /\ at' = Following /\ pc' = "SEND" /\ UNCHANGED <<flow, writes, code, captured, faults>>
       \/ flow # "LIVE" /\ StoreFails /\ Throw(StoreCode)
       \/ flow \in {"ROLE", "PLAN"} /\ Throw("PROTOCOL") /\ UNCHANGED faults
    /\ UNCHANGED <<client, events, record>>
(* The run is recorded as started, by a planning turn with the usage that  *)
(* was reported since the answer.                                          *)
Started == [Stored(tracker.usage) EXCEPT !.run = "RUNNING", !.bound = TRUE]
StartRun ==
    /\ pc = "START"
    /\ \/ flow = "LIVE" /\ Goto("WAIT") /\ UNCHANGED <<record, faults>>
       \/ /\ flow # "LIVE" /\ ~BelowStored(tracker.usage) /\ record' = Started
          /\ Goto("WAIT") \/ (Bounded /\ Throw("TIMEOUT"))
          /\ UNCHANGED faults
       \/ BelowStored(tracker.usage) /\ Throw("PROTOCOL") /\ UNCHANGED <<record, faults>>
       \/ flow # "LIVE" /\ StoreFails /\ Throw(StoreCode) /\ UNCHANGED record
    /\ UNCHANGED <<client, events>>
-----------------------------------------------------------------------------
(***************************************************************************)
(* Waiting for the end, and the way out                                    *)
(***************************************************************************)
ToClose(c) ==
    /\ pc' = "CLOSE" /\ code' = c
    /\ captured' = [terminal |-> tracker.terminal, usage |-> tracker.usage]
    /\ UNCHANGED <<flow, writes, at>>
WaitForTerminal ==
    /\ pc = "WAIT" /\ (refused # None \/ tracker.terminal # None)
    /\ CASE refused # None -> Throw(refused)
         [] refused = None /\ tracker.terminal = "completed" -> ToClose(None)
         [] refused = None /\ tracker.terminal = "failed" -> Throw("FAILED")
         [] refused = None /\ tracker.terminal = "interrupted" -> Throw("INTERRUPTED")
    /\ UNCHANGED <<client, events, record, faults>>
(* Silence for the idle time, or the end of the absolute one.              *)
NeverExpires == FALSE                    \* faulty: no timer was set
Expires == refused = None /\ tracker.terminal = None
TurnTimeout ==
    /\ pc = "WAIT" /\ Expires /\ Throw("TIMEOUT")
    /\ UNCHANGED <<client, events, record, faults>>

(* The turn is interrupted once, when it is known to run and the client    *)
(* still works.                                                            *)
MayInterrupt ==
    /\ tracker.sent /\ tracker.thread /\ tracker.turn /\ tracker.terminal = None
    /\ failure = None /\ child = "UP" /\ req["interrupt"] = "NEW"
Catch ==
    /\ pc = "CATCH"
    /\ IF MayInterrupt
       THEN /\ Request("interrupt") /\ pc' = "INTERRUPT"
            /\ UNCHANGED <<flow, writes, code, captured>>
       ELSE ToClose(code) /\ UNCHANGED client
    /\ UNCHANGED <<events, record, faults>>
Interrupted ==
    /\ pc = "INTERRUPT" /\ HasSettled /\ ToClose(code)
    /\ UNCHANGED <<client, events, record, faults>>

(* The child has the grace times to close, then it is killed; output that  *)
(* arrives meanwhile is still read.                                        *)
LateFailureIgnored(cleaned) == code      \* faulty: output during the shutdown is not looked at
CodeAfterClose(cleaned) ==
    CASE code # None -> code
      [] failure # None -> failure
      [] ~cleaned -> "CLEANUP"
      [] OTHER -> None
BeginShutdown ==
    /\ pc = "CLOSE" /\ child # "NONE" /\ ~closing
    /\ closing' = TRUE
    /\ UNCHANGED <<program, req, why, failure, child, events, record, faults>>
Shutdown ==
    /\ pc = "CLOSE" /\ (child = "NONE" \/ closing)
    /\ \E cleaned \in BOOLEAN :
         /\ child # "UP" => cleaned
         /\ child' = IF child = "UP" /\ cleaned THEN "CLOSED" ELSE child
         /\ code' = IF child = "NONE" THEN code ELSE CodeAfterClose(cleaned)
    /\ pc' = "CLEAN"
    /\ UNCHANGED <<flow, writes, at, captured, req, why, failure, closing, events, record, faults>>
RemoveWorkspace ==
    /\ pc = "CLEAN" /\ pc' = "SETTLE"
    /\ code' \in {code, IF code = None THEN "CLEANUP" ELSE code}
    /\ UNCHANGED <<flow, writes, at, captured, client, events, record, faults>>
-----------------------------------------------------------------------------
(***************************************************************************)
(* The durable outcome                                                     *)
(***************************************************************************)
Settled(c, next) ==
    code' = c /\ pc' = next /\ UNCHANGED <<flow, writes, at, captured>>
(* A governed role stores the usage of its last callback, an owned attempt *)
(* the one it took before the shutdown.                                    *)
StoredEarly == captured.usage            \* faulty: every flow stores the captured usage
StoredUsage == IF flow = "OWNED" THEN captured.usage ELSE tracker.usage
Succeeds == code = None /\ record.run = "RUNNING" /\ captured.terminal = "completed"

(* The candidate is proven once more, the result stored, then reconciled.  *)
StoreRoleResult ==
    /\ pc = "SETTLE" /\ flow = "ROLE" /\ Succeeds
    /\ \/ Settled("AUTHORITY", "FINALIZE") /\ UNCHANGED <<record, faults>>
       \/ StoreFails /\ Settled("STORE", "FINALIZE") /\ UNCHANGED record
       \/ /\ record' = [record EXCEPT !.run = "SUCCEEDED", !.usage = StoredUsage]
          /\ \/ Settled(None, "DONE") /\ UNCHANGED faults
             \/ StoreFails /\ Settled("STORE", "DONE")
    /\ UNCHANGED <<client, events>>
GateOwnedAttempt ==
    /\ pc = "SETTLE" /\ flow = "OWNED"
    /\ \/ Settled(code, "FINALIZE")
       \/ record.run = "RUNNING" /\ captured.terminal = "completed"
          /\ Settled("AUTHORITY", "FINALIZE")
    /\ UNCHANGED <<client, events, record, faults>>
SkipResult ==
    /\ pc = "SETTLE" /\ flow = "ROLE" /\ ~Succeeds /\ Settled(code, "FINALIZE")
    /\ UNCHANGED <<client, events, record, faults>>

(* A run whose turn was sent and not recorded is left CREATED: nobody      *)
(* knows whether the turn runs.  So is a run that was not claimed here.    *)
FinalizesAll == record.run \in {"CREATED", "RUNNING"}    \* faulty: the sent turn is forgotten
Finalizes ==
    record.run = "RUNNING" \/ (record.run = "CREATED" /\ record.claim = "OWN" /\ ~tracker.sent)
Outcome ==
    CASE record.run = "RUNNING" /\ flow = "OWNED" /\ code = None /\ captured.terminal = "completed"
             -> "SUCCEEDED"
      [] Durable /\ record.run = "RUNNING" /\ captured.terminal = "interrupted" -> "INTERRUPTED"
      [] OTHER -> "FAILED"
Finalize ==
    /\ pc = "FINALIZE"
    /\ IF ~Finalizes THEN Settled(code, "DONE") /\ UNCHANGED <<record, faults>>
       ELSE \/ /\ record' = [record EXCEPT !.run = Outcome,
                                          !.usage = IF Durable /\ record.run = "RUNNING"
                                                    THEN StoredUsage ELSE @]
               /\ Settled(code, "DONE") /\ UNCHANGED faults
            \/ StoreFails /\ Settled("STORE", "DONE") /\ UNCHANGED record
    /\ UNCHANGED <<client, events>>
(* A planning turn stores its usage once more and is finished with its     *)
(* outcome, and when one of them cannot be stored, as failed.              *)
FinishPlanning ==
    /\ pc = "SETTLE" /\ flow = "PLAN"
    /\ \/ /\ ~BelowStored(StoredUsage)
          /\ record' = [record EXCEPT !.run = IF code = None /\ captured.terminal = "completed"
                                              THEN "SUCCEEDED" ELSE "FAILED",
                                      !.usage = StoredUsage]
          /\ Settled(code, "DONE") /\ UNCHANGED faults
       \/ BelowStored(StoredUsage) /\ Settled(code, "FINALIZE") /\ UNCHANGED <<record, faults>>
       \/ /\ StoreFails /\ Settled("STORE", "FINALIZE")
          /\ \/ UNCHANGED record
             \/ ~BelowStored(StoredUsage) /\ record' = Stored(StoredUsage)
    /\ UNCHANGED <<client, events>>
FinishLive ==
    /\ pc = "SETTLE" /\ flow = "LIVE" /\ Settled(code, "DONE")
    /\ UNCHANGED <<client, events, record, faults>>

Program ==
    \/ ReserveRole \/ ReserveOwned \/ PrepareReadOnly \/ Launch \/ Send \/ Continue \/ BindThread \/ StartRun
    \/ WaitForTerminal \/ Catch \/ Interrupted
    \/ BeginShutdown \/ Shutdown \/ RemoveWorkspace
    \/ StoreRoleResult \/ GateOwnedAttempt \/ SkipResult \/ Finalize \/ FinishPlanning \/ FinishLive
Timers == TurnTimeout \/ \E m \in Requests : RequestTimeout(m)
Server ==
    \/ Exit \/ BreakProtocol \/ AccountLost
    \/ \E m \in Requests : AnswerError(m) \/ \E v \in Verdict : Answer(m, v)
    \/ \E th \in Names, e \in BOOLEAN : ThreadStarted(th, e)
    \/ \E th, tu \in Names :
         \/ TurnStarted(th, tu)
         \/ \E p \in {"NONE", "COMMENTARY", "FINAL"} : Message(th, tu, p)
         \/ \E ending \in Endings : TurnCompleted(th, tu, ending)
    \/ \E i \in Items, type \in {"command", "file"} :
         \/ ItemCompleted(i, type) \/ ItemOutput(i, type)
         \/ \E inside \in BOOLEAN : ItemStarted(i, type, inside)
    \/ \E u \in 0 .. MaxUsage : UsageUpdated(u)

Next == Program \/ Timers \/ Server \/ CancelPending
Spec == Init /\ [][Next]_vars

(* The program is driven by the event loop and its timers; the child and   *)
(* whoever aborts the role owe it nothing.                                 *)
FairSpec == Spec /\ WF_vars(Program) /\ WF_vars(Timers)
-----------------------------------------------------------------------------
(***************************************************************************)
(* Properties                                                              *)
(***************************************************************************)
(* A run is recorded as succeeded only for a turn that was acknowledged on *)
(* its thread, completed without any tool item open or answer missing,     *)
(* over a stream that stayed sound until the child was closed, and with    *)
(* the workspace removed: the terminal event alone does not decide it.     *)
ResultIsSound ==
    record.run = "SUCCEEDED" =>
        /\ tracker.thread /\ tracker.turn /\ tracker.terminal = "completed"
        /\ \A i \in Items : tracker.items[i] # None => tracker.items[i].state = "COMPLETED"
        /\ failure = None /\ child = "CLOSED" /\ closing

(* A turn that is over leaves the run it claimed open in two cases only:   *)
(* turn/start was sent and never recorded, or the store failed.  In the    *)
(* first case it is never recorded as over, since the provider may still   *)
(* run it, and neither is a run that an earlier call claimed.              *)
RunIsSettled ==
    /\ pc = "DONE" /\ record.run \in {"CREATED", "RUNNING"} /\ record.claim # "NONE"
       => faults > 0 \/ (record.run = "CREATED" /\ (tracker.sent \/ record.claim = "EARLIER"))
    /\ record.claim = "EARLIER" => record.run = "CREATED" /\ ~tracker.sent
    /\ Durable /\ record.run \in {"FAILED", "INTERRUPTED"} /\ tracker.sent => record.bound

(* The usage a governed role is charged for is the last one the provider   *)
(* reported, whenever the report arrived: before the end, after a timeout, *)
(* while an interrupt is awaited or during the shutdown.  So it is for a   *)
(* planning turn, unless that last report was below an earlier one: then   *)
(* the earlier one is charged, the client has failed, and the turn is no   *)
(* success.                                                                *)
UsageIsLast ==
    /\ flow = "ROLE" /\ record.bound /\ record.run \in {"SUCCEEDED", "FAILED", "INTERRUPTED"}
       => record.usage = tracker.usage
    /\ flow = "PLAN" /\ faults = 0
       => \/ record.usage = tracker.usage
          \/ record.usage > tracker.usage /\ failure # None /\ record.run # "SUCCEEDED"

(* Whatever the child sends, withholds or repeats, the turn ends: requests *)
(* and the wait have timers, and the shutdown kills.                       *)
TurnEnds == <>(pc = "DONE")
=============================================================================
