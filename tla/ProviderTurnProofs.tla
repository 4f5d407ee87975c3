------------------------- MODULE ProviderTurnProofs -------------------------
(***************************************************************************)
(* What the durable record of a provider turn says, for every number of    *)
(* tool items, notifications, tokens and store failures and whatever the   *)
(* child sends: a success is sound, a run is left open only when nobody    *)
(* can know how it ended, and the usage that is charged is the last one,   *)
(* or for a planning turn that failed the one a last report fell below.    *)
(***************************************************************************)
EXTENDS ProviderTurn, TLAPS

(* The end of a turn is its last event, seen while the client was sending. *)
Evidence ==
    /\ tracker.terminal # None =>
          /\ tracker.sent /\ tracker.thread /\ tracker.turn
          /\ \A i \in Items : tracker.items[i] # None => tracker.items[i].state = "COMPLETED"
    /\ captured.terminal \in {None, tracker.terminal}
    /\ tracker.sent => child # "NONE"

Talking == {"SEND", "AWAIT", "BIND", "START", "WAIT", "INTERRUPT"}
Closed == {"CLEAN", "SETTLE", "FINALIZE", "DONE"}
Early == {"BEGIN", "LAUNCH", "SEND", "AWAIT", "BIND", "START"}

(* Once the child was closed a turn without a failure had a sound stream.  *)
Places ==
    /\ pc \in Talking => child # "NONE"
    /\ pc \in Closed =>
          /\ child = "NONE" \/ closing
          /\ code = None => child = "NONE" \/ (failure = None /\ child = "CLOSED")

Ended == {"SUCCEEDED", "FAILED", "INTERRUPTED"}

(* The record and the place of the program.                                *)
Recording ==
    /\ flow = "LIVE" => record.run = "NONE"
    /\ record.run \in Ended => pc = "DONE"
    /\ Durable /\ pc \in Early => record.run \in {"NONE", "CREATED"}
    /\ Durable /\ record.run = "RUNNING" => record.bound
    /\ Durable /\ record.run \in {"NONE", "CREATED"} => ~record.bound
    /\ record.claim = "EARLIER" =>
          flow = "ROLE" /\ record.run = "CREATED" /\ ~tracker.sent /\ pc \notin Talking \cup {"LAUNCH"}

TInv == TypeOK /\ Evidence /\ Places /\ Recording
        /\ ResultIsSound /\ RunIsSettled /\ UsageIsLast

Runs == {"NONE", "CREATED", "RUNNING", "SUCCEEDED", "FAILED", "INTERRUPTED"}

-----------------------------------------------------------------------------
(* The tracker and the record *)

(* A tracker with the evidence of another one, or more responses.          *)
Like(s, t) ==
    /\ s.sent <=> t.sent
    /\ t.thread => s.thread
    /\ t.turn => s.turn
    /\ s.terminal = t.terminal /\ s.items = t.items

(* Responses and notifications that carry no evidence of the end.          *)
LEMMA AuthedFacts == ASSUME NEW t \in Tracker, NEW b \in BOOLEAN
                     PROVE  LET s == [t EXCEPT !.authed = b]
                            IN  s \in Tracker /\ Like(s, t) /\ s.usage = t.usage
BY DEF Tracker, Like
LEMMA ThreadFacts == ASSUME NEW t \in Tracker
                     PROVE  LET s == [t EXCEPT !.thread = TRUE]
                            IN  s \in Tracker /\ Like(s, t) /\ s.usage = t.usage
BY DEF Tracker, Like
LEMMA TurnFacts == ASSUME NEW t \in Tracker
                     PROVE  LET s == [t EXCEPT !.turn = TRUE]
                            IN  s \in Tracker /\ Like(s, t) /\ s.usage = t.usage
BY DEF Tracker, Like
LEMMA SeenThreadFacts == ASSUME NEW t \in Tracker, NEW n \in Names
                     PROVE  LET s == [t EXCEPT !.seenThread = n]
                            IN  s \in Tracker /\ Like(s, t) /\ s.usage = t.usage
BY DEF Tracker, Like
LEMMA SeenFacts == ASSUME NEW t \in Tracker, NEW n \in Names, NEW m \in Names
                     PROVE  LET s == [t EXCEPT !.seenThread = n, !.seenTurn = m]
                            IN  s \in Tracker /\ Like(s, t) /\ s.usage = t.usage
BY DEF Tracker, Like
LEMMA PhaseFacts == ASSUME NEW t \in Tracker, NEW p \in {"NONE", "COMMENTARY", "FINAL"}
                     PROVE  LET s == [t EXCEPT !.phase = p]
                            IN  s \in Tracker /\ Like(s, t) /\ s.usage = t.usage
BY DEF Tracker, Like
LEMMA UsageFacts == ASSUME NEW t \in Tracker, NEW u \in 0 .. MaxUsage
                     PROVE  LET s == [t EXCEPT !.usage = u]
                            IN  s \in Tracker /\ Like(s, t) /\ s.usage = u
BY DEF Tracker, Like
LEMMA SentFacts == ASSUME NEW t \in Tracker, NEW b \in BOOLEAN
                     PROVE  LET s == [t EXCEPT !.sent = b]
                            IN  /\ s \in Tracker /\ (s.sent <=> b) /\ (s.thread <=> t.thread)
                                /\ (s.turn <=> t.turn) /\ s.terminal = t.terminal
                                /\ s.items = t.items /\ s.usage = t.usage
BY DEF Tracker
LEMMA TerminalFacts == ASSUME NEW t \in Tracker, NEW e \in Endings
                     PROVE  LET s == [t EXCEPT !.terminal = e]
                            IN  /\ s \in Tracker /\ (s.sent <=> t.sent) /\ (s.thread <=> t.thread)
                                /\ (s.turn <=> t.turn) /\ s.terminal = e
                                /\ s.items = t.items /\ s.usage = t.usage
BY DEF Tracker
LEMMA ItemFacts == ASSUME NEW t \in Tracker, NEW i \in Items, NEW x \in ToolItem
                     PROVE  LET s == [t EXCEPT !.items[i] = x]
                            IN  /\ s \in Tracker /\ (s.sent <=> t.sent) /\ (s.thread <=> t.thread)
                                /\ (s.turn <=> t.turn) /\ s.terminal = t.terminal
                                /\ s.usage = t.usage
BY DEF Tracker

(* Changes of the record.                                                  *)
LEMMA RunFacts == ASSUME NEW r \in Record, NEW x \in Runs
                  PROVE  LET s == [r EXCEPT !.run = x]
                         IN  /\ s \in Record /\ s.run = x /\ s.claim = r.claim
                             /\ (s.bound <=> r.bound) /\ s.usage = r.usage
BY DEF Record, Runs
LEMMA ClaimedFacts == ASSUME NEW r \in Record
                  PROVE  LET s == [r EXCEPT !.run = "CREATED", !.claim = "OWN"]
                         IN  /\ s \in Record /\ s.run = "CREATED" /\ s.claim = "OWN"
                             /\ (s.bound <=> r.bound) /\ s.usage = r.usage
BY DEF Record
LEMMA BoundFacts == ASSUME NEW r \in Record
                  PROVE  LET s == [r EXCEPT !.run = "RUNNING", !.bound = TRUE]
                         IN  /\ s \in Record /\ s.run = "RUNNING" /\ s.claim = r.claim
                             /\ s.bound /\ s.usage = r.usage
BY DEF Record
LEMMA ChargedFacts == ASSUME NEW r \in Record, NEW u \in 0 .. MaxUsage
                  PROVE  LET s == [r EXCEPT !.usage = u]
                         IN  /\ s \in Record /\ s.run = r.run /\ s.claim = r.claim
                             /\ (s.bound <=> r.bound) /\ s.usage = u
BY DEF Record
LEMMA StartedFacts == ASSUME NEW r \in Record, NEW u \in 0 .. MaxUsage
                  PROVE  LET s == [[r EXCEPT !.usage = u] EXCEPT !.run = "RUNNING", !.bound = TRUE]
                         IN  /\ s \in Record /\ s.run = "RUNNING" /\ s.claim = r.claim
                             /\ s.bound /\ s.usage = u
BY DEF Record

-----------------------------------------------------------------------------
(* The start *)

(* The invariant holds at the start of each program.                       *)
LEMMA TurnStarts == Init => TInv
<1> SUFFICES ASSUME Init PROVE TInv
  OBVIOUS
<1> USE ConstantsAssumption DEF Init
<1>1. tracker \in Tracker /\ tracker.terminal = None /\ ~tracker.sent /\ tracker.usage = 0
  BY DEF Tracker
<1> DEFINE first == CASE flow = "PLAN" -> {"RUNNING"}
                      [] flow = "ROLE" -> {"NONE", "CREATED"}
                      [] OTHER -> {"NONE"}
<1>2. /\ record \in [run : first, claim : {"NONE", "EARLIER"}, bound : {FALSE}, usage : {0}]
      /\ record.claim = "EARLIER" => record.run = "CREATED"
  OBVIOUS
<1>3. /\ first \subseteq {"NONE", "CREATED", "RUNNING"}
      /\ flow = "PLAN" => first = {"RUNNING"}
      /\ flow = "ROLE" => first = {"NONE", "CREATED"}
      /\ flow \notin {"PLAN", "ROLE"} => first = {"NONE"}
  OBVIOUS
<1> HIDE DEF first
<1>4. /\ record.run \in first /\ record.bound = FALSE /\ record.usage = 0
      /\ record.claim \in {"NONE", "EARLIER"}
  BY <1>2
<1>5. record \in Record
  <2>1. record.run \in Runs /\ record.claim \in {"NONE", "OWN", "EARLIER"}
        /\ record.bound \in BOOLEAN /\ record.usage \in 0 .. MaxUsage
    <3> HIDE DEF Init
    <3>1. first \subseteq Runs
      BY ONLY <1>3 DEF Runs
    <3>2. record.run \in Runs
      BY ONLY <1>4, <3>1
    <3>3. 0 \in 0 .. MaxUsage
      BY ONLY ConstantsAssumption
    <3> QED BY ONLY <1>4, <3>2, <3>3
  <2>2. record = [ run |-> record.run, claim |-> record.claim,
                   bound |-> record.bound, usage |-> record.usage ]
    BY <1>2
  <2> HIDE DEF Init
  <2> QED BY <2>1, <2>2 DEF Record, Runs
<1>6. captured \in [terminal : Endings \cup {None}, usage : 0 .. MaxUsage] /\ captured.terminal = None
  OBVIOUS
<1>7. writes \in BOOLEAN
  OBVIOUS
<1>8. TypeOK
  <2>1. /\ flow \in Flows /\ pc = "BEGIN" /\ at \in Requests /\ code = None
        /\ why = None /\ failure = None /\ refused = None /\ child = "NONE" /\ closing = FALSE
    BY DEF Requests
  <2>2. req \in [Requests -> {"NEW", "PENDING", "REJECTED"} \cup Verdict]
    OBVIOUS
  <2>3. notes \in 0 .. MaxNotes /\ faults \in 0 .. MaxFaults
    OBVIOUS
  <2> QED BY ONLY <1>1, <1>5, <1>6, <1>7, <2>1, <2>2, <2>3 DEF TypeOK
<1>9. Evidence
  BY <1>1, <1>6 DEF Evidence
<1>10. Places
  BY DEF Places, Talking, Closed
<1>11. Recording
  BY <1>1, <1>2, <1>3, <1>4 DEF Recording, Ended, Durable, Talking
<1>12. ResultIsSound /\ RunIsSettled /\ UsageIsLast
  BY <1>1, <1>2, <1>3, <1>4 DEF ResultIsSound, RunIsSettled, UsageIsLast, Durable
<1> QED BY <1>8, <1>9, <1>10, <1>11, <1>12 DEF TInv

-----------------------------------------------------------------------------
(* Whatever is heard *)

ClientOK ==
    /\ req \in [Requests -> {"NEW", "PENDING", "REJECTED"} \cup Verdict]
    /\ why \in Codes \cup {None}
    /\ failure \in Codes \cup {None} /\ refused \in Codes \cup {None}
ClientMoves == ClientOK' /\ (failure # None => failure' # None)

(* A failure of the client is well formed, and stays.                      *)
LEMMA FailTyped ==
    ASSUME TypeOK, NEW c \in Codes, Fail(c)
    PROVE  ClientMoves /\ failure' # None
BY ConstantsAssumption DEF TypeOK, Fail, Rejected, Refuse, ClientOK, ClientMoves

(* What a message may do to the tracker: more responses, work before the   *)
(* end, or the end.                                                        *)
Works(s, t) ==
    /\ t.terminal = None /\ s.terminal = None
    /\ s.sent <=> t.sent
    /\ t.thread => s.thread
    /\ t.turn => s.turn
Completes(s, t) ==
    /\ t.terminal = None /\ s.sent /\ s.thread /\ s.turn /\ t.sent /\ t.thread /\ t.turn
    /\ s.items = t.items
    /\ \A i \in Items : t.items[i] # None => t.items[i].state = "COMPLETED"
Grows(s, t) == Like(s, t) \/ Works(s, t) \/ Completes(s, t)

(* Messages, timers of requests and the abort signal leave the program     *)
(* where it is, and nothing is heard after the child was closed.           *)
Hears ==
    /\ UNCHANGED program /\ closing' = closing /\ ClientMoves /\ notes' \in 0 .. MaxNotes
    /\ child' = child \/ (child = "UP" /\ child' = "CLOSED")
    /\ tracker' \in Tracker /\ Grows(tracker', tracker)
    /\ record' \in Record /\ record'.run = record.run /\ record'.claim = record.claim
    /\ record'.bound <=> record.bound
    /\ pc \in Closed => /\ tracker' = tracker /\ record' = record
                        /\ closing => failure' = failure
    /\ faults' \in {faults, faults + 1} /\ faults' \in 0 .. MaxFaults
    /\ flow = "PLAN" /\ faults' = 0
          => \/ record'.usage = record.usage /\ tracker'.usage = tracker.usage
             \/ record'.usage = tracker'.usage
             \/ record'.usage > tracker'.usage /\ failure' # None

(* It keeps the invariant.                                                 *)
LEMMA HearingKeeps == ASSUME TInv, Hears PROVE TInv'
<1> USE DEF program
<1>1. /\ TypeOK /\ Evidence /\ Places /\ Recording /\ ResultIsSound /\ RunIsSettled /\ UsageIsLast
      /\ flow' = flow /\ pc' = pc /\ code' = code /\ captured' = captured
  BY DEF TInv, Hears
<1>2. TypeOK'
  BY <1>1 DEF TypeOK, Hears, ClientOK, ClientMoves
<1>3. tracker' \in Tracker /\ Grows(tracker', tracker) /\ (tracker'.sent <=> tracker.sent)
  BY DEF Hears, Grows, Like, Works, Completes
<1>4. Evidence'
  <2>1. ASSUME tracker'.terminal # None
        PROVE  /\ tracker'.sent /\ tracker'.thread /\ tracker'.turn
               /\ \A i \in Items : tracker'.items[i] # None => tracker'.items[i].state = "COMPLETED"
    BY <1>1, <1>3, <2>1 DEF Grows, Like, Works, Completes, Evidence
  <2>2. captured'.terminal \in {None, tracker'.terminal}
    BY <1>1, <1>3 DEF Grows, Like, Works, Completes, Evidence
  <2>3. tracker'.sent => child' # "NONE"
    BY <1>1, <1>3 DEF Hears, Evidence
  <2> QED BY <2>1, <2>2, <2>3 DEF Evidence
<1>5. Places'
  BY <1>1 DEF Places, Hears, Closed
<1>6. record'.run = record.run /\ record'.claim = record.claim /\ (record'.bound <=> record.bound)
  BY DEF Hears
<1>7. Recording'
  BY <1>1, <1>3, <1>6 DEF Recording, Durable
<1>8. record.run \in Ended => pc = "DONE" /\ tracker' = tracker /\ record' = record
                              /\ (closing => failure' = failure)
  BY <1>1 DEF Recording, Hears, Closed
<1>9. ResultIsSound'
  <2>1. CASE record'.run = "SUCCEEDED"
    <3>1. /\ record.run = "SUCCEEDED" /\ tracker' = tracker /\ (closing => failure' = failure)
      BY <1>6, <1>8, <2>1 DEF Ended
    <3> QED BY <1>1, <3>1 DEF ResultIsSound, Hears
  <2> QED BY <2>1 DEF ResultIsSound
<1>10. RunIsSettled'
  <2>1. faults > 0 => faults' > 0
    BY <1>1 DEF Hears, TypeOK
  <2> QED BY <1>1, <1>3, <1>6, <2>1 DEF RunIsSettled, Durable
<1>11. UsageIsLast'
  <2>1. ASSUME flow = "ROLE", record'.bound, record'.run \in Ended
        PROVE  record'.usage = tracker'.usage
    BY <1>1, <1>6, <1>8, <2>1 DEF UsageIsLast, Ended
  <2>2. ASSUME flow = "PLAN", faults' = 0
        PROVE  \/ record'.usage = tracker'.usage
               \/ record'.usage > tracker'.usage /\ failure' # None /\ record'.run # "SUCCEEDED"
    <3>1. faults = 0 /\ (failure # None => failure' # None)
      BY <1>1, <2>2 DEF Hears, ClientMoves, TypeOK
    <3>2. CASE record.run = "SUCCEEDED"
      BY <1>1, <1>8, <2>2, <3>1, <3>2 DEF UsageIsLast, Ended
    <3>3. CASE record.run # "SUCCEEDED"
      BY <1>1, <1>6, <2>2, <3>1, <3>3 DEF UsageIsLast, Hears
    <3> QED BY <3>2, <3>3
  <2> QED BY <1>1, <2>1, <2>2 DEF UsageIsLast, Ended
<1> QED BY <1>2, <1>4, <1>5, <1>7, <1>9, <1>10, <1>11 DEF TInv

(* Nothing of the turn is heard.                                           *)
LEMMA HeardNothing ==
    ASSUME TypeOK, UNCHANGED <<program, closing, tracker, record, faults>>, ClientMoves,
           notes' \in 0 .. MaxNotes, child' = child \/ (child = "UP" /\ child' = "CLOSED"),
           pc \in Closed /\ closing => failure' = failure
    PROVE  Hears
<1>1. tracker \in Tracker /\ record \in Record /\ faults \in 0 .. MaxFaults
  BY DEF TypeOK
<1>2. Grows(tracker', tracker)
  BY DEF Grows, Like
<1> QED BY <1>1, <1>2 DEF Hears

(* Something of the turn is heard while the output is read.                *)
LEMMA HeardSomething ==
    ASSUME TypeOK, UNCHANGED <<program, child, closing, record, faults>>, ClientMoves,
           notes' \in 0 .. MaxNotes, Reading,
           tracker' \in Tracker, Grows(tracker', tracker), tracker'.usage = tracker.usage
    PROVE  Hears
<1>1. record \in Record /\ faults \in 0 .. MaxFaults /\ pc \notin Closed
  BY DEF TypeOK, Reading, Closed
<1> QED BY <1>1 DEF Hears

(* Timers of requests, the abort signal, the end of the child and what     *)
(* breaks the protocol.                                                    *)
LEMMA DisturbancesHeard ==
    ASSUME TypeOK,
           \/ \E m \in Requests : RequestTimeout(m) \/ AnswerError(m)
           \/ CancelPending \/ Exit \/ BreakProtocol
    PROVE  Hears
<1> USE DEF client, events, TypeOK
<1>1. CASE \E m \in Requests : RequestTimeout(m) \/ AnswerError(m)
  <2>1. ClientMoves
    BY <1>1 DEF RequestTimeout, AnswerError, ClientOK, ClientMoves, Codes
  <2> QED BY <1>1, <2>1, HeardNothing DEF RequestTimeout, AnswerError
<1>2. CASE CancelPending
  <2>1. ClientMoves
    BY <1>2 DEF CancelPending, ClientOK, ClientMoves, Codes, Rejected, Refuse
  <2> QED BY <1>2, <2>1, HeardNothing DEF CancelPending
<1>3. CASE Exit
  <2>1. "EXITED" \in Codes
    BY DEF Codes
  <2>2. ClientMoves
    BY <1>3, <2>1, FailTyped DEF Exit, ClientOK, ClientMoves
  <2> QED BY <1>3, <2>2, HeardNothing DEF Exit
<1>4. CASE BreakProtocol
  <2>1. "PROTOCOL" \in Codes /\ pc \notin Closed
    BY <1>4 DEF Codes, BreakProtocol, Reading, Closed
  <2>2. ClientMoves
    BY <1>4, <2>1, FailTyped DEF BreakProtocol
  <2> QED BY <1>4, <2>1, <2>2, HeardNothing DEF BreakProtocol
<1> QED BY <1>1, <1>2, <1>3, <1>4

(* Answers.                                                                *)
LEMMA AnswersHeard ==
    ASSUME TypeOK, NEW m \in Requests, NEW verdict \in Verdict, Answer(m, verdict)
    PROVE  Hears
<1>1. tracker \in Tracker /\ Reading /\ pc \notin Closed /\ notes \in 0 .. MaxNotes
      /\ UNCHANGED <<program, child, closing, notes, record, faults>>
  BY DEF Answer, TypeOK, Reading, Closed
<1>2. CASE \E c \in {"AUTH", "PROTOCOL"} : Fail(c) /\ tracker' = tracker
  <2>1. ClientMoves
    BY <1>2, FailTyped DEF Codes
  <2> QED BY <1>1, <1>2, <2>1, HeardNothing
<1>3. CASE /\ req' = [req EXCEPT ![m] = verdict] /\ tracker' = Observe(m)
           /\ UNCHANGED <<failure, why, refused>>
  <2>1. ClientMoves
    BY <1>3 DEF TypeOK, ClientOK, ClientMoves
  <2>2. tracker' \in Tracker /\ Like(tracker', tracker) /\ tracker'.usage = tracker.usage
    <3>1. CASE m = "account"
      BY <1>1, <1>3, <3>1, AuthedFacts DEF Observe
    <3>2. CASE m = "thread"
      BY <1>1, <1>3, <3>2, ThreadFacts DEF Observe
    <3>3. CASE m = "turn"
      BY <1>1, <1>3, <3>3, TurnFacts DEF Observe
    <3>4. CASE m \notin {"account", "thread", "turn"}
      BY <1>1, <1>3, <3>4 DEF Observe, Like
    <3> QED BY <3>1, <3>2, <3>3, <3>4
  <2> QED BY <1>1, <2>1, <2>2, HeardSomething DEF Grows
<1> QED BY <1>2, <1>3 DEF Answer

(* A notification counts, and is refused or changes the tracker.           *)
LEMMA NoticeTyped ==
    ASSUME TypeOK, NEW accepted \in BOOLEAN, NEW next, Notice(accepted, next, "PROTOCOL")
    PROVE  /\ Reading /\ ClientMoves /\ notes' \in 0 .. MaxNotes
           /\ UNCHANGED <<program, child, closing, faults>>
           /\ tracker' = tracker \/ (accepted /\ tracker' = next)
<1>1. UNCHANGED <<failure, req, why, refused>> => ClientMoves
  BY DEF TypeOK, ClientOK, ClientMoves
<1>2. Fail("PROTOCOL") => ClientMoves
  BY FailTyped DEF Codes
<1>3. notes # MaxNotes => notes + 1 \in 0 .. MaxNotes
  BY ConstantsAssumption DEF TypeOK
<1> QED BY <1>1, <1>2, <1>3 DEF Notice, TypeOK

(* The account, the thread, the turn, its messages and its end.            *)
LEMMA NotificationsHeard ==
    ASSUME TypeOK, NEW th \in Names, NEW tu \in Names,
           \/ AccountLost
           \/ \E e \in BOOLEAN : ThreadStarted(th, e)
           \/ TurnStarted(th, tu)
           \/ \E p \in {"NONE", "COMMENTARY", "FINAL"} : Message(th, tu, p)
           \/ \E ending \in Endings : TurnCompleted(th, tu, ending)
    PROVE  Hears
<1>1. tracker \in Tracker
  BY DEF TypeOK
<1>2. ASSUME /\ Reading /\ ClientMoves /\ notes' \in 0 .. MaxNotes
             /\ UNCHANGED <<program, child, closing, record, faults>>,
             tracker' = tracker
                \/ (tracker' \in Tracker /\ Grows(tracker', tracker) /\ tracker'.usage = tracker.usage)
      PROVE  Hears
  BY <1>1, <1>2, HeardSomething DEF Grows, Like
<1>3. CASE AccountLost
  <2>1. ClientMoves /\ notes' \in 0 .. MaxNotes
    BY <1>3, ConstantsAssumption DEF AccountLost, client, TypeOK, ClientOK, ClientMoves, Refuse, Codes
  <2>2. tracker' \in Tracker /\ Like(tracker', tracker) /\ tracker'.usage = tracker.usage
    BY <1>1, <1>3, AuthedFacts DEF AccountLost
  <2> QED BY <1>2, <1>3, <2>1, <2>2 DEF AccountLost, client, Grows
<1>4. CASE \E e \in BOOLEAN : ThreadStarted(th, e)
  <2>1. PICK e \in BOOLEAN :
            /\ Notice(e /\ SameThread(th), [tracker EXCEPT !.seenThread = th], "PROTOCOL")
            /\ UNCHANGED record
    BY <1>4 DEF ThreadStarted
  <2>2. (e /\ SameThread(th)) \in BOOLEAN
    BY DEF SameThread
  <2>3. /\ Reading /\ ClientMoves /\ notes' \in 0 .. MaxNotes
        /\ UNCHANGED <<program, child, closing, faults>>
        /\ tracker' = tracker \/ tracker' = [tracker EXCEPT !.seenThread = th]
    BY <2>1, <2>2, NoticeTyped
  <2> QED BY <1>1, <1>2, <2>1, <2>3, SeenThreadFacts DEF Grows
<1>5. CASE TurnStarted(th, tu)
  <2>1. InTurn(th, tu) \in BOOLEAN
    BY DEF InTurn
  <2>2. /\ Reading /\ ClientMoves /\ notes' \in 0 .. MaxNotes
        /\ UNCHANGED <<program, child, closing, faults>>
        /\ tracker' = tracker \/ tracker' = Seen(th, tu)
    BY <1>5, <2>1, NoticeTyped DEF TurnStarted
  <2>3. Seen(th, tu) \in Tracker /\ Like(Seen(th, tu), tracker) /\ Seen(th, tu).usage = tracker.usage
    BY <1>1, SeenFacts DEF Seen
  <2>4. record' = record
    BY <1>5 DEF TurnStarted
  <2>5. tracker' = tracker
        \/ (tracker' \in Tracker /\ Grows(tracker', tracker) /\ tracker'.usage = tracker.usage)
    BY <2>2, <2>3 DEF Grows
  <2> QED BY <1>2, <2>2, <2>4, <2>5
<1>6. CASE \E p \in {"NONE", "COMMENTARY", "FINAL"} : Message(th, tu, p)
  <2>1. PICK p \in {"NONE", "COMMENTARY", "FINAL"} : Message(th, tu, p)
    BY <1>6
  <2> DEFINE accepted == InTurn(th, tu) /\ ~(p = "FINAL" /\ tracker.phase = "FINAL")
             phase == IF p = "NONE" \/ tracker.phase = "FINAL" THEN tracker.phase ELSE p
             next == [Seen(th, tu) EXCEPT !.phase = phase]
  <2>2. Seen(th, tu) \in Tracker /\ Like(Seen(th, tu), tracker) /\ Seen(th, tu).usage = tracker.usage
        /\ Seen(th, tu).phase = tracker.phase /\ tracker.phase \in {"NONE", "COMMENTARY", "FINAL"}
    BY <1>1, SeenFacts DEF Seen, Tracker
  <2>3. next = [Seen(th, tu) EXCEPT !.phase = IF p = "NONE" \/ @ = "FINAL" THEN @ ELSE p]
    BY <2>2
  <2>4. accepted \in BOOLEAN
    OBVIOUS
  <2>5. Notice(accepted, next, "PROTOCOL") /\ record' = record
    BY <2>1, <2>3 DEF Message
  <2> HIDE DEF accepted
  <2>6. next \in Tracker /\ Like(next, Seen(th, tu)) /\ next.usage = tracker.usage
    BY <2>2, PhaseFacts
  <2> HIDE DEF next
  <2>7. /\ Reading /\ ClientMoves /\ notes' \in 0 .. MaxNotes
        /\ UNCHANGED <<program, child, closing, faults>>
        /\ tracker' = tracker \/ tracker' = next
    BY <2>4, <2>5, NoticeTyped
  <2>8. Like(next, tracker)
    BY <2>2, <2>6 DEF Like
  <2> QED BY <1>2, <2>5, <2>6, <2>7, <2>8 DEF Grows
<1>7. CASE \E ending \in Endings : TurnCompleted(th, tu, ending)
  <2>1. PICK ending \in Endings : TurnCompleted(th, tu, ending)
    BY <1>7
  <2> DEFINE accepted == MayEnd /\ th = "own" /\ tu = "own"
             next == [tracker EXCEPT !.terminal = ending]
  <2>2. accepted \in BOOLEAN
    BY DEF MayEnd
  <2>3. Notice(accepted, next, "PROTOCOL") /\ record' = record
    BY <2>1 DEF TurnCompleted
  <2>4. next \in Tracker /\ (next.sent <=> tracker.sent) /\ (next.thread <=> tracker.thread)
        /\ (next.turn <=> tracker.turn) /\ next.items = tracker.items /\ next.usage = tracker.usage
    BY <1>1, TerminalFacts
  <2> HIDE DEF next
  <2>5. accepted => Completes(next, tracker)
    <3>1. SUFFICES ASSUME MayEnd PROVE Completes(next, tracker)
      OBVIOUS
    <3>2. \A i \in Items : tracker.items[i] # None => tracker.items[i].state # "STARTED"
      BY <3>1 DEF MayEnd, OpenItems
    <3>3. \A i \in Items : tracker.items[i] \in ToolItem \cup {None}
      BY <1>1 DEF Tracker
    <3>4. \A i \in Items : tracker.items[i] # None => tracker.items[i].state = "COMPLETED"
      BY <3>2, <3>3 DEF ToolItem
    <3> QED BY <2>4, <3>1, <3>4 DEF Completes, MayEnd
  <2> HIDE DEF accepted
  <2>6. /\ Reading /\ ClientMoves /\ notes' \in 0 .. MaxNotes
        /\ UNCHANGED <<program, child, closing, faults>>
        /\ tracker' = tracker \/ (accepted /\ tracker' = next)
    BY <2>2, <2>3, NoticeTyped
  <2> QED BY <1>2, <2>3, <2>4, <2>5, <2>6 DEF Grows
<1> QED BY <1>3, <1>4, <1>5, <1>6, <1>7

(* Tool items, before the end of the turn.                                 *)
LEMMA ItemsHeard ==
    ASSUME TypeOK, NEW i \in Items, NEW type \in {"command", "file"},
           \/ \E inside \in BOOLEAN : ItemStarted(i, type, inside)
           \/ ItemCompleted(i, type) \/ ItemOutput(i, type)
    PROVE  Hears
<1>1. tracker \in Tracker /\ "own" \in Names
  BY DEF TypeOK, Names
<1> DEFINE seen == Seen("own", "own")
<1>2. seen \in Tracker /\ Like(seen, tracker) /\ seen.usage = tracker.usage
  BY <1>1, SeenFacts DEF Seen
<1> HIDE DEF seen
<1>3. ASSUME NEW state \in {"STARTED", "COMPLETED"}
      PROVE  LET next == [seen EXCEPT !.items[i] = [type |-> type, state |-> state]]
             IN  /\ next \in Tracker /\ next.usage = tracker.usage
                 /\ tracker.terminal = None => Works(next, tracker)
  <2>1. [type |-> type, state |-> state] \in ToolItem
    BY DEF ToolItem
  <2> DEFINE next == [seen EXCEPT !.items[i] = [type |-> type, state |-> state]]
  <2>2. next \in Tracker /\ (next.sent <=> seen.sent) /\ (next.thread <=> seen.thread)
        /\ (next.turn <=> seen.turn) /\ next.terminal = seen.terminal /\ next.usage = seen.usage
    BY <1>2, <2>1, ItemFacts
  <2> HIDE DEF next
  <2>3. next \in Tracker /\ next.usage = tracker.usage
        /\ (tracker.terminal = None => Works(next, tracker))
    BY <1>2, <2>2 DEF Works, Like
  <2> QED BY <2>3 DEF next
<1>4. \E accepted \in BOOLEAN, next \in Tracker :
          /\ Notice(accepted, next, "PROTOCOL") /\ record' = record
          /\ next.usage = tracker.usage
          /\ accepted => Grows(next, tracker)
  <2>1. CASE \E inside \in BOOLEAN : ItemStarted(i, type, inside)
    <3>1. PICK inside \in BOOLEAN : ItemStarted(i, type, inside)
      BY <2>1
    <3> DEFINE accepted == /\ InTurn("own", "own") /\ Acceptable(type, inside)
                           /\ tracker.items[i] = None /\ Cardinality(StartedItems) < MaxToolItems
               next == [seen EXCEPT !.items[i] = [type |-> type, state |-> "STARTED"]]
    <3>2. Notice(accepted, next, "PROTOCOL") /\ record' = record
      BY <3>1 DEF ItemStarted, seen
    <3>3. accepted \in BOOLEAN /\ (accepted => tracker.terminal = None)
      BY DEF InTurn
    <3>4. next \in Tracker /\ next.usage = tracker.usage
          /\ (tracker.terminal = None => Works(next, tracker))
      BY <1>3
    <3> HIDE DEF accepted, next
    <3> QED BY <3>2, <3>3, <3>4 DEF Grows
  <2>2. CASE ItemCompleted(i, type)
    <3> DEFINE accepted == InTurn("own", "own") /\ ToolAllowed(type) /\ ItemActive(i, type)
               next == [seen EXCEPT !.items[i] = [type |-> type, state |-> "COMPLETED"]]
    <3>1. Notice(accepted, next, "PROTOCOL") /\ record' = record
      BY <2>2 DEF ItemCompleted, seen
    <3>2. accepted \in BOOLEAN /\ (accepted => tracker.terminal = None)
      BY DEF InTurn
    <3>3. next \in Tracker /\ next.usage = tracker.usage
          /\ (tracker.terminal = None => Works(next, tracker))
      BY <1>3
    <3> HIDE DEF accepted, next
    <3> QED BY <3>1, <3>2, <3>3 DEF Grows
  <2>3. CASE ItemOutput(i, type)
    <3> DEFINE accepted == InTurn("own", "own") /\ ToolAllowed(type) /\ ItemActive(i, type)
    <3>1. Notice(accepted, seen, "PROTOCOL") /\ record' = record
      BY <2>3 DEF ItemOutput, seen
    <3>2. accepted \in BOOLEAN
      BY DEF InTurn
    <3> HIDE DEF accepted
    <3> QED BY <1>2, <3>1, <3>2 DEF Grows
  <2> QED BY <2>1, <2>2, <2>3
<1>5. PICK accepted \in BOOLEAN, next \in Tracker :
          /\ Notice(accepted, next, "PROTOCOL") /\ record' = record
          /\ next.usage = tracker.usage
          /\ accepted => Grows(next, tracker)
  BY <1>4
<1>6. /\ Reading /\ ClientMoves /\ notes' \in 0 .. MaxNotes
      /\ UNCHANGED <<program, child, closing, faults>>
      /\ tracker' = tracker \/ (accepted /\ tracker' = next)
  BY <1>5, NoticeTyped
<1>7. Grows(tracker', tracker) /\ tracker' \in Tracker /\ tracker'.usage = tracker.usage
  BY <1>1, <1>5, <1>6 DEF Grows, Like
<1> QED BY <1>5, <1>6, <1>7, HeardSomething

(* Usage, which a planning turn stores at once, refuses because it is      *)
(* below the stored one, or notes as not stored.                           *)
LEMMA UsageHeard ==
    ASSUME TypeOK, NEW u \in 0 .. MaxUsage, UsageUpdated(u)
    PROVE  Hears
<1>1. /\ tracker \in Tracker /\ record \in Record /\ "own" \in Names /\ faults \in 0 .. MaxFaults
      /\ Reading /\ pc \notin Closed /\ UNCHANGED <<program, child, closing>>
  BY DEF TypeOK, Names, UsageUpdated, Reading, Closed
<1>2. notes' \in 0 .. MaxNotes
  BY ConstantsAssumption DEF UsageUpdated, TypeOK
<1>3. ASSUME NEW c \in {"PROTOCOL", "INTERRUPTED"}, Fail(c) PROVE ClientMoves /\ failure' # None
  BY <1>3, FailTyped DEF Codes
<1>4. UNCHANGED <<failure, req, why, refused>> => ClientMoves
  BY DEF TypeOK, ClientOK, ClientMoves
<1>5. CASE Fail("PROTOCOL") /\ UNCHANGED <<tracker, record, faults>>
  BY <1>1, <1>2, <1>3, <1>5, HeardNothing
<1> DEFINE seen == Seen("own", "own")
           next == [seen EXCEPT !.usage = u]
<1>6. CASE /\ tracker' = next
           /\ \/ BelowStored(u) /\ Fail("PROTOCOL") /\ UNCHANGED <<record, faults>>
              \/ /\ record' = Stored(u)
                 /\ Fail("INTERRUPTED") \/ UNCHANGED <<failure, req, why, refused>>
                 /\ UNCHANGED faults
              \/ flow = "PLAN" /\ StoreFails /\ Fail("PROTOCOL") /\ UNCHANGED record
  <2>1. seen \in Tracker /\ Like(seen, tracker)
    BY <1>1, SeenFacts DEF Seen
  <2> HIDE DEF seen
  <2>2. next \in Tracker /\ Like(next, seen) /\ next.usage = u
    BY <2>1, UsageFacts
  <2> HIDE DEF next
  <2>3. tracker' \in Tracker /\ Grows(tracker', tracker) /\ tracker'.usage = u
    BY <1>6, <2>1, <2>2 DEF Grows, Like
  <2>4. ClientMoves
    BY <1>3, <1>4, <1>6
  <2>5. /\ record' \in Record /\ record'.run = record.run /\ record'.claim = record.claim
        /\ (record'.bound <=> record.bound)
        /\ faults' \in {faults, faults + 1} /\ faults' \in 0 .. MaxFaults
        /\ flow = "PLAN" => \/ record'.usage = u \/ faults' # 0
                            \/ record'.usage > u /\ failure' # None
    <3>1. CASE BelowStored(u) /\ Fail("PROTOCOL") /\ UNCHANGED <<record, faults>>
      <4>1. record.usage \in Nat /\ u \in Nat /\ u < record.usage
        BY <1>1, <3>1 DEF BelowStored, Record
      <4> QED BY <1>1, <1>3, <3>1, <4>1
    <3>2. CASE record' = Stored(u) /\ UNCHANGED faults
      BY <1>1, <3>2, ChargedFacts DEF Stored
    <3>3. CASE StoreFails /\ UNCHANGED record
      BY <1>1, <3>3, ConstantsAssumption DEF StoreFails
    <3> QED BY <1>6, <3>1, <3>2, <3>3
  <2> QED BY <1>1, <1>2, <2>3, <2>4, <2>5 DEF Hears
<1> QED BY <1>5, <1>6 DEF UsageUpdated

-----------------------------------------------------------------------------
(* The program *)

(* A step that leaves the record alone and the turn open.                  *)
LEMMA MoveKeeps ==
    ASSUME TInv, pc # "DONE", flow' = flow, record' = record, TypeOK', Places',
           tracker' = tracker \/ (pc \in Talking /\ tracker' = [tracker EXCEPT !.sent = TRUE]),
           faults' \in {faults, faults + 1},
           captured'.terminal \in {None, tracker.terminal},
           child # "NONE" => child' # "NONE", failure # None => failure' # None,
           pc' = "DONE" => flow = "LIVE",
           pc' \in Early => pc \in Early,
           record.claim = "EARLIER" => pc' \notin Talking \cup {"LAUNCH"}
    PROVE  TInv'
<1>1. /\ TypeOK /\ Evidence /\ Places /\ Recording /\ ResultIsSound /\ RunIsSettled /\ UsageIsLast
      /\ tracker \in Tracker
  BY DEF TInv, TypeOK
<1>2. record.run \notin Ended
  BY <1>1 DEF Recording
<1>3. /\ (tracker'.thread <=> tracker.thread) /\ (tracker'.turn <=> tracker.turn)
      /\ tracker'.terminal = tracker.terminal /\ tracker'.items = tracker.items
      /\ tracker'.usage = tracker.usage
      /\ tracker.sent => tracker'.sent
      /\ tracker'.sent => tracker.sent \/ pc \in Talking
  <2>1. CASE tracker' = tracker
    BY <2>1
  <2>2. CASE pc \in Talking /\ tracker' = [tracker EXCEPT !.sent = TRUE]
    BY <1>1, <2>2, SentFacts
  <2> QED BY <2>1, <2>2
<1>4. Evidence'
  BY <1>1, <1>3 DEF Evidence, Places
<1>5. Recording'
  BY <1>1, <1>2, <1>3 DEF Recording, Durable
<1>6. faults' = 0 => faults = 0
  BY <1>1 DEF TypeOK
<1>7. ResultIsSound' /\ UsageIsLast'
  BY <1>1, <1>2, <1>3, <1>6 DEF ResultIsSound, UsageIsLast, Ended
<1>8. RunIsSettled'
  BY <1>1, <1>2, <1>3 DEF RunIsSettled, Recording, Ended, Durable
<1> QED BY <1>4, <1>5, <1>7, <1>8 DEF TInv

(* A step that settles the record and is the last of the program.          *)
LEMMA EndKeeps ==
    ASSUME TInv, pc \in Closed, pc' = "DONE", TypeOK', code' = None => code = None,
           UNCHANGED <<flow, tracker, captured, client>>, faults' \in {faults, faults + 1},
           record'.claim = record.claim, record'.bound <=> record.bound,
           record'.run \in Ended, flow # "LIVE", record.claim # "EARLIER",
           record'.run = "SUCCEEDED" => code = None /\ captured.terminal = "completed",
           Durable /\ tracker.sent /\ record'.run \in {"FAILED", "INTERRUPTED"} => record.bound,
           flow = "ROLE" /\ record.bound => record'.usage = tracker.usage,
           flow = "PLAN" => record'.usage = tracker.usage
                            \/ (record'.usage = record.usage /\ record'.run # "SUCCEEDED")
    PROVE  TInv'
<1> USE DEF client
<1>1. TypeOK /\ Evidence /\ Places /\ Recording /\ UsageIsLast
  BY DEF TInv
<1>2. Evidence'
  BY <1>1 DEF Evidence
<1>3. Places'
  BY <1>1 DEF Places, Closed, Talking
<1>4. Recording'
  BY <1>1 DEF Recording, Ended, Durable, Early
<1>5. ResultIsSound'
  <2> SUFFICES ASSUME record'.run = "SUCCEEDED" PROVE ResultIsSound'
    BY DEF ResultIsSound
  <2>1. code = None /\ tracker.terminal = "completed"
    BY <1>1, ConstantsAssumption DEF Evidence, Endings
  <2>2. /\ tracker.sent /\ tracker.thread /\ tracker.turn
        /\ \A i \in Items : tracker.items[i] # None => tracker.items[i].state = "COMPLETED"
    BY <1>1, <2>1, ConstantsAssumption DEF Evidence, Endings
  <2>3. child # "NONE" /\ closing /\ failure = None /\ child = "CLOSED"
    BY <1>1, <2>1, <2>2 DEF Evidence, Places
  <2> QED BY <2>1, <2>2, <2>3 DEF ResultIsSound
<1>6. RunIsSettled'
  BY <1>1 DEF RunIsSettled, Ended, Durable
<1>7. faults' = 0 => faults = 0
  BY <1>1 DEF TypeOK
<1>8. UsageIsLast'
  BY <1>1, <1>7 DEF UsageIsLast
<1> QED BY <1>2, <1>3, <1>4, <1>5, <1>6, <1>8 DEF TInv

(* The program up to the turn: what it does to the record is an            *)
(* reservation, a claim or the start, and only a turn/start is noted.      *)
LEMMA StartingKeeps ==
    ASSUME TInv, PrepareReadOnly \/ Launch \/ Send \/ Continue \/ BindThread
    PROVE  TInv'
<1> USE DEF program, client, events
<1>1. TypeOK /\ Places /\ Recording /\ captured.terminal \in {None, tracker.terminal}
  BY DEF TInv, Evidence
<1>2. tracker \in Tracker /\ record \in Record /\ MaxFaults \in Nat /\ faults \in 0 .. MaxFaults
  BY <1>1, ConstantsAssumption DEF TypeOK
<1>3. CASE PrepareReadOnly
  <2>1. TypeOK'
    BY <1>1, <1>3 DEF TypeOK, PrepareReadOnly, Goto, Throw, Codes
  <2>2. Places'
    BY <1>3 DEF Places, Talking, Closed, PrepareReadOnly, Goto, Throw
  <2>3. record.claim # "EARLIER"
    BY <1>1, <1>3 DEF Recording, PrepareReadOnly
  <2> QED BY <1>1, <1>3, <2>1, <2>2, <2>3, MoveKeeps DEF PrepareReadOnly, Goto, Throw, Early
<1>4. CASE Launch
  <2>1. TypeOK'
    BY <1>1, <1>4 DEF TypeOK, Launch, Goto, Throw, Codes
  <2>2. Places'
    BY <1>1, <1>4 DEF Places, Talking, Closed, Launch, Goto, Throw
  <2>3. record.claim # "EARLIER"
    BY <1>1, <1>4 DEF Recording, Launch
  <2> QED BY <1>1, <1>4, <2>1, <2>2, <2>3, MoveKeeps DEF Launch, Goto, Throw, Early
<1>5. CASE Send
  <2>1. pc = "SEND" /\ child # "NONE" /\ record.claim # "EARLIER"
    BY <1>1, <1>5 DEF Send, Places, Recording, Talking
  <2>2. /\ tracker' = tracker \/ tracker' = [tracker EXCEPT !.sent = TRUE]
        /\ UNCHANGED <<flow, writes, captured, failure, child, closing, refused, notes, record, faults>>
        /\ pc' \in {"CATCH", "AWAIT"}
    <3>1. CASE Request(at) /\ tracker' = [tracker EXCEPT !.sent = @ \/ (at = "turn" /\ failure = None)]
               /\ pc' = "AWAIT" /\ UNCHANGED <<flow, writes, code, captured, refused, notes, record, faults>>
      <4>1. [tracker EXCEPT !.sent = tracker.sent] = tracker
        BY <1>2 DEF Tracker
      <4>2. tracker.sent \in BOOLEAN
        BY <1>2 DEF Tracker
      <4>3. tracker' = tracker \/ tracker' = [tracker EXCEPT !.sent = TRUE]
        BY <3>1, <4>1, <4>2
      <4> QED BY <3>1, <4>3 DEF Request
    <3>2. CASE UNCHANGED <<client, events, record, faults>> /\ \E c \in Codes \cup {None} : Throw(c)
      BY <3>2 DEF Throw
    <3> QED BY <1>1, <1>5, <3>1, <3>2 DEF Send, Codes, TypeOK
  <2>3. tracker' \in Tracker
    BY <1>2, <2>2, SentFacts
  <2>4. req' \in [Requests -> {"NEW", "PENDING", "REJECTED"} \cup Verdict]
        /\ why' \in Codes \cup {None} /\ at' \in Requests /\ code' \in Codes \cup {None}
    BY <1>1, <1>5 DEF Send, TypeOK, Request, Throw, Codes
  <2>5. TypeOK'
    BY <1>1, <2>2, <2>3, <2>4 DEF TypeOK
  <2>6. Places'
    BY <2>1, <2>2 DEF Places, Talking, Closed
  <2> QED BY <1>1, <2>1, <2>2, <2>5, <2>6, MoveKeeps DEF Talking, Early
<1>6. CASE Continue
  <2>1. /\ pc = "AWAIT" /\ UNCHANGED <<flow, writes, captured, client, events, record, faults>>
        /\ pc' \in {"CATCH", "BIND", "START", "SEND"} /\ at' \in Requests /\ code' \in Codes \cup {None}
    BY <1>1, <1>6 DEF Continue, HasSettled, Goto, Throw, Following, Requests, Codes, TypeOK
  <2>2. TypeOK'
    BY <1>1, <2>1 DEF TypeOK
  <2>3. Places'
    BY <1>1, <2>1 DEF Places, Talking, Closed
  <2>4. record.claim # "EARLIER"
    BY <1>1, <2>1 DEF Recording, Talking
  <2> QED BY <1>1, <2>1, <2>2, <2>3, <2>4, MoveKeeps DEF Talking, Early
<1>7. CASE BindThread
  <2>1. /\ pc = "BIND" /\ UNCHANGED <<flow, writes, captured, client, events, record>>
        /\ pc' \in {"CATCH", "SEND"} /\ at' \in Requests /\ code' \in Codes \cup {None}
        /\ faults' \in {faults, faults + 1} /\ faults' \in 0 .. MaxFaults
    BY <1>1, <1>2, <1>7 DEF BindThread, StoreCode, Throw, Following, Requests, Codes, TypeOK, StoreFails
  <2>2. TypeOK'
    BY <1>1, <2>1 DEF TypeOK
  <2>3. Places'
    BY <1>1, <2>1 DEF Places, Talking, Closed
  <2>4. record.claim # "EARLIER"
    BY <1>1, <2>1 DEF Recording, Talking
  <2> QED BY <1>1, <2>1, <2>2, <2>3, <2>4, MoveKeeps DEF Talking, Early
<1> QED BY <1>3, <1>4, <1>5, <1>6, <1>7

(* Waiting for the end and the way out.                                    *)
LEMMA LeavingKeeps ==
    ASSUME TInv,
           \/ WaitForTerminal \/ TurnTimeout \/ Catch \/ Interrupted
           \/ BeginShutdown \/ Shutdown \/ RemoveWorkspace
           \/ GateOwnedAttempt \/ SkipResult \/ FinishLive
    PROVE  TInv'
<1> USE DEF program, client, events
<1>1. TypeOK /\ Places /\ Recording /\ captured.terminal \in {None, tracker.terminal}
  BY DEF TInv, Evidence
<1>2. /\ tracker \in Tracker /\ tracker.terminal \in Endings \cup {None} /\ tracker.usage \in 0 .. MaxUsage
      /\ Codes \subseteq Codes \cup {None} /\ None \in Codes \cup {None}
  BY <1>1 DEF TypeOK, Tracker
<1>3. CASE WaitForTerminal \/ TurnTimeout
  <2>1. /\ pc = "WAIT" /\ pc' \in {"CATCH", "CLOSE"}
        /\ UNCHANGED <<flow, writes, at, client, events, record, faults>>
        /\ code' \in Codes \cup {None}
        /\ captured' \in {captured, [terminal |-> tracker.terminal, usage |-> tracker.usage]}
    BY <1>1, <1>2, <1>3 DEF WaitForTerminal, TurnTimeout, Throw, ToClose, Codes, TypeOK, Endings
  <2>2. captured'.terminal \in {None, tracker.terminal}
    BY <1>1, <2>1
  <2>3. TypeOK'
    BY <1>1, <1>2, <2>1 DEF TypeOK
  <2>4. Places'
    BY <2>1 DEF Places, Talking, Closed
  <2> QED BY <1>1, <2>1, <2>2, <2>3, <2>4, MoveKeeps DEF Talking, Early
<1>4. CASE Catch \/ Interrupted
  <2>1. /\ pc \in {"CATCH", "INTERRUPT"} /\ pc' \in {"INTERRUPT", "CLOSE"}
        /\ UNCHANGED <<flow, writes, failure, child, closing, events, record, faults>>
        /\ code' = code /\ at' \in Requests /\ why' \in Codes \cup {None}
        /\ req' \in [Requests -> {"NEW", "PENDING", "REJECTED"} \cup Verdict]
        /\ pc' = "INTERRUPT" => child = "UP" /\ tracker.sent
        /\ captured' \in {captured, [terminal |-> tracker.terminal, usage |-> tracker.usage]}
    BY <1>1, <1>2, <1>4 DEF Catch, Interrupted, MayInterrupt, Request, ToClose, TypeOK, Requests
  <2>2. captured'.terminal \in {None, tracker.terminal}
    BY <1>1, <2>1
  <2>3. TypeOK'
    BY <1>1, <1>2, <2>1 DEF TypeOK
  <2>4. Places'
    BY <2>1 DEF Places, Talking, Closed
  <2>5. record.claim = "EARLIER" => ~tracker.sent
    BY <1>1 DEF Recording
  <2> QED BY <1>1, <2>1, <2>2, <2>3, <2>4, <2>5, MoveKeeps DEF Talking, Early
<1>5. CASE BeginShutdown
  <2>1. TypeOK'
    BY <1>1, <1>5 DEF BeginShutdown, TypeOK
  <2>2. Places'
    BY <1>1, <1>5 DEF BeginShutdown, Places, Talking, Closed
  <2> QED BY <1>1, <1>5, <2>1, <2>2, MoveKeeps DEF BeginShutdown, Talking, Early
<1>6. CASE Shutdown
  <2>1. /\ pc = "CLOSE" /\ pc' = "CLEAN" /\ (child = "NONE" \/ closing)
        /\ UNCHANGED <<flow, writes, at, captured, req, why, failure, closing, events, record, faults>>
    BY <1>6 DEF Shutdown
  <2>2. /\ child' \in {"NONE", "UP", "CLOSED"} /\ code' \in Codes \cup {None}
        /\ child' = "NONE" <=> child = "NONE"
        /\ code' = None /\ child # "NONE" => failure = None /\ child' = "CLOSED"
    <3>1. PICK cleaned \in BOOLEAN :
              /\ child # "UP" => cleaned
              /\ child' = IF child = "UP" /\ cleaned THEN "CLOSED" ELSE child
              /\ code' = IF child = "NONE" THEN code ELSE CodeAfterClose(cleaned)
      BY <1>6 DEF Shutdown
    <3>2. /\ code \in Codes \cup {None} /\ failure \in Codes \cup {None} /\ "CLEANUP" \in Codes
          /\ "CLEANUP" # None /\ child \in {"NONE", "UP", "CLOSED"}
      BY <1>1, ConstantsAssumption DEF TypeOK, Codes
    <3>3. /\ CodeAfterClose(cleaned) \in Codes \cup {None}
          /\ CodeAfterClose(cleaned) = None => failure = None /\ cleaned
      BY <3>2 DEF CodeAfterClose
    <3> QED BY <3>1, <3>2, <3>3
  <2>3. TypeOK'
    BY <1>1, <2>1, <2>2 DEF TypeOK
  <2>4. Places'
    BY <2>1, <2>2 DEF Places, Talking, Closed
  <2> QED BY <1>1, <2>1, <2>2, <2>3, <2>4, MoveKeeps DEF Talking, Early
<1>7. CASE RemoveWorkspace \/ GateOwnedAttempt \/ SkipResult \/ FinishLive
  <2>1. /\ pc \in {"CLEAN", "SETTLE"} /\ pc' \in {"SETTLE", "FINALIZE", "DONE"}
        /\ UNCHANGED <<flow, writes, at, captured, client, events, record, faults>>
        /\ code' \in Codes \cup {None} /\ (code' = None => code = None)
        /\ pc' = "DONE" => flow = "LIVE"
    BY <1>1, <1>7, ConstantsAssumption
       DEF RemoveWorkspace, GateOwnedAttempt, SkipResult, FinishLive, Settled, Codes, TypeOK
  <2>2. TypeOK'
    BY <1>1, <2>1 DEF TypeOK
  <2>3. Places'
    BY <1>1, <2>1 DEF Places, Talking, Closed
  <2> QED BY <1>1, <2>1, <2>2, <2>3, MoveKeeps DEF Talking, Early
<1> QED BY <1>3, <1>4, <1>5, <1>6, <1>7

(* Reservation, claim and start of the run.                                *)
LEMMA RecordingKeeps ==
    ASSUME TInv, ReserveRole \/ ReserveOwned \/ StartRun
    PROVE  TInv'
<1> USE DEF program, client, events
<1>1. TypeOK /\ Evidence /\ Places /\ Recording /\ ResultIsSound /\ RunIsSettled /\ UsageIsLast
  BY DEF TInv
<1>2. /\ tracker \in Tracker /\ record \in Record /\ MaxFaults \in Nat /\ faults \in 0 .. MaxFaults
      /\ captured.terminal \in {None, tracker.terminal} /\ "CREATED" \in Runs
  BY <1>1, ConstantsAssumption DEF TypeOK, Evidence, Runs
<1>3. /\ pc \in {"BEGIN", "START"} /\ pc' \in {"LAUNCH", "CATCH", "WAIT"} /\ code' \in Codes \cup {None}
      /\ (pc' = "LAUNCH" => pc = "BEGIN") /\ (pc' = "WAIT" => pc = "START")
      /\ UNCHANGED <<flow, writes, at, captured, client, events>>
      /\ faults' \in {faults, faults + 1} /\ faults' \in 0 .. MaxFaults
  BY <1>1, <1>2 DEF ReserveRole, ReserveOwned, StartRun, StoreCode, Goto, Throw, StoreFails, Codes, TypeOK
<1>4. Evidence'
  BY <1>1, <1>3 DEF Evidence
<1>5. Places'
  BY <1>1, <1>3 DEF Places, Talking, Closed
<1>6. record.run \notin Ended
  BY <1>1, <1>3 DEF Recording
<1>7. CASE record' = record /\ (record.claim = "EARLIER" => pc' = "CATCH")
  <2>1. TypeOK'
    BY <1>1, <1>3, <1>7 DEF TypeOK
  <2> QED BY <1>2, <1>3, <1>5, <1>7, <2>1, MoveKeeps DEF Talking, Early
<1>8. ASSUME /\ record' \in Record /\ record'.run \in {"CREATED", "RUNNING"}
             /\ record'.usage = record.usage \/ (flow = "PLAN" /\ record'.usage = tracker.usage)
             /\ flow # "LIVE"
             /\ Durable /\ record'.run = "CREATED" => pc = "BEGIN" /\ (record'.bound <=> record.bound)
             /\ record'.run = "RUNNING" => record'.bound /\ pc = "START"
             /\ record'.claim = "EARLIER" =>
                    record.claim = "EARLIER" /\ record'.run = "CREATED" /\ pc' = "CATCH"
      PROVE  TInv'
  <2>1. TypeOK'
    BY <1>1, <1>3, <1>8 DEF TypeOK
  <2>2. Recording'
    BY <1>1, <1>3, <1>8 DEF Recording, Ended, Early, Talking, Durable
  <2>3. ResultIsSound' /\ RunIsSettled'
    BY <1>1, <1>3, <1>8 DEF ResultIsSound, RunIsSettled, Recording
  <2>4. UsageIsLast'
    <3>1. faults' = 0 => faults = 0
      BY <1>3, <1>2
    <3> QED BY <1>1, <1>3, <1>8, <3>1 DEF UsageIsLast
  <2> QED BY <1>4, <1>5, <2>1, <2>2, <2>3, <2>4 DEF TInv
<1>9. CASE ReserveRole \/ ReserveOwned
  <2>1. flow # "LIVE" /\ pc = "BEGIN"
    BY <1>9 DEF ReserveRole, ReserveOwned
  <2>2. CASE record' = [record EXCEPT !.run = "CREATED", !.claim = "OWN"]
    <3>1. /\ record' \in Record /\ record'.run = "CREATED" /\ record'.claim = "OWN"
          /\ (record'.bound <=> record.bound) /\ record'.usage = record.usage
      BY <1>2, <2>2, ClaimedFacts
    <3> QED BY <1>8, <2>1, <3>1
  <2>3. CASE record' = [record EXCEPT !.run = "CREATED"] /\ pc' = "CATCH"
    <3>1. /\ record' \in Record /\ record'.run = "CREATED" /\ record'.claim = record.claim
          /\ (record'.bound <=> record.bound) /\ record'.usage = record.usage
      BY <1>2, <2>3, RunFacts
    <3> QED BY <1>8, <2>1, <2>3, <3>1
  <2>4. CASE record' = record /\ pc' = "CATCH"
    BY <1>7, <2>4
  <2> QED BY <1>9, <2>2, <2>3, <2>4 DEF ReserveRole, ReserveOwned, Throw
<1>10. CASE StartRun
  <2>1. record.claim # "EARLIER" /\ pc = "START"
    BY <1>1, <1>10 DEF StartRun, Recording, Talking
  <2>2. CASE record' = record
    BY <1>7, <2>1, <2>2
  <2>3. CASE flow # "LIVE" /\ record' = Started
    <3>1. /\ record' \in Record /\ record'.run = "RUNNING" /\ record'.claim = record.claim
          /\ record'.bound
          /\ record'.usage = record.usage \/ (flow = "PLAN" /\ record'.usage = tracker.usage)
      <4>1. CASE flow = "PLAN"
        <5>1. tracker.usage \in 0 .. MaxUsage
          BY <1>2 DEF Tracker
        <5>2. record' = [[record EXCEPT !.usage = tracker.usage] EXCEPT !.run = "RUNNING", !.bound = TRUE]
          BY <2>3, <4>1 DEF Started, Stored
        <5> QED BY <1>2, <4>1, <5>1, <5>2, StartedFacts
      <4>2. CASE flow # "PLAN"
        BY <1>2, <2>3, <4>2, BoundFacts DEF Started, Stored
      <4> QED BY <4>1, <4>2
    <3> QED BY <1>8, <2>1, <2>3, <3>1
  <2> QED BY <1>10, <2>2, <2>3 DEF StartRun, Bounded
<1> QED BY <1>9, <1>10

(* The durable outcome.                                                    *)
LEMMA SettlingKeeps ==
    ASSUME TInv, StoreRoleResult \/ Finalize \/ FinishPlanning
    PROVE  TInv'
<1> USE DEF program, client, events
<1>1. TypeOK /\ Evidence /\ Places /\ Recording /\ ResultIsSound /\ RunIsSettled /\ UsageIsLast
  BY DEF TInv
<1>2. /\ tracker \in Tracker /\ record \in Record /\ MaxFaults \in Nat /\ faults \in 0 .. MaxFaults
      /\ captured.terminal \in {None, tracker.terminal} /\ {"SUCCEEDED", "FAILED", "INTERRUPTED"} \subseteq Runs
      /\ tracker.usage \in 0 .. MaxUsage /\ captured.usage \in 0 .. MaxUsage
      /\ record.usage \in 0 .. MaxUsage
  BY <1>1, ConstantsAssumption DEF TypeOK, Evidence, Runs, Tracker, Record
<1> DEFINE Frame == /\ pc \in {"SETTLE", "FINALIZE"} /\ pc' \in {"FINALIZE", "DONE"}
                    /\ code' \in {code, "AUTHORITY", "STORE"}
                    /\ UNCHANGED <<flow, writes, at, captured, client, events>>
                    /\ faults' \in {faults, faults + 1} /\ faults' \in 0 .. MaxFaults
           Stays == record' = record /\ pc' = "FINALIZE"
           Leaves == /\ record' = record /\ pc' = "DONE"
                     /\ ~Finalizes \/ faults' = faults + 1
           Ends(r, u) == record' = [record EXCEPT !.run = r, !.usage = u] /\ pc' = "DONE"
<1>3. ASSUME Frame PROVE code' \in Codes \cup {None} /\ (code' = None => code = None)
  BY <1>1, <1>3, ConstantsAssumption DEF TypeOK, Codes
<1>4. ASSUME Frame PROVE Places'
  BY <1>1, <1>3, <1>4 DEF Places, Talking, Closed
<1>5. pc \in {"SETTLE", "FINALIZE"} => pc \in Closed /\ record.run \notin Ended
  BY <1>1 DEF Recording, Closed
<1>6. ASSUME Frame, Stays PROVE TInv'
  <2>1. TypeOK'
    BY <1>1, <1>3, <1>6 DEF TypeOK
  <2> QED BY <1>2, <1>4, <1>6, <2>1, MoveKeeps DEF Talking, Early
<1>7. ASSUME Frame, Leaves PROVE TInv'
  <2>1. TypeOK'
    BY <1>1, <1>3, <1>7 DEF TypeOK
  <2>2. Evidence' /\ Places' /\ Recording'
    BY <1>1, <1>4, <1>5, <1>7 DEF Evidence, Recording, Early, Talking, Durable
  <2>3. ResultIsSound' /\ UsageIsLast'
    <3>1. faults' = 0 => faults = 0
      BY <1>2, <1>7
    <3> QED BY <1>1, <1>5, <1>7, <3>1 DEF ResultIsSound, UsageIsLast, Ended
  <2>4. RunIsSettled'
    <3>1. CASE faults' > 0
      BY <1>1, <1>5, <1>7, <3>1 DEF RunIsSettled, Ended, Durable
    <3>2. CASE ~Finalizes
      <4>1. record.run # "RUNNING" /\ (record.run = "CREATED" => record.claim # "OWN" \/ tracker.sent)
        BY <3>2 DEF Finalizes
      <4>2. record.claim \in {"NONE", "OWN", "EARLIER"}
        BY <1>2 DEF Record
      <4> QED BY <1>1, <1>5, <1>7, <4>1, <4>2 DEF RunIsSettled, Ended, Durable
    <3>3. faults + 1 > 0
      BY <1>2
    <3> QED BY <1>7, <3>1, <3>2, <3>3
  <2> QED BY <2>1, <2>2, <2>3, <2>4 DEF TInv
<1>8. ASSUME NEW r \in Ended, NEW u \in 0 .. MaxUsage, Frame, Ends(r, u),
             code' = None => code = None,
             flow # "LIVE", record.claim # "EARLIER",
             r = "SUCCEEDED" => code = None /\ captured.terminal = "completed",
             Durable /\ tracker.sent /\ r \in {"FAILED", "INTERRUPTED"} => record.bound,
             flow = "ROLE" /\ record.bound => u = tracker.usage,
             flow = "PLAN" => u = tracker.usage \/ (u = record.usage /\ r # "SUCCEEDED")
      PROVE  TInv'
  <2>1. r \in Runs
    BY DEF Ended, Runs
  <2>2. /\ record' \in Record /\ record'.run = r /\ record'.claim = record.claim
        /\ (record'.bound <=> record.bound) /\ record'.usage = u
    <3>1. /\ record \in Record /\ u \in 0 .. MaxUsage
          /\ record' = [record EXCEPT !.run = r, !.usage = u]
      BY <1>2, <1>8
    <3> DEFINE s == [record EXCEPT !.run = r, !.usage = u]
    <3>2. /\ s \in Record /\ s.run = r /\ s.claim = record.claim
          /\ (s.bound <=> record.bound) /\ s.usage = u
      BY <2>1, <3>1 DEF Record, Runs
    <3> QED BY <3>1, <3>2
  <2>3. TypeOK'
    BY <1>1, <1>3, <1>8, <2>2 DEF TypeOK
  <2> QED BY <1>5, <1>8, <2>2, <2>3, EndKeeps
<1>9. StoredUsage \in 0 .. MaxUsage /\ (flow # "OWNED" => StoredUsage = tracker.usage)
  BY <1>2 DEF StoredUsage
<1>10. CASE StoreRoleResult
  <2>1. /\ Frame /\ flow = "ROLE" /\ record.run = "RUNNING" /\ code = None /\ captured.terminal = "completed"
        /\ Stays \/ Ends("SUCCEEDED", StoredUsage)
    BY <1>2, <1>10 DEF StoreRoleResult, Succeeds, Settled, StoreFails
  <2>2. CASE Stays
    BY <1>6, <2>1, <2>2
  <2>3. CASE Ends("SUCCEEDED", StoredUsage)
    <3>1. record.claim # "EARLIER"
      BY <1>1, <2>1 DEF Recording
    <3> HIDE DEF Frame, Ends
    <3> QED BY <1>8, <1>9, <2>1, <2>3, <3>1 DEF Ended
  <2> QED BY <2>1, <2>2, <2>3
<1>11. CASE Finalize
  <2> DEFINE u == IF Durable /\ record.run = "RUNNING" THEN StoredUsage ELSE record.usage
  <2>1. /\ Frame
        /\ Leaves \/ (Finalizes /\ code' = code /\ Ends(Outcome, u))
    BY <1>2, <1>11 DEF Finalize, Settled, StoreFails
  <2>2. CASE Leaves
    BY <1>7, <2>1, <2>2
  <2>3. CASE Finalizes /\ code' = code /\ Ends(Outcome, u)
    <3>1. u \in 0 .. MaxUsage
      BY <1>2, <1>9
    <3>2. Outcome \in Ended
      BY DEF Outcome, Ended
    <3>3. Outcome = "SUCCEEDED" =>
              code = None /\ captured.terminal = "completed"
      BY DEF Outcome
    <3>4. flow # "LIVE" /\ record.claim # "EARLIER"
      BY <1>1, <2>3 DEF Finalizes, Recording
    <3>5. Durable /\ tracker.sent => record.bound
      BY <1>1, <2>3 DEF Finalizes, Recording
    <3>6. flow = "ROLE" /\ record.bound => u = tracker.usage
      BY <1>1, <1>9, <2>3 DEF Finalizes, Recording, Durable
    <3>7. flow = "PLAN" => u = record.usage /\ Outcome # "SUCCEEDED"
      BY DEF Durable, Outcome
    <3> HIDE DEF Frame, Ends, u
    <3> QED BY <1>8, <2>1, <2>3, <3>1, <3>2, <3>3, <3>4, <3>5, <3>6, <3>7
  <2> QED BY <2>1, <2>2, <2>3
<1>12. CASE FinishPlanning
  <2> DEFINE r == IF code = None /\ captured.terminal = "completed" THEN "SUCCEEDED" ELSE "FAILED"
  <2>1. /\ Frame /\ flow = "PLAN"
        /\ \/ Stays
           \/ code' = code /\ Ends(r, StoredUsage)
           \/ pc' = "FINALIZE" /\ faults' = faults + 1 /\ record' = Stored(StoredUsage)
    BY <1>2, <1>12 DEF FinishPlanning, Settled, StoreFails
  <2>2. CASE Stays
    BY <1>6, <2>1, <2>2
  <2>3. CASE code' = code /\ Ends(r, StoredUsage)
    <3>1. record.claim # "EARLIER"
      BY <1>1, <2>1 DEF Recording
    <3>2. r \in Ended
      BY DEF Ended
    <3>3. r = "SUCCEEDED" => code = None /\ captured.terminal = "completed"
      OBVIOUS
    <3>4. ~Durable
      BY <2>1 DEF Durable
    <3> HIDE DEF Frame, Ends, r
    <3> QED BY <1>8, <1>9, <2>1, <2>3, <3>1, <3>2, <3>3, <3>4
  <2>4. CASE pc' = "FINALIZE" /\ faults' = faults + 1 /\ record' = Stored(StoredUsage)
    <3>1. /\ record' \in Record /\ record'.run = record.run /\ record'.claim = record.claim
          /\ (record'.bound <=> record.bound)
      BY <1>2, <1>9, <2>1, <2>4, ChargedFacts DEF Stored
    <3>2. TypeOK'
      BY <1>1, <1>3, <2>1, <3>1 DEF TypeOK
    <3>3. Evidence' /\ Places' /\ Recording'
      BY <1>1, <1>4, <1>5, <2>1, <2>4, <3>1 DEF Evidence, Recording, Early, Talking, Durable
    <3>4. ResultIsSound' /\ RunIsSettled'
      BY <1>1, <1>5, <2>1, <2>4, <3>1 DEF ResultIsSound, RunIsSettled, Ended, Durable
    <3>5. UsageIsLast'
      <4>1. faults' # 0
        BY <1>2, <2>4
      <4> QED BY <2>1, <4>1 DEF UsageIsLast
    <3> QED BY <3>2, <3>3, <3>4, <3>5 DEF TInv
  <2> QED BY <2>1, <2>2, <2>3, <2>4
<1> QED BY <1>10, <1>11, <1>12

(* Every step of the turn keeps the invariant.                             *)
LEMMA TurnSteps == TInv /\ [Next]_vars => TInv'
<1> SUFFICES ASSUME TInv, [Next]_vars PROVE TInv'
  OBVIOUS
<1>1. TypeOK
  BY DEF TInv
<1>2. CASE UNCHANGED vars
  BY <1>2 DEF vars, program, client, events, TInv, TypeOK, Evidence, Places, Recording, Durable,
              ResultIsSound, RunIsSettled, UsageIsLast
<1>3. CASE Program
  BY <1>3, StartingKeeps, RecordingKeeps, LeavingKeeps, SettlingKeeps DEF Program
<1>4. CASE Timers \/ CancelPending
  BY <1>1, <1>4, LeavingKeeps, DisturbancesHeard, HearingKeeps DEF Timers
<1>5. CASE Server
  <2>1. CASE Exit \/ BreakProtocol \/ \E m \in Requests : AnswerError(m)
    BY <1>1, <2>1, DisturbancesHeard, HearingKeeps
  <2>2. CASE \E m \in Requests : \E v \in Verdict : Answer(m, v)
    BY <1>1, <2>2, AnswersHeard, HearingKeeps
  <2>3. "own" \in Names
    BY DEF Names
  <2>4. CASE AccountLost
    BY <1>1, <2>3, <2>4, NotificationsHeard, HearingKeeps
  <2>5. CASE \E th \in Names, e \in BOOLEAN : ThreadStarted(th, e)
    BY <1>1, <2>3, <2>5, NotificationsHeard, HearingKeeps
  <2>6. CASE \E th, tu \in Names :
                 \/ TurnStarted(th, tu)
                 \/ \E p \in {"NONE", "COMMENTARY", "FINAL"} : Message(th, tu, p)
                 \/ \E ending \in Endings : TurnCompleted(th, tu, ending)
    BY <1>1, <2>6, NotificationsHeard, HearingKeeps
  <2>7. CASE \E i \in Items, type \in {"command", "file"} :
                 \/ ItemCompleted(i, type) \/ ItemOutput(i, type)
                 \/ \E inside \in BOOLEAN : ItemStarted(i, type, inside)
    BY <1>1, <2>7, ItemsHeard, HearingKeeps
  <2>8. CASE \E u \in 0 .. MaxUsage : UsageUpdated(u)
    BY <1>1, <2>8, UsageHeard, HearingKeeps
  <2> QED BY <1>5, <2>1, <2>2, <2>4, <2>5, <2>6, <2>7, <2>8 DEF Server
<1> QED BY <1>2, <1>3, <1>4, <1>5 DEF Next

-----------------------------------------------------------------------------
(* Theorems *)

LEMMA TurnInvariant == Spec => []TInv
BY TurnStarts, TurnSteps, PTL DEF Spec

(* The variables of a turn stay in their types, whatever the child sends.  *)
THEOREM TurnTypes == Spec => []TypeOK
<1>1. TInv => TypeOK
  BY DEF TInv
<1> QED BY <1>1, TurnInvariant, PTL

(* No program records a success on the word of the child alone: the turn   *)
(* was acknowledged, completed with every tool item closed, and the stream *)
(* was sound until the child was closed.                                   *)
THEOREM ResultsAreSound == Spec => []ResultIsSound
<1>1. TInv => ResultIsSound
  BY DEF TInv
<1> QED BY <1>1, TurnInvariant, PTL

(* A run stays open after its turn only when its turn may still run, when  *)
(* an earlier call claimed it, or when the store failed; and a turn that   *)
(* was sent and not recorded is never recorded as over.                    *)
THEOREM RunsAreSettled == Spec => []RunIsSettled
<1>1. TInv => RunIsSettled
  BY DEF TInv
<1> QED BY <1>1, TurnInvariant, PTL

(* Whenever the last report of the usage arrives, it is what a governed    *)
(* role is charged for; a planning turn is charged for it too, or for a    *)
(* higher one after which the last report made the turn fail.              *)
THEOREM LastUsageIsCharged == Spec => []UsageIsLast
<1>1. TInv => UsageIsLast
  BY DEF TInv
<1> QED BY <1>1, TurnInvariant, PTL
=============================================================================
