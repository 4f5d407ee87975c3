---------------------- MODULE WorktreeOwnershipProofs ----------------------
(***************************************************************************)
(* What holds of the worktree ownerships for every number of subtasks,     *)
(* processes and ownerships and every bound.  WInv is the inductive        *)
(* invariant: beside the types it says what a row claims of its checkout   *)
(* (RowOK), what a process under way may rely on at each of its places     *)
(* (ProcOK), and that two provisioners never share an ownership.           *)
(***************************************************************************)
EXTENDS WorktreeOwnership, TLAPS

(* The places of a provisioner, those before the evidence is recorded and  *)
(* all of them after the reservation.                                      *)
Making == {"ADD", "MARK", "RECORD"}
Building == Making \cup {"VERIFY", "ACTIVATE", "UNDO"}

(* A checkout keeps its branch; a row that was ever ACTIVE has evidence,   *)
(* one that was ever RELEASING a head; nobody works in a pending checkout. *)
RowOK(i) ==
    /\ ~Absent(i) => branch[i] # None
    /\ rows[i].status # "NONE" => rows[i].task \in Tasks
    /\ rows[i].status \in {"ACTIVE", "RELEASING", "RELEASED"} => rows[i].evidence # None
    /\ rows[i].status \in {"RELEASING", "RELEASED"} => rows[i].releaseHead # None
    /\ rows[i].status \in {"NONE", "PROVISIONING"} => ~tree[i].dirty

(* What a provisioner knows of its ownership, although reconciliation may  *)
(* have ended or activated it meanwhile.                                   *)
Provisioner(p, i) ==
    /\ pc[p] \in Making => rows[i].status \in {"PROVISIONING", "FAILED"} /\ rows[i].evidence = None
    /\ pc[p] \in {"MARK", "RECORD"} => tree[i].gen >= 1
    /\ pc[p] \in {"VERIFY", "ACTIVATE", "UNDO"} => rows[i].status # "NONE"
    /\ (pc[p] = "ACTIVATE" /\ rows[i].status = "PROVISIONING") => Observed(i) /\ AtStart(i)

(* What the process that removes a checkout knows of it.                   *)
Remover(p, i) ==
    pc[p] = "REMOVE" => /\ rows[i].status = "RELEASING"
                        /\ rows[i].evidence = tree[i].gen /\ tree[i].marker = "OWN"
                        /\ tree[i].place # "ABSENT"
ProcOK(p) ==
    /\ pc[p] # "IDLE" => /\ job[p].id \in Ids /\ job[p].task \in Tasks
                         /\ Provisioner(p, job[p].id) /\ Remover(p, job[p].id)
    /\ (lock = p) <=> (pc[p] \in {"REMOVE", "CONFIRM"})
OneBuilder(p, q) ==
    p # q /\ pc[p] \in Building /\ pc[q] \in Building => job[p].id # job[q].id
LatestOK(t) == latest[t] # None => rows[latest[t]].task = t /\ rows[latest[t]].status # "NONE"
WInv ==
    /\ TypeOK
    /\ \A i \in Ids : RowOK(i)
    /\ \A p \in Procs : ProcOK(p)
    /\ \A p, q \in Procs : OneBuilder(p, q)
    /\ \A t \in Tasks : LatestOK(t)
    /\ OneOwner /\ RunHasCheckout
USE DEF durable, task, git
-----------------------------------------------------------------------------
LEMMA Idling == NoJob \in Job
  BY ConstantsAssumption DEF NoJob, Job, Board, Head

LEMMA Returns ==
  ASSUME TypeOK, NEW p \in Procs, Return(p)
  PROVE  /\ pc' \in [Procs -> Pc] /\ job' \in [Procs -> Job] /\ pc'[p] = "IDLE"
         /\ \A q \in Procs \ {p} : pc'[q] = pc[q] /\ job'[q] = job[q]
  BY Idling DEF Return, TypeOK, Pc

LEMMA Goes ==
  ASSUME TypeOK, NEW p \in Procs, NEW where \in Pc, Goto(p, where)
  PROVE  /\ pc' \in [Procs -> Pc] /\ job' \in [Procs -> Job]
         /\ pc'[p] = where /\ job'[p] = job[p]
         /\ \A q \in Procs \ {p} : pc'[q] = pc[q] /\ job'[q] = job[q]
  BY DEF Goto, TypeOK

(* What a process holds besides its place and its job.                     *)
Store == /\ rows \in [Ids -> Row]
         /\ \A t \in Tasks : LatestOK(t)
         /\ OneOwner /\ RunHasCheckout

(* A row that goes on, keeps its subtask, is not revived, and leaves       *)
(* ACTIVE without a run of its subtask.                                    *)
LEMMA RowMoves ==
  ASSUME WInv, NEW i \in Ids, NEW row \in Row,
         rows' = [rows EXCEPT ![i] = row], latest' = latest, run' = run,
         rows[i].status # "NONE", row.status # "NONE", row.task = rows[i].task,
         row.status \in NonTerminal => rows[i].status \in NonTerminal,
         (rows[i].status = "ACTIVE" /\ row.status # "ACTIVE") => ~run[rows[i].task]
  PROVE  Store'
<1>1. rows \in [Ids -> Row] /\ latest \in [Tasks -> Ids \cup {None}]  BY DEF WInv, TypeOK
<1>2. rows'[i] = row /\ \A j \in Ids \ {i} : rows'[j] = rows[j]  BY <1>1
<1>3. rows' \in [Ids -> Row]  BY <1>1
<1>4. \A t \in Tasks : LatestOK(t)'
  BY <1>1, <1>2 DEF WInv, LatestOK
<1>5. OneOwner'  BY <1>2 DEF WInv, OneOwner
<1>6. RunHasCheckout'  BY <1>2 DEF WInv, RunHasCheckout
<1> QED  BY <1>3, <1>4, <1>5, <1>6 DEF Store

LEMMA StoreStays ==
  ASSUME WInv, UNCHANGED <<durable, run>>
  PROVE  Store'
  BY DEF WInv, TypeOK, Store, LatestOK, OneOwner, RunHasCheckout


(* The job of a process under way names an ownership and a subtask.        *)
LEMMA JobNamed ==
  ASSUME WInv, NEW p \in Procs, pc[p] # "IDLE"
  PROVE  /\ job[p].id \in Ids /\ job[p].task \in Tasks
         /\ Provisioner(p, job[p].id) /\ Remover(p, job[p].id) /\ RowOK(job[p].id)
         /\ rows[job[p].id] \in Row /\ tree[job[p].id] \in Tree
  BY DEF WInv, ProcOK, TypeOK

LEMMA RecordStore ==
  ASSUME WInv, NEW p \in Procs, Record(p)
  PROVE  Store'
<1> DEFINE i == job[p].id
           row == [rows[i] EXCEPT !.evidence = tree[i].gen]
<1>1. /\ i \in Ids /\ Provisioner(p, i) /\ rows[i] \in Row /\ tree[i] \in Tree /\ pc[p] = "RECORD"
      /\ rows \in [Ids -> Row] /\ job[p] \in Job
  BY JobNamed DEF Record, WInv, TypeOK
<1>2. /\ \/ rows' = [rows EXCEPT ![i] = row] /\ rows[i].status = "PROVISIONING"
         \/ rows' = rows
      /\ latest' = latest /\ run' = run
  BY <1>1 DEF Record
<1>3. CASE rows' = [rows EXCEPT ![i] = row] /\ rows[i].status = "PROVISIONING"
  <2>1. row \in Row /\ row.status # "NONE" /\ row.task = rows[i].task
    BY <1>1, <1>3 DEF Row, Tree, Provisioner, Status, Job
  <2>2. row.status \in NonTerminal => rows[i].status \in NonTerminal
    BY <1>3 DEF NonTerminal
  <2> HIDE DEF row, i
  <2> QED  BY <1>1, <1>2, <1>3, <2>1, <2>2, RowMoves
<1> QED  BY <1>2, <1>3, StoreStays DEF durable

LEMMA ActivateStore ==
  ASSUME WInv, NEW p \in Procs, Activate(p)
  PROVE  Store'
<1> DEFINE i == job[p].id
           row == [rows[i] EXCEPT !.status = "ACTIVE"]
<1>1. /\ i \in Ids /\ Provisioner(p, i) /\ rows[i] \in Row /\ tree[i] \in Tree /\ pc[p] = "ACTIVATE"
      /\ rows \in [Ids -> Row] /\ job[p] \in Job
  BY JobNamed DEF Activate, WInv, TypeOK
<1>2. /\ \/ rows' = [rows EXCEPT ![i] = row] /\ rows[i].status = "PROVISIONING"
         \/ rows' = rows
      /\ latest' = latest /\ run' = run
  BY <1>1 DEF Activate, SetStatus
<1>3. CASE rows' = [rows EXCEPT ![i] = row] /\ rows[i].status = "PROVISIONING"
  <2>1. row \in Row /\ row.status # "NONE" /\ row.task = rows[i].task
    BY <1>1, <1>3 DEF Row, Tree, Provisioner, Status, Job
  <2>2. row.status \in NonTerminal => rows[i].status \in NonTerminal
    BY <1>3 DEF NonTerminal
  <2> HIDE DEF row, i
  <2> QED  BY <1>1, <1>2, <1>3, <2>1, <2>2, RowMoves
<1> QED  BY <1>2, <1>3, StoreStays DEF durable

LEMMA UndoStore ==
  ASSUME WInv, NEW p \in Procs, Undo(p)
  PROVE  Store'
<1> DEFINE i == job[p].id
           row == [rows[i] EXCEPT !.status = "FAILED"]
<1>1. /\ i \in Ids /\ Provisioner(p, i) /\ rows[i] \in Row /\ tree[i] \in Tree /\ pc[p] = "UNDO"
      /\ rows \in [Ids -> Row] /\ job[p] \in Job
  BY JobNamed DEF Undo, WInv, TypeOK
<1>2. /\ \/ rows' = [rows EXCEPT ![i] = row] /\ rows[i].status = "PROVISIONING"
         \/ rows' = rows
      /\ latest' = latest /\ run' = run
  BY <1>1 DEF Undo, SetStatus
<1>3. CASE rows' = [rows EXCEPT ![i] = row] /\ rows[i].status = "PROVISIONING"
  <2>1. row \in Row /\ row.status # "NONE" /\ row.task = rows[i].task
    BY <1>1, <1>3 DEF Row, Tree, Provisioner, Status, Job
  <2>2. row.status \in NonTerminal => rows[i].status \in NonTerminal
    BY <1>3 DEF NonTerminal
  <2> HIDE DEF row, i
  <2> QED  BY <1>1, <1>2, <1>3, <2>1, <2>2, RowMoves
<1> QED  BY <1>2, <1>3, StoreStays DEF durable

LEMMA StartReleaseStore ==
  ASSUME WInv, NEW p \in Procs, StartRelease(p)
  PROVE  Store'
<1> DEFINE i == job[p].id
           row == [rows[i] EXCEPT !.status = "RELEASING", !.releaseHead = job[p].head]
<1>1. /\ i \in Ids /\ Provisioner(p, i) /\ rows[i] \in Row /\ tree[i] \in Tree /\ pc[p] = "RELEASE"
      /\ rows \in [Ids -> Row] /\ job[p] \in Job
  BY JobNamed DEF StartRelease, WInv, TypeOK
<1>2. /\ \/ rows' = [rows EXCEPT ![i] = row] /\ rows[i].status = "ACTIVE" /\ ~run[rows[i].task]
         \/ rows' = rows
      /\ latest' = latest /\ run' = run
  BY <1>1 DEF StartRelease, NoActiveRun
<1>3. CASE rows' = [rows EXCEPT ![i] = row] /\ rows[i].status = "ACTIVE" /\ ~run[rows[i].task]
  <2>1. row \in Row /\ row.status # "NONE" /\ row.task = rows[i].task
    BY <1>1, <1>3 DEF Row, Tree, Provisioner, Status, Job
  <2>2. row.status \in NonTerminal => rows[i].status \in NonTerminal
    BY <1>3 DEF NonTerminal
  <2> HIDE DEF row, i
  <2> QED  BY <1>1, <1>2, <1>3, <2>1, <2>2, RowMoves
<1> QED  BY <1>2, <1>3, StoreStays DEF durable

LEMMA RecordKeeps ==
  ASSUME WInv, NEW p \in Procs, Record(p)
  PROVE  WInv'
<1> DEFINE i == job[p].id
           row == [rows[i] EXCEPT !.evidence = tree[i].gen]
<1>1. /\ i \in Ids /\ Provisioner(p, i) /\ rows[i] \in Row /\ tree[i] \in Tree /\ pc[p] = "RECORD"
      /\ rows \in [Ids -> Row] /\ job[p] \in Job /\ RowOK(i) /\ TypeOK
      /\ job[p].task \in Tasks /\ job[p].head # None
  BY JobNamed, ConstantsAssumption DEF Record, WInv, TypeOK, Job, Head
<1>2. /\ \/ /\ rows' = [rows EXCEPT ![i] = row] /\ rows[i].status = "PROVISIONING" /\ rows[i].evidence = None
            /\ Goto(p, "VERIFY")
         \/ rows' = rows /\ Goto(p, "UNDO")
      /\ lock = None
      /\ UNCHANGED <<latest, task, git, lock, faults>>
  BY <1>1 DEF Record, Free
<1>3. Store'  BY RecordStore
<1>4. /\ pc' \in [Procs -> Pc] /\ job' \in [Procs -> Job]
      /\ pc'[p] \in {"VERIFY", "UNDO"}
      /\ pc'[p] = "IDLE" \/ job'[p] = job[p]
      /\ \A q \in Procs \ {p} : pc'[q] = pc[q] /\ job'[q] = job[q]
  BY <1>1, <1>2, Returns, Goes DEF Pc
<1>5. TypeOK'  BY <1>1, <1>2, <1>3, <1>4 DEF Store, TypeOK
<1>6. ASSUME NEW j \in Ids PROVE RowOK(j)'
  <2>1. CASE j = i
    BY <1>1, <1>2, <2>1, ConstantsAssumption DEF RowOK, Absent, Row, Tree, Job, Head
  <2>2. CASE j # i
    BY <1>1, <1>2, <2>2 DEF WInv, RowOK, Absent
  <2> QED  BY <2>1, <2>2
<1>7. ASSUME NEW q \in Procs PROVE ProcOK(q)'
  <2>1. CASE q = p
    BY <1>1, <1>2, <1>4, <2>1, ConstantsAssumption
       DEF ProcOK, Provisioner, Remover, Making, Row
  <2>2. CASE q # p
    <3>1. ProcOK(q) /\ OneBuilder(p, q) /\ pc'[q] = pc[q] /\ job'[q] = job[q]
      BY <1>4, <2>2 DEF WInv
    <3>2. pc[q] \notin {"REMOVE", "CONFIRM"} /\ lock' # q
      BY <1>2, <3>1, ConstantsAssumption DEF ProcOK
    <3>3. CASE pc[q] = "IDLE"
      BY <3>1, <3>2, <3>3 DEF ProcOK
    <3>4. CASE pc[q] # "IDLE" /\ job[q].id = i
      BY <1>1, <1>2, <2>2, <3>1, <3>2, <3>4 DEF ProcOK, Provisioner, Remover, OneBuilder, Making,
         Building, Row, Observed, Registered, SameGeneration, AtStart
    <3>5. CASE pc[q] # "IDLE" /\ job[q].id # i
      <4>1. job[q].id \in Ids /\ rows'[job[q].id] = rows[job[q].id]
        BY <1>1, <1>2, <3>1, <3>5 DEF ProcOK
      <4> QED  BY <1>2, <3>1, <3>2, <3>5, <4>1 DEF ProcOK, Provisioner, Remover, Observed,
         Registered, SameGeneration, AtStart
    <3> QED  BY <3>3, <3>4, <3>5
  <2> QED  BY <2>1, <2>2
<1>8. \A q, x \in Procs : OneBuilder(q, x)'
  BY <1>1, <1>4 DEF WInv, OneBuilder, Building, Making
<1> QED  BY <1>3, <1>5, <1>6, <1>7, <1>8 DEF WInv, Store

LEMMA ActivateKeeps ==
  ASSUME WInv, NEW p \in Procs, Activate(p)
  PROVE  WInv'
<1> DEFINE i == job[p].id
           row == [rows[i] EXCEPT !.status = "ACTIVE"]
<1>1. /\ i \in Ids /\ Provisioner(p, i) /\ rows[i] \in Row /\ tree[i] \in Tree /\ pc[p] = "ACTIVATE"
      /\ rows \in [Ids -> Row] /\ job[p] \in Job /\ RowOK(i) /\ TypeOK
      /\ job[p].task \in Tasks /\ job[p].head # None
  BY JobNamed, ConstantsAssumption DEF Activate, WInv, TypeOK, Job, Head
<1>2. /\ \/ /\ rows' = [rows EXCEPT ![i] = row] /\ rows[i].status = "PROVISIONING" /\ rows[i].evidence # None
            /\ Return(p)
         \/ rows' = rows /\ Goto(p, "UNDO")
      /\ lock = None
      /\ UNCHANGED <<latest, task, git, lock, faults>>
  BY <1>1 DEF Activate, SetStatus, Free
<1>3. Store'  BY ActivateStore
<1>4. /\ pc' \in [Procs -> Pc] /\ job' \in [Procs -> Job]
      /\ pc'[p] \in {"IDLE", "UNDO"}
      /\ pc'[p] = "IDLE" \/ job'[p] = job[p]
      /\ \A q \in Procs \ {p} : pc'[q] = pc[q] /\ job'[q] = job[q]
  BY <1>1, <1>2, Returns, Goes DEF Pc
<1>5. TypeOK'  BY <1>1, <1>2, <1>3, <1>4 DEF Store, TypeOK
<1>6. ASSUME NEW j \in Ids PROVE RowOK(j)'
  <2>1. CASE j = i
    BY <1>1, <1>2, <2>1, ConstantsAssumption DEF RowOK, Absent, Row, Tree, Job, Head
  <2>2. CASE j # i
    BY <1>1, <1>2, <2>2 DEF WInv, RowOK, Absent
  <2> QED  BY <2>1, <2>2
<1>7. ASSUME NEW q \in Procs PROVE ProcOK(q)'
  <2>1. CASE q = p
    BY <1>1, <1>2, <1>4, <2>1, ConstantsAssumption
       DEF ProcOK, Provisioner, Remover, Making, Row
  <2>2. CASE q # p
    <3>1. ProcOK(q) /\ OneBuilder(p, q) /\ pc'[q] = pc[q] /\ job'[q] = job[q]
      BY <1>4, <2>2 DEF WInv
    <3>2. pc[q] \notin {"REMOVE", "CONFIRM"} /\ lock' # q
      BY <1>2, <3>1, ConstantsAssumption DEF ProcOK
    <3>3. CASE pc[q] = "IDLE"
      BY <3>1, <3>2, <3>3 DEF ProcOK
    <3>4. CASE pc[q] # "IDLE" /\ job[q].id = i
      BY <1>1, <1>2, <2>2, <3>1, <3>2, <3>4 DEF ProcOK, Provisioner, Remover, OneBuilder, Making,
         Building, Row, Observed, Registered, SameGeneration, AtStart
    <3>5. CASE pc[q] # "IDLE" /\ job[q].id # i
      <4>1. job[q].id \in Ids /\ rows'[job[q].id] = rows[job[q].id]
        BY <1>1, <1>2, <3>1, <3>5 DEF ProcOK
      <4> QED  BY <1>2, <3>1, <3>2, <3>5, <4>1 DEF ProcOK, Provisioner, Remover, Observed,
         Registered, SameGeneration, AtStart
    <3> QED  BY <3>3, <3>4, <3>5
  <2> QED  BY <2>1, <2>2
<1>8. \A q, x \in Procs : OneBuilder(q, x)'
  BY <1>1, <1>4 DEF WInv, OneBuilder, Building, Making
<1> QED  BY <1>3, <1>5, <1>6, <1>7, <1>8 DEF WInv, Store

LEMMA UndoKeeps ==
  ASSUME WInv, NEW p \in Procs, Undo(p)
  PROVE  WInv'
<1> DEFINE i == job[p].id
           row == [rows[i] EXCEPT !.status = "FAILED"]
<1>1. /\ i \in Ids /\ Provisioner(p, i) /\ rows[i] \in Row /\ tree[i] \in Tree /\ pc[p] = "UNDO"
      /\ rows \in [Ids -> Row] /\ job[p] \in Job /\ RowOK(i) /\ TypeOK
      /\ job[p].task \in Tasks /\ job[p].head # None
  BY JobNamed, ConstantsAssumption DEF Undo, WInv, TypeOK, Job, Head
<1>2. /\ \/ /\ rows' = [rows EXCEPT ![i] = row] /\ rows[i].status = "PROVISIONING" /\ Absent(i)
            /\ Return(p)
         \/ rows' = rows /\ Return(p)
      /\ lock = None
      /\ UNCHANGED <<latest, task, git, lock, faults>>
  BY <1>1 DEF Undo, SetStatus, Free
<1>3. Store'  BY UndoStore
<1>4. /\ pc' \in [Procs -> Pc] /\ job' \in [Procs -> Job]
      /\ pc'[p] \in {"IDLE"}
      /\ pc'[p] = "IDLE" \/ job'[p] = job[p]
      /\ \A q \in Procs \ {p} : pc'[q] = pc[q] /\ job'[q] = job[q]
  BY <1>1, <1>2, Returns, Goes DEF Pc
<1>5. TypeOK'  BY <1>1, <1>2, <1>3, <1>4 DEF Store, TypeOK
<1>6. ASSUME NEW j \in Ids PROVE RowOK(j)'
  <2>1. CASE j = i
    BY <1>1, <1>2, <2>1, ConstantsAssumption DEF RowOK, Absent, Row, Tree, Job, Head
  <2>2. CASE j # i
    BY <1>1, <1>2, <2>2 DEF WInv, RowOK, Absent
  <2> QED  BY <2>1, <2>2
<1>7. ASSUME NEW q \in Procs PROVE ProcOK(q)'
  <2>1. CASE q = p
    BY <1>1, <1>2, <1>4, <2>1, ConstantsAssumption
       DEF ProcOK, Provisioner, Remover, Making, Row
  <2>2. CASE q # p
    <3>1. ProcOK(q) /\ OneBuilder(p, q) /\ pc'[q] = pc[q] /\ job'[q] = job[q]
      BY <1>4, <2>2 DEF WInv
    <3>2. pc[q] \notin {"REMOVE", "CONFIRM"} /\ lock' # q
      BY <1>2, <3>1, ConstantsAssumption DEF ProcOK
    <3>3. CASE pc[q] = "IDLE"
      BY <3>1, <3>2, <3>3 DEF ProcOK
    <3>4. CASE pc[q] # "IDLE" /\ job[q].id = i
      BY <1>1, <1>2, <2>2, <3>1, <3>2, <3>4 DEF ProcOK, Provisioner, Remover, OneBuilder, Making,
         Building, Row, Observed, Registered, SameGeneration, AtStart
    <3>5. CASE pc[q] # "IDLE" /\ job[q].id # i
      <4>1. job[q].id \in Ids /\ rows'[job[q].id] = rows[job[q].id]
        BY <1>1, <1>2, <3>1, <3>5 DEF ProcOK
      <4> QED  BY <1>2, <3>1, <3>2, <3>5, <4>1 DEF ProcOK, Provisioner, Remover, Observed,
         Registered, SameGeneration, AtStart
    <3> QED  BY <3>3, <3>4, <3>5
  <2> QED  BY <2>1, <2>2
<1>8. \A q, x \in Procs : OneBuilder(q, x)'
  BY <1>1, <1>4 DEF WInv, OneBuilder, Building, Making
<1> QED  BY <1>3, <1>5, <1>6, <1>7, <1>8 DEF WInv, Store

LEMMA StartReleaseKeeps ==
  ASSUME WInv, NEW p \in Procs, StartRelease(p)
  PROVE  WInv'
<1> DEFINE i == job[p].id
           row == [rows[i] EXCEPT !.status = "RELEASING", !.releaseHead = job[p].head]
<1>1. /\ i \in Ids /\ Provisioner(p, i) /\ rows[i] \in Row /\ tree[i] \in Tree /\ pc[p] = "RELEASE"
      /\ rows \in [Ids -> Row] /\ job[p] \in Job /\ RowOK(i) /\ TypeOK
      /\ job[p].task \in Tasks /\ job[p].head # None
  BY JobNamed, ConstantsAssumption DEF StartRelease, WInv, TypeOK, Job, Head
<1>2. /\ \/ /\ rows' = [rows EXCEPT ![i] = row] /\ rows[i].status = "ACTIVE" /\ ~run[rows[i].task]
            /\ Goto(p, "FINISH")
         \/ rows' = rows /\ Return(p)
      /\ lock = None
      /\ UNCHANGED <<latest, task, git, lock, faults>>
  BY <1>1 DEF StartRelease, NoActiveRun, Free
<1>3. Store'  BY StartReleaseStore
<1>9. \/ /\ rows[i].status = "ACTIVE" /\ rows'[i].status = "RELEASING"
         /\ rows'[i].evidence = rows[i].evidence /\ rows'[i].releaseHead # None
         /\ rows'[i].task = rows[i].task
      \/ rows' = rows
  <2>1. CASE rows' = [rows EXCEPT ![i] = row] /\ rows[i].status = "ACTIVE"
    <3>1. rows'[i] = row  BY <1>1, <2>1
    <3>2. /\ row.status = "RELEASING" /\ row.evidence = rows[i].evidence
          /\ row.releaseHead = job[p].head /\ row.task = rows[i].task
      BY <1>1 DEF Row
    <3> HIDE DEF row
    <3> QED  BY <1>1, <2>1, <3>1, <3>2
  <2> QED  BY <1>2, <2>1
<1>4. /\ pc' \in [Procs -> Pc] /\ job' \in [Procs -> Job]
      /\ pc'[p] \in {"IDLE", "FINISH"}
      /\ pc'[p] = "IDLE" \/ job'[p] = job[p]
      /\ \A q \in Procs \ {p} : pc'[q] = pc[q] /\ job'[q] = job[q]
  BY <1>1, <1>2, Returns, Goes DEF Pc
<1>5. TypeOK'  BY <1>1, <1>2, <1>3, <1>4 DEF Store, TypeOK
<1>6. ASSUME NEW j \in Ids PROVE RowOK(j)'
  <2>1. CASE j = i
    BY <1>1, <1>2, <1>9, <2>1, ConstantsAssumption DEF RowOK, Absent, Row, Tree, Job, Head
  <2>2. CASE j # i
    BY <1>1, <1>2, <2>2 DEF WInv, RowOK, Absent
  <2> QED  BY <2>1, <2>2
<1>7. ASSUME NEW q \in Procs PROVE ProcOK(q)'
  <2>1. CASE q = p
    BY <1>1, <1>2, <1>4, <2>1, ConstantsAssumption
       DEF ProcOK, Provisioner, Remover, Making, Row
  <2>2. CASE q # p
    <3>1. ProcOK(q) /\ OneBuilder(p, q) /\ pc'[q] = pc[q] /\ job'[q] = job[q]
      BY <1>4, <2>2 DEF WInv
    <3>2. pc[q] \notin {"REMOVE", "CONFIRM"} /\ lock' # q
      BY <1>2, <3>1, ConstantsAssumption DEF ProcOK
    <3>3. CASE pc[q] = "IDLE"
      BY <3>1, <3>2, <3>3 DEF ProcOK
    <3>4. CASE pc[q] # "IDLE" /\ job[q].id = i
      BY <1>1, <1>2, <1>9, <2>2, <3>1, <3>2, <3>4 DEF ProcOK, Provisioner, Remover, OneBuilder,
         Making, Building, Row, Observed, Registered, SameGeneration, AtStart
    <3>5. CASE pc[q] # "IDLE" /\ job[q].id # i
      <4>1. job[q].id \in Ids /\ rows'[job[q].id] = rows[job[q].id]
        BY <1>1, <1>2, <3>1, <3>5 DEF ProcOK
      <4> QED  BY <1>2, <3>1, <3>2, <3>5, <4>1 DEF ProcOK, Provisioner, Remover, Observed,
         Registered, SameGeneration, AtStart
    <3> QED  BY <3>3, <3>4, <3>5
  <2> QED  BY <2>1, <2>2
<1>8. \A q, x \in Procs : OneBuilder(q, x)'
  BY <1>1, <1>4 DEF WInv, OneBuilder, Building, Making
<1> QED  BY <1>3, <1>5, <1>6, <1>7, <1>8 DEF WInv, Store

LEMMA AddWorktreeKeeps ==
  ASSUME WInv, NEW p \in Procs, AddWorktree(p)
  PROVE  WInv'
<1> DEFINE i == job[p].id
<1>1. /\ i \in Ids /\ Provisioner(p, i) /\ Remover(p, i) /\ rows[i] \in Row /\ tree[i] \in Tree
      /\ pc[p] = "ADD" /\ rows \in [Ids -> Row] /\ tree \in [Ids -> Tree]
      /\ branch \in [Ids -> Head \cup {None}]
      /\ job[p] \in Job /\ job[p].task \in Tasks /\ RowOK(i) /\ TypeOK
      /\ (lock = p) <=> (pc[p] \in {"REMOVE", "CONFIRM"})
  BY JobNamed DEF AddWorktree, WInv, TypeOK, ProcOK
<1>2. /\ tree' = [tree EXCEPT ![i] = NewTree(i, "NONE")] /\ branch' = [branch EXCEPT ![i] = 0]
      /\ NewTree(i, "NONE") \in Tree /\ NewTree(i, "NONE").gen >= 1 /\ ~NewTree(i, "NONE").dirty
      /\ NewTree(i, "NONE").place = "PRESENT"
      /\ Goto(p, "MARK") /\ UNCHANGED <<durable, task, source, base, lock, faults>>
  BY <1>1, ConstantsAssumption DEF AddWorktree, NewTree, Tree
<1>3. Store'  BY StoreStays DEF AddWorktree
<1>4. /\ pc' \in [Procs -> Pc] /\ job' \in [Procs -> Job]
      /\ pc'[p] \in {"MARK"}
      /\ pc'[p] = "IDLE" \/ job'[p] = job[p]
      /\ \A q \in Procs \ {p} : pc'[q] = pc[q] /\ job'[q] = job[q]
  BY <1>1, <1>2, Returns, Goes DEF Pc
<1>5. TypeOK'
  BY <1>1, <1>2, <1>3, <1>4, ConstantsAssumption DEF Store, TypeOK, Head
<1>6. ASSUME NEW j \in Ids PROVE RowOK(j)'
  <2>1. CASE j = i
    BY <1>1, <1>2, <2>1, ConstantsAssumption DEF RowOK, Absent
  <2>2. CASE j # i
    BY <1>1, <1>2, <2>2 DEF WInv, RowOK, Absent
  <2> QED  BY <2>1, <2>2
<1>7. ASSUME NEW q \in Procs PROVE ProcOK(q)'
  <2>1. CASE q = p
    BY <1>1, <1>2, <1>4, <2>1, ConstantsAssumption
       DEF ProcOK, Provisioner, Remover, Making, Observed, Registered, SameGeneration, AtStart
  <2>2. CASE q # p
    <3>1. ProcOK(q) /\ OneBuilder(p, q) /\ pc'[q] = pc[q] /\ job'[q] = job[q]
      BY <1>4, <2>2 DEF WInv
    <3>2. (lock' = q) <=> (pc[q] \in {"REMOVE", "CONFIRM"})
      BY <1>1, <1>2, <2>2, <3>1, ConstantsAssumption DEF ProcOK, WInv
    <3>3. CASE pc[q] = "IDLE"
      BY <3>1, <3>2, <3>3 DEF ProcOK
    <3>4. CASE pc[q] # "IDLE" /\ job[q].id = i
      BY <1>1, <1>2, <2>2, <3>1, <3>2, <3>4, ConstantsAssumption DEF ProcOK, Provisioner, Remover,
         OneBuilder, Making, Building, Observed, Registered, SameGeneration, AtStart
    <3>5. CASE pc[q] # "IDLE" /\ job[q].id # i
      <4>1. /\ job[q].id \in Ids /\ rows'[job[q].id] = rows[job[q].id]
            /\ tree'[job[q].id] = tree[job[q].id] /\ branch'[job[q].id] = branch[job[q].id]
        BY <1>1, <1>2, <3>1, <3>5 DEF ProcOK
      <4> QED  BY <1>2, <3>1, <3>2, <3>5, <4>1 DEF ProcOK, Provisioner, Remover, Observed,
         Registered, SameGeneration, AtStart
    <3> QED  BY <3>3, <3>4, <3>5
  <2> QED  BY <2>1, <2>2
<1>8. \A q, x \in Procs : OneBuilder(q, x)'
  BY <1>1, <1>2, <1>4 DEF WInv, OneBuilder, Building, Making
<1> QED  BY <1>3, <1>5, <1>6, <1>7, <1>8 DEF WInv, Store

LEMMA AddFailsKeeps ==
  ASSUME WInv, NEW p \in Procs, AddFails(p)
  PROVE  WInv'
<1> DEFINE i == job[p].id
<1>1. /\ i \in Ids /\ Provisioner(p, i) /\ Remover(p, i) /\ rows[i] \in Row /\ tree[i] \in Tree
      /\ pc[p] = "ADD" /\ rows \in [Ids -> Row] /\ tree \in [Ids -> Tree]
      /\ branch \in [Ids -> Head \cup {None}]
      /\ job[p] \in Job /\ job[p].task \in Tasks /\ RowOK(i) /\ TypeOK
      /\ (lock = p) <=> (pc[p] \in {"REMOVE", "CONFIRM"})
  BY JobNamed DEF AddFails, WInv, TypeOK, ProcOK
<1>2. /\ \/ UNCHANGED <<tree, branch>>
         \/ branch' = [branch EXCEPT ![i] = 0] /\ UNCHANGED tree
         \/ /\ branch' = [branch EXCEPT ![i] = 0]
            /\ tree' = [tree EXCEPT ![i] = [tree[i] EXCEPT !.place = "STRAY"]]
      /\ Goto(p, "UNDO") /\ UNCHANGED <<durable, task, source, base, lock>>
  BY <1>1 DEF AddFails, Fault
<1>9. [tree[i] EXCEPT !.place = "STRAY"] \in Tree  BY <1>1 DEF Tree
<1>10. faults' \in 0 .. MaxFaults
  BY <1>1, ConstantsAssumption DEF AddFails, Fault, TypeOK
<1>3. Store'  BY StoreStays DEF AddFails
<1>4. /\ pc' \in [Procs -> Pc] /\ job' \in [Procs -> Job]
      /\ pc'[p] \in {"UNDO"}
      /\ pc'[p] = "IDLE" \/ job'[p] = job[p]
      /\ \A q \in Procs \ {p} : pc'[q] = pc[q] /\ job'[q] = job[q]
  BY <1>1, <1>2, Returns, Goes DEF Pc
<1>5. TypeOK'
  BY <1>1, <1>2, <1>3, <1>4, <1>9, <1>10, ConstantsAssumption DEF Store, TypeOK, Head
<1>6. ASSUME NEW j \in Ids PROVE RowOK(j)'
  <2>1. CASE j = i
    BY <1>1, <1>2, <2>1, ConstantsAssumption DEF RowOK, Absent, Tree
  <2>2. CASE j # i
    BY <1>1, <1>2, <2>2 DEF WInv, RowOK, Absent
  <2> QED  BY <2>1, <2>2
<1>7. ASSUME NEW q \in Procs PROVE ProcOK(q)'
  <2>1. CASE q = p
    BY <1>1, <1>2, <1>4, <2>1, ConstantsAssumption
       DEF ProcOK, Provisioner, Remover, Making, Observed, Registered, SameGeneration, AtStart, Tree
  <2>2. CASE q # p
    <3>1. ProcOK(q) /\ OneBuilder(p, q) /\ pc'[q] = pc[q] /\ job'[q] = job[q]
      BY <1>4, <2>2 DEF WInv
    <3>2. (lock' = q) <=> (pc[q] \in {"REMOVE", "CONFIRM"})
      BY <1>1, <1>2, <2>2, <3>1, ConstantsAssumption DEF ProcOK, WInv
    <3>3. CASE pc[q] = "IDLE"
      BY <3>1, <3>2, <3>3 DEF ProcOK
    <3>4. CASE pc[q] # "IDLE" /\ job[q].id = i
      BY <1>1, <1>2, <2>2, <3>1, <3>2, <3>4, ConstantsAssumption DEF ProcOK, Provisioner, Remover,
         OneBuilder, Making, Building, Observed, Registered, SameGeneration, AtStart, Tree
    <3>5. CASE pc[q] # "IDLE" /\ job[q].id # i
      <4>1. /\ job[q].id \in Ids /\ rows'[job[q].id] = rows[job[q].id]
            /\ tree'[job[q].id] = tree[job[q].id] /\ branch'[job[q].id] = branch[job[q].id]
        BY <1>1, <1>2, <3>1, <3>5 DEF ProcOK
      <4> QED  BY <1>2, <3>1, <3>2, <3>5, <4>1 DEF ProcOK, Provisioner, Remover, Observed,
         Registered, SameGeneration, AtStart
    <3> QED  BY <3>3, <3>4, <3>5
  <2> QED  BY <2>1, <2>2
<1>8. \A q, x \in Procs : OneBuilder(q, x)'
  BY <1>1, <1>2, <1>4 DEF WInv, OneBuilder, Building, Making
<1> QED  BY <1>3, <1>5, <1>6, <1>7, <1>8 DEF WInv, Store

LEMMA MarkKeeps ==
  ASSUME WInv, NEW p \in Procs, Mark(p)
  PROVE  WInv'
<1> DEFINE i == job[p].id
<1>1. /\ i \in Ids /\ Provisioner(p, i) /\ Remover(p, i) /\ rows[i] \in Row /\ tree[i] \in Tree
      /\ pc[p] = "MARK" /\ rows \in [Ids -> Row] /\ tree \in [Ids -> Tree]
      /\ branch \in [Ids -> Head \cup {None}]
      /\ job[p] \in Job /\ job[p].task \in Tasks /\ RowOK(i) /\ TypeOK
      /\ (lock = p) <=> (pc[p] \in {"REMOVE", "CONFIRM"})
  BY JobNamed DEF Mark, WInv, TypeOK, ProcOK
<1>2. /\ \/ /\ tree' = [tree EXCEPT ![i] = [tree[i] EXCEPT !.marker = "OWN"]] /\ Goto(p, "RECORD")
         \/ UNCHANGED tree /\ Goto(p, "UNDO")
      /\ [tree[i] EXCEPT !.marker = "OWN"] \in Tree
      /\ UNCHANGED <<durable, task, branch, source, base, lock, faults>>
  BY <1>1 DEF Mark, Tree
<1>3. Store'  BY StoreStays DEF Mark
<1>4. /\ pc' \in [Procs -> Pc] /\ job' \in [Procs -> Job]
      /\ pc'[p] \in {"RECORD", "UNDO"}
      /\ pc'[p] = "IDLE" \/ job'[p] = job[p]
      /\ \A q \in Procs \ {p} : pc'[q] = pc[q] /\ job'[q] = job[q]
  BY <1>1, <1>2, Returns, Goes DEF Pc
<1>5. TypeOK'
  BY <1>1, <1>2, <1>3, <1>4, ConstantsAssumption DEF Store, TypeOK, Tree
<1>6. ASSUME NEW j \in Ids PROVE RowOK(j)'
  <2>1. CASE j = i
    BY <1>1, <1>2, <2>1, ConstantsAssumption DEF RowOK, Absent, Tree
  <2>2. CASE j # i
    BY <1>1, <1>2, <2>2 DEF WInv, RowOK, Absent
  <2> QED  BY <2>1, <2>2
<1>7. ASSUME NEW q \in Procs PROVE ProcOK(q)'
  <2>1. CASE q = p
    BY <1>1, <1>2, <1>4, <2>1, ConstantsAssumption
       DEF ProcOK, Provisioner, Remover, Making, Observed, Registered, SameGeneration, AtStart, Tree
  <2>2. CASE q # p
    <3>1. ProcOK(q) /\ OneBuilder(p, q) /\ pc'[q] = pc[q] /\ job'[q] = job[q]
      BY <1>4, <2>2 DEF WInv
    <3>2. (lock' = q) <=> (pc[q] \in {"REMOVE", "CONFIRM"})
      BY <1>1, <1>2, <2>2, <3>1, ConstantsAssumption DEF ProcOK, WInv
    <3>3. CASE pc[q] = "IDLE"
      BY <3>1, <3>2, <3>3 DEF ProcOK
    <3>4. CASE pc[q] # "IDLE" /\ job[q].id = i
      BY <1>1, <1>2, <2>2, <3>1, <3>2, <3>4, ConstantsAssumption DEF ProcOK, Provisioner, Remover,
         OneBuilder, Making, Building, Observed, Registered, SameGeneration, AtStart, Tree
    <3>5. CASE pc[q] # "IDLE" /\ job[q].id # i
      <4>1. /\ job[q].id \in Ids /\ rows'[job[q].id] = rows[job[q].id]
            /\ tree'[job[q].id] = tree[job[q].id] /\ branch'[job[q].id] = branch[job[q].id]
        BY <1>1, <1>2, <3>1, <3>5 DEF ProcOK
      <4> QED  BY <1>2, <3>1, <3>2, <3>5, <4>1 DEF ProcOK, Provisioner, Remover, Observed,
         Registered, SameGeneration, AtStart
    <3> QED  BY <3>3, <3>4, <3>5
  <2> QED  BY <2>1, <2>2
<1>8. \A q, x \in Procs : OneBuilder(q, x)'
  BY <1>1, <1>2, <1>4 DEF WInv, OneBuilder, Building, Making
<1> QED  BY <1>3, <1>5, <1>6, <1>7, <1>8 DEF WInv, Store

LEMMA VerifyKeeps ==
  ASSUME WInv, NEW p \in Procs, Verify(p)
  PROVE  WInv'
<1> DEFINE i == job[p].id
<1>1. /\ i \in Ids /\ Provisioner(p, i) /\ Remover(p, i) /\ rows[i] \in Row /\ tree[i] \in Tree
      /\ pc[p] = "VERIFY" /\ rows \in [Ids -> Row] /\ tree \in [Ids -> Tree]
      /\ branch \in [Ids -> Head \cup {None}]
      /\ job[p] \in Job /\ job[p].task \in Tasks /\ RowOK(i) /\ TypeOK
      /\ (lock = p) <=> (pc[p] \in {"REMOVE", "CONFIRM"})
  BY JobNamed DEF Verify, WInv, TypeOK, ProcOK
<1>2. /\ \/ Goto(p, "UNDO")
         \/ Observed(i) /\ AtStart(i) /\ Goto(p, "ACTIVATE")
      /\ UNCHANGED <<durable, task, git, lock, faults>>
  BY <1>1 DEF Verify
<1>3. Store'  BY StoreStays DEF Verify
<1>4. /\ pc' \in [Procs -> Pc] /\ job' \in [Procs -> Job]
      /\ pc'[p] \in {"ACTIVATE", "UNDO"}
      /\ pc'[p] = "IDLE" \/ job'[p] = job[p]
      /\ \A q \in Procs \ {p} : pc'[q] = pc[q] /\ job'[q] = job[q]
  BY <1>1, <1>2, Returns, Goes DEF Pc
<1>5. TypeOK'
  BY <1>1, <1>2, <1>3, <1>4, ConstantsAssumption DEF Store, TypeOK
<1>6. ASSUME NEW j \in Ids PROVE RowOK(j)'
  <2>1. CASE j = i
    BY <1>1, <1>2, <2>1, ConstantsAssumption DEF RowOK, Absent
  <2>2. CASE j # i
    BY <1>1, <1>2, <2>2 DEF WInv, RowOK, Absent
  <2> QED  BY <2>1, <2>2
<1>7. ASSUME NEW q \in Procs PROVE ProcOK(q)'
  <2>1. CASE q = p
    BY <1>1, <1>2, <1>4, <2>1, ConstantsAssumption
       DEF ProcOK, Provisioner, Remover, Making, Observed, Registered, SameGeneration, AtStart,
          Goto, TypeOK
  <2>2. CASE q # p
    <3>1. ProcOK(q) /\ OneBuilder(p, q) /\ pc'[q] = pc[q] /\ job'[q] = job[q]
      BY <1>4, <2>2 DEF WInv
    <3>2. (lock' = q) <=> (pc[q] \in {"REMOVE", "CONFIRM"})
      BY <1>1, <1>2, <2>2, <3>1, ConstantsAssumption DEF ProcOK, WInv
    <3>3. CASE pc[q] = "IDLE"
      BY <3>1, <3>2, <3>3 DEF ProcOK
    <3>4. CASE pc[q] # "IDLE" /\ job[q].id = i
      BY <1>1, <1>2, <2>2, <3>1, <3>2, <3>4, ConstantsAssumption DEF ProcOK, Provisioner, Remover,
         OneBuilder, Making, Building, Observed, Registered, SameGeneration, AtStart
    <3>5. CASE pc[q] # "IDLE" /\ job[q].id # i
      <4>1. /\ job[q].id \in Ids /\ rows'[job[q].id] = rows[job[q].id]
            /\ tree'[job[q].id] = tree[job[q].id] /\ branch'[job[q].id] = branch[job[q].id]
        BY <1>1, <1>2, <3>1, <3>5 DEF ProcOK
      <4> QED  BY <1>2, <3>1, <3>2, <3>5, <4>1 DEF ProcOK, Provisioner, Remover, Observed,
         Registered, SameGeneration, AtStart
    <3> QED  BY <3>3, <3>4, <3>5
  <2> QED  BY <2>1, <2>2
<1>8. \A q, x \in Procs : OneBuilder(q, x)'
  BY <1>1, <1>2, <1>4 DEF WInv, OneBuilder, Building, Making
<1> QED  BY <1>3, <1>5, <1>6, <1>7, <1>8 DEF WInv, Store

LEMMA RemoveKeeps ==
  ASSUME WInv, NEW p \in Procs, Remove(p)
  PROVE  WInv'
<1> DEFINE i == job[p].id
<1>1. /\ i \in Ids /\ Provisioner(p, i) /\ Remover(p, i) /\ rows[i] \in Row /\ tree[i] \in Tree
      /\ pc[p] = "REMOVE" /\ rows \in [Ids -> Row] /\ tree \in [Ids -> Tree]
      /\ branch \in [Ids -> Head \cup {None}]
      /\ job[p] \in Job /\ job[p].task \in Tasks /\ RowOK(i) /\ TypeOK
      /\ (lock = p) <=> (pc[p] \in {"REMOVE", "CONFIRM"})
  BY JobNamed DEF Remove, WInv, TypeOK, ProcOK
<1>2. /\ tree' = [tree EXCEPT ![i] = NoTree(tree[i].gen)] /\ NoTree(tree[i].gen) \in Tree
      /\ ~NoTree(tree[i].gen).dirty /\ NoTree(tree[i].gen).place = "ABSENT"
      /\ rows[i].status = "RELEASING"
      /\ Goto(p, "CONFIRM") /\ UNCHANGED <<durable, task, branch, source, base, lock, faults>>
  BY <1>1 DEF Remove, NoTree, Tree, Remover
<1>3. Store'  BY StoreStays DEF Remove
<1>4. /\ pc' \in [Procs -> Pc] /\ job' \in [Procs -> Job]
      /\ pc'[p] \in {"CONFIRM"}
      /\ pc'[p] = "IDLE" \/ job'[p] = job[p]
      /\ \A q \in Procs \ {p} : pc'[q] = pc[q] /\ job'[q] = job[q]
  BY <1>1, <1>2, Returns, Goes DEF Pc
<1>5. TypeOK'
  BY <1>1, <1>2, <1>3, <1>4, ConstantsAssumption DEF Store, TypeOK
<1>6. ASSUME NEW j \in Ids PROVE RowOK(j)'
  <2>1. CASE j = i
    BY <1>1, <1>2, <2>1, ConstantsAssumption DEF RowOK, Absent
  <2>2. CASE j # i
    BY <1>1, <1>2, <2>2 DEF WInv, RowOK, Absent
  <2> QED  BY <2>1, <2>2
<1>7. ASSUME NEW q \in Procs PROVE ProcOK(q)'
  <2>1. CASE q = p
    BY <1>1, <1>2, <1>4, <2>1, ConstantsAssumption
       DEF ProcOK, Provisioner, Remover, Making, Observed, Registered, SameGeneration, AtStart
  <2>2. CASE q # p
    <3>1. ProcOK(q) /\ OneBuilder(p, q) /\ pc'[q] = pc[q] /\ job'[q] = job[q]
      BY <1>4, <2>2 DEF WInv
    <3>2. (lock' = q) <=> (pc[q] \in {"REMOVE", "CONFIRM"})
      BY <1>1, <1>2, <2>2, <3>1, ConstantsAssumption DEF ProcOK, WInv
    <3>3. CASE pc[q] = "IDLE"
      BY <3>1, <3>2, <3>3 DEF ProcOK
    <3>4. CASE pc[q] # "IDLE" /\ job[q].id = i
      BY <1>1, <1>2, <2>2, <3>1, <3>2, <3>4, ConstantsAssumption DEF ProcOK, Provisioner, Remover,
         OneBuilder, Making, Building, Observed, Registered, SameGeneration, AtStart, WInv
    <3>5. CASE pc[q] # "IDLE" /\ job[q].id # i
      <4>1. /\ job[q].id \in Ids /\ rows'[job[q].id] = rows[job[q].id]
            /\ tree'[job[q].id] = tree[job[q].id] /\ branch'[job[q].id] = branch[job[q].id]
        BY <1>1, <1>2, <3>1, <3>5 DEF ProcOK
      <4> QED  BY <1>2, <3>1, <3>2, <3>5, <4>1 DEF ProcOK, Provisioner, Remover, Observed,
         Registered, SameGeneration, AtStart
    <3> QED  BY <3>3, <3>4, <3>5
  <2> QED  BY <2>1, <2>2
<1>8. \A q, x \in Procs : OneBuilder(q, x)'
  BY <1>1, <1>2, <1>4 DEF WInv, OneBuilder, Building, Making
<1> QED  BY <1>3, <1>5, <1>6, <1>7, <1>8 DEF WInv, Store

LEMMA RemoveFailsKeeps ==
  ASSUME WInv, NEW p \in Procs, RemoveFails(p)
  PROVE  WInv'
<1> DEFINE i == job[p].id
<1>1. /\ i \in Ids /\ Provisioner(p, i) /\ Remover(p, i) /\ rows[i] \in Row /\ tree[i] \in Tree
      /\ pc[p] = "REMOVE" /\ rows \in [Ids -> Row] /\ tree \in [Ids -> Tree]
      /\ branch \in [Ids -> Head \cup {None}]
      /\ job[p] \in Job /\ job[p].task \in Tasks /\ RowOK(i) /\ TypeOK
      /\ (lock = p) <=> (pc[p] \in {"REMOVE", "CONFIRM"})
  BY JobNamed DEF RemoveFails, WInv, TypeOK, ProcOK
<1>2. /\ lock' = None /\ Return(p) /\ faults' \in 0 .. MaxFaults
      /\ UNCHANGED <<durable, task, git>>
  BY <1>1, ConstantsAssumption DEF RemoveFails, Fault, TypeOK
<1>3. Store'  BY StoreStays DEF RemoveFails
<1>4. /\ pc' \in [Procs -> Pc] /\ job' \in [Procs -> Job]
      /\ pc'[p] \in {"IDLE"}
      /\ pc'[p] = "IDLE" \/ job'[p] = job[p]
      /\ \A q \in Procs \ {p} : pc'[q] = pc[q] /\ job'[q] = job[q]
  BY <1>1, <1>2, Returns, Goes DEF Pc
<1>5. TypeOK'
  BY <1>1, <1>2, <1>3, <1>4, ConstantsAssumption DEF Store, TypeOK
<1>6. ASSUME NEW j \in Ids PROVE RowOK(j)'
  <2>1. CASE j = i
    BY <1>1, <1>2, <2>1, ConstantsAssumption DEF RowOK, Absent
  <2>2. CASE j # i
    BY <1>1, <1>2, <2>2 DEF WInv, RowOK, Absent
  <2> QED  BY <2>1, <2>2
<1>7. ASSUME NEW q \in Procs PROVE ProcOK(q)'
  <2>1. CASE q = p
    BY <1>1, <1>2, <1>4, <2>1, ConstantsAssumption
       DEF ProcOK, Provisioner, Remover, Making, Observed, Registered, SameGeneration, AtStart
  <2>2. CASE q # p
    <3>1. ProcOK(q) /\ OneBuilder(p, q) /\ pc'[q] = pc[q] /\ job'[q] = job[q]
      BY <1>4, <2>2 DEF WInv
    <3>2. (lock' = q) <=> (pc[q] \in {"REMOVE", "CONFIRM"})
      BY <1>1, <1>2, <2>2, <3>1, ConstantsAssumption DEF ProcOK, WInv
    <3>3. CASE pc[q] = "IDLE"
      BY <3>1, <3>2, <3>3 DEF ProcOK
    <3>4. CASE pc[q] # "IDLE" /\ job[q].id = i
      BY <1>1, <1>2, <2>2, <3>1, <3>2, <3>4, ConstantsAssumption DEF ProcOK, Provisioner, Remover,
         OneBuilder, Making, Building, Observed, Registered, SameGeneration, AtStart
    <3>5. CASE pc[q] # "IDLE" /\ job[q].id # i
      <4>1. /\ job[q].id \in Ids /\ rows'[job[q].id] = rows[job[q].id]
            /\ tree'[job[q].id] = tree[job[q].id] /\ branch'[job[q].id] = branch[job[q].id]
        BY <1>1, <1>2, <3>1, <3>5 DEF ProcOK
      <4> QED  BY <1>2, <3>1, <3>2, <3>5, <4>1 DEF ProcOK, Provisioner, Remover, Observed,
         Registered, SameGeneration, AtStart
    <3> QED  BY <3>3, <3>4, <3>5
  <2> QED  BY <2>1, <2>2
<1>8. \A q, x \in Procs : OneBuilder(q, x)'
  BY <1>1, <1>2, <1>4 DEF WInv, OneBuilder, Building, Making
<1> QED  BY <1>3, <1>5, <1>6, <1>7, <1>8 DEF WInv, Store

LEMMA FinishStore ==
  ASSUME WInv, NEW p \in Procs, Finish(p)
  PROVE  Store'
<1> DEFINE i == job[p].id
           row == [rows[i] EXCEPT !.status = "RELEASED"]
<1>1. /\ i \in Ids /\ Provisioner(p, i) /\ rows[i] \in Row /\ tree[i] \in Tree /\ pc[p] = "FINISH"
      /\ rows \in [Ids -> Row] /\ job[p] \in Job
  BY JobNamed DEF Finish, WInv, TypeOK
<1>2. /\ \/ rows' = [rows EXCEPT ![i] = row] /\ rows[i].status = "RELEASING"
         \/ rows' = rows
      /\ latest' = latest /\ run' = run
  BY <1>1 DEF Finish, ReleasedWhenAbsent, SetStatus
<1>3. CASE rows' = [rows EXCEPT ![i] = row] /\ rows[i].status = "RELEASING"
  <2>1. row \in Row /\ row.status # "NONE" /\ row.task = rows[i].task
    BY <1>1, <1>3 DEF Row, Tree, Provisioner, Status, Job
  <2>2. row.status \in NonTerminal => rows[i].status \in NonTerminal
    BY <1>3 DEF NonTerminal
  <2> HIDE DEF row, i
  <2> QED  BY <1>1, <1>2, <1>3, <2>1, <2>2, RowMoves
<1> QED  BY <1>2, <1>3, StoreStays DEF durable

LEMMA ConfirmStore ==
  ASSUME WInv, NEW p \in Procs, Confirm(p)
  PROVE  Store'
<1> DEFINE i == job[p].id
           row == [rows[i] EXCEPT !.status = "RELEASED"]
<1>1. /\ i \in Ids /\ Provisioner(p, i) /\ rows[i] \in Row /\ tree[i] \in Tree /\ pc[p] = "CONFIRM"
      /\ rows \in [Ids -> Row] /\ job[p] \in Job
  BY JobNamed DEF Confirm, WInv, TypeOK
<1>2. /\ \/ rows' = [rows EXCEPT ![i] = row] /\ rows[i].status = "RELEASING"
         \/ rows' = rows
      /\ latest' = latest /\ run' = run
  BY <1>1 DEF Confirm, ReleasedWhenAbsent, SetStatus
<1>3. CASE rows' = [rows EXCEPT ![i] = row] /\ rows[i].status = "RELEASING"
  <2>1. row \in Row /\ row.status # "NONE" /\ row.task = rows[i].task
    BY <1>1, <1>3 DEF Row, Tree, Provisioner, Status, Job
  <2>2. row.status \in NonTerminal => rows[i].status \in NonTerminal
    BY <1>3 DEF NonTerminal
  <2> HIDE DEF row, i
  <2> QED  BY <1>1, <1>2, <1>3, <2>1, <2>2, RowMoves
<1> QED  BY <1>2, <1>3, StoreStays DEF durable

LEMMA FinishKeeps ==
  ASSUME WInv, NEW p \in Procs, Finish(p)
  PROVE  WInv'
<1> DEFINE i == job[p].id
<1>1. /\ i \in Ids /\ Provisioner(p, i) /\ Remover(p, i) /\ rows[i] \in Row /\ tree[i] \in Tree
      /\ pc[p] = "FINISH" /\ rows \in [Ids -> Row] /\ tree \in [Ids -> Tree]
      /\ branch \in [Ids -> Head \cup {None}]
      /\ job[p] \in Job /\ job[p].task \in Tasks /\ RowOK(i) /\ TypeOK
      /\ (lock = p) <=> (pc[p] \in {"REMOVE", "CONFIRM"})
  BY JobNamed DEF Finish, WInv, TypeOK, ProcOK
<1>2. /\ UNCHANGED <<task, git, faults, latest>> /\ lock = None
      /\ \/ /\ rows[i].status = "RELEASING" /\ rows' = [rows EXCEPT ![i] = [rows[i] EXCEPT !.status = "RELEASED"]]
            /\ UNCHANGED lock /\ Return(p)
         \/ /\ rows[i].status = "RELEASING" /\ Removable(i) /\ UNCHANGED rows
            /\ lock' = p /\ Goto(p, "REMOVE")
         \/ UNCHANGED <<rows, lock>> /\ Return(p)
  BY <1>1 DEF Finish, ReleasedWhenAbsent, SetStatus, Free
<1>9. /\ [rows[i] EXCEPT !.status = "RELEASED"].evidence = rows[i].evidence
      /\ [rows[i] EXCEPT !.status = "RELEASED"].releaseHead = rows[i].releaseHead
      /\ [rows[i] EXCEPT !.status = "RELEASED"].task = rows[i].task
      /\ [rows[i] EXCEPT !.status = "RELEASED"].status = "RELEASED"
  BY <1>1 DEF Row
<1>3. Store'  BY FinishStore
<1>4. /\ pc' \in [Procs -> Pc] /\ job' \in [Procs -> Job]
      /\ pc'[p] \in {"IDLE", "REMOVE"}
      /\ pc'[p] = "IDLE" \/ job'[p] = job[p]
      /\ \A q \in Procs \ {p} : pc'[q] = pc[q] /\ job'[q] = job[q]
  BY <1>1, <1>2, Returns, Goes DEF Pc
<1>5. TypeOK'
  BY <1>1, <1>2, <1>3, <1>4, ConstantsAssumption DEF Store, TypeOK
<1>6. ASSUME NEW j \in Ids PROVE RowOK(j)'
  <2>1. CASE j = i
    BY <1>1, <1>2, <1>9, <2>1, ConstantsAssumption DEF RowOK, Absent
  <2>2. CASE j # i
    BY <1>1, <1>2, <2>2 DEF WInv, RowOK, Absent
  <2> QED  BY <2>1, <2>2
<1>7. ASSUME NEW q \in Procs PROVE ProcOK(q)'
  <2>1. CASE q = p
    BY <1>1, <1>2, <1>4, <2>1, ConstantsAssumption
       DEF ProcOK, Provisioner, Remover, Making, Observed, Registered, SameGeneration, AtStart,
          Removable, Goto, Return, TypeOK
  <2>2. CASE q # p
    <3>1. ProcOK(q) /\ OneBuilder(p, q) /\ pc'[q] = pc[q] /\ job'[q] = job[q]
      BY <1>4, <2>2 DEF WInv
    <3>2. (lock' = q) <=> (pc[q] \in {"REMOVE", "CONFIRM"})
      BY <1>1, <1>2, <2>2, <3>1, ConstantsAssumption DEF ProcOK, WInv
    <3>3. CASE pc[q] = "IDLE"
      BY <3>1, <3>2, <3>3 DEF ProcOK
    <3>4. CASE pc[q] # "IDLE" /\ job[q].id = i
      <4>1. \/ rows'[i] = rows[i]
            \/ rows[i].status = "RELEASING" /\ rows'[i].status = "RELEASED"
        BY <1>1, <1>2, <1>9
      <4>2. pc[q] # "REMOVE"
        BY <1>2, <3>1, ConstantsAssumption DEF ProcOK
      <4>3. tree' = tree /\ branch' = branch
        BY <1>2
      <4> HIDE DEF i
      <4>4. Provisioner(q, job[q].id)'
        BY <3>1, <3>4, <4>1, <4>3
           DEF ProcOK, Provisioner, Making, Observed, Registered, SameGeneration, AtStart
      <4> QED  BY <1>1, <3>1, <3>2, <3>4, <4>2, <4>4 DEF ProcOK, Remover
    <3>5. CASE pc[q] # "IDLE" /\ job[q].id # i
      <4>1. /\ job[q].id \in Ids /\ rows'[job[q].id] = rows[job[q].id]
            /\ tree'[job[q].id] = tree[job[q].id] /\ branch'[job[q].id] = branch[job[q].id]
        BY <1>1, <1>2, <3>1, <3>5 DEF ProcOK
      <4> QED  BY <1>2, <3>1, <3>2, <3>5, <4>1 DEF ProcOK, Provisioner, Remover, Observed,
         Registered, SameGeneration, AtStart
    <3> QED  BY <3>3, <3>4, <3>5
  <2> QED  BY <2>1, <2>2
<1>8. \A q, x \in Procs : OneBuilder(q, x)'
  BY <1>1, <1>2, <1>4 DEF WInv, OneBuilder, Building, Making
<1> QED  BY <1>3, <1>5, <1>6, <1>7, <1>8 DEF WInv, Store

LEMMA ConfirmKeeps ==
  ASSUME WInv, NEW p \in Procs, Confirm(p)
  PROVE  WInv'
<1> DEFINE i == job[p].id
<1>1. /\ i \in Ids /\ Provisioner(p, i) /\ Remover(p, i) /\ rows[i] \in Row /\ tree[i] \in Tree
      /\ pc[p] = "CONFIRM" /\ rows \in [Ids -> Row] /\ tree \in [Ids -> Tree]
      /\ branch \in [Ids -> Head \cup {None}]
      /\ job[p] \in Job /\ job[p].task \in Tasks /\ RowOK(i) /\ TypeOK
      /\ (lock = p) <=> (pc[p] \in {"REMOVE", "CONFIRM"})
  BY JobNamed DEF Confirm, WInv, TypeOK, ProcOK
<1>2. /\ UNCHANGED <<task, git, faults, latest>> /\ lock' = None /\ Return(p)
      /\ \/ rows[i].status = "RELEASING" /\ rows' = [rows EXCEPT ![i] = [rows[i] EXCEPT !.status = "RELEASED"]]
         \/ UNCHANGED rows
  BY <1>1 DEF Confirm, ReleasedWhenAbsent, SetStatus
<1>9. /\ [rows[i] EXCEPT !.status = "RELEASED"].evidence = rows[i].evidence
      /\ [rows[i] EXCEPT !.status = "RELEASED"].releaseHead = rows[i].releaseHead
      /\ [rows[i] EXCEPT !.status = "RELEASED"].task = rows[i].task
      /\ [rows[i] EXCEPT !.status = "RELEASED"].status = "RELEASED"
  BY <1>1 DEF Row
<1>3. Store'  BY ConfirmStore
<1>4. /\ pc' \in [Procs -> Pc] /\ job' \in [Procs -> Job]
      /\ pc'[p] \in {"IDLE"}
      /\ pc'[p] = "IDLE" \/ job'[p] = job[p]
      /\ \A q \in Procs \ {p} : pc'[q] = pc[q] /\ job'[q] = job[q]
  BY <1>1, <1>2, Returns, Goes DEF Pc
<1>5. TypeOK'
  BY <1>1, <1>2, <1>3, <1>4, ConstantsAssumption DEF Store, TypeOK
<1>6. ASSUME NEW j \in Ids PROVE RowOK(j)'
  <2>1. CASE j = i
    BY <1>1, <1>2, <1>9, <2>1, ConstantsAssumption DEF RowOK, Absent
  <2>2. CASE j # i
    BY <1>1, <1>2, <2>2 DEF WInv, RowOK, Absent
  <2> QED  BY <2>1, <2>2
<1>7. ASSUME NEW q \in Procs PROVE ProcOK(q)'
  <2>1. CASE q = p
    BY <1>1, <1>2, <1>4, <2>1, ConstantsAssumption
       DEF ProcOK, Provisioner, Remover, Making, Observed, Registered, SameGeneration, AtStart
  <2>2. CASE q # p
    <3>1. ProcOK(q) /\ OneBuilder(p, q) /\ pc'[q] = pc[q] /\ job'[q] = job[q]
      BY <1>4, <2>2 DEF WInv
    <3>2. (lock' = q) <=> (pc[q] \in {"REMOVE", "CONFIRM"})
      BY <1>1, <1>2, <2>2, <3>1, ConstantsAssumption DEF ProcOK, WInv
    <3>3. CASE pc[q] = "IDLE"
      BY <3>1, <3>2, <3>3 DEF ProcOK
    <3>4. CASE pc[q] # "IDLE" /\ job[q].id = i
      <4>1. \/ rows'[i] = rows[i]
            \/ rows[i].status = "RELEASING" /\ rows'[i].status = "RELEASED"
        BY <1>1, <1>2, <1>9
      <4>2. pc[q] # "REMOVE"
        BY <1>1, <2>2, <3>1 DEF ProcOK
      <4>3. tree' = tree /\ branch' = branch
        BY <1>2
      <4> HIDE DEF i
      <4>4. Provisioner(q, job[q].id)'
        BY <3>1, <3>4, <4>1, <4>3
           DEF ProcOK, Provisioner, Making, Observed, Registered, SameGeneration, AtStart
      <4> QED  BY <1>1, <3>1, <3>2, <3>4, <4>2, <4>4 DEF ProcOK, Remover
    <3>5. CASE pc[q] # "IDLE" /\ job[q].id # i
      <4>1. /\ job[q].id \in Ids /\ rows'[job[q].id] = rows[job[q].id]
            /\ tree'[job[q].id] = tree[job[q].id] /\ branch'[job[q].id] = branch[job[q].id]
        BY <1>1, <1>2, <3>1, <3>5 DEF ProcOK
      <4> QED  BY <1>2, <3>1, <3>2, <3>5, <4>1 DEF ProcOK, Provisioner, Remover, Observed,
         Registered, SameGeneration, AtStart
    <3> QED  BY <3>3, <3>4, <3>5
  <2> QED  BY <2>1, <2>2
<1>8. \A q, x \in Procs : OneBuilder(q, x)'
  BY <1>1, <1>2, <1>4 DEF WInv, OneBuilder, Building, Making
<1> QED  BY <1>3, <1>5, <1>6, <1>7, <1>8 DEF WInv, Store

LEMMA CaptureKeeps ==
  ASSUME WInv, NEW p \in Procs, Capture(p)
  PROVE  WInv'
<1> DEFINE i == job[p].id
<1>1. /\ i \in Ids /\ pc[p] = "CAPTURE" /\ RowOK(i) /\ TypeOK
      /\ job \in [Procs -> Job] /\ job[p] \in Job /\ job[p].task \in Tasks
      /\ branch[i] \in Head \cup {None} /\ lock # p
  BY JobNamed DEF Capture, WInv, TypeOK, ProcOK
<1>2. /\ \/ /\ branch[i] \in Head /\ job' = [job EXCEPT ![p] = [job[p] EXCEPT !.head = branch[i]]]
            /\ pc' = [pc EXCEPT ![p] = "RELEASE"]
         \/ Return(p)
      /\ UNCHANGED <<durable, task, git, lock, faults>>
  BY <1>1 DEF Capture, Observed, Registered, RowOK, Absent
<1>3. [job[p] EXCEPT !.head = branch[i]] \in Job \/ branch[i] \notin Head
  BY <1>1 DEF Job
<1>4. /\ pc' \in [Procs -> Pc] /\ job' \in [Procs -> Job]
      /\ pc'[p] \in {"IDLE", "RELEASE"}
      /\ pc'[p] = "IDLE" \/ (job'[p].id = job[p].id /\ job'[p].task = job[p].task)
      /\ \A q \in Procs \ {p} : pc'[q] = pc[q] /\ job'[q] = job[q]
  <2>1. CASE Return(p)  BY <1>1, <2>1, Returns
  <2>2. CASE ~Return(p)
    <3>1. /\ [job[p] EXCEPT !.head = branch[i]] \in Job
          /\ [job[p] EXCEPT !.head = branch[i]].id = i
          /\ [job[p] EXCEPT !.head = branch[i]].task = job[p].task
      BY <1>1, <1>2, <1>3, <2>2 DEF Job
    <3>2. /\ job' = [job EXCEPT ![p] = [job[p] EXCEPT !.head = branch[i]]]
          /\ pc' = [pc EXCEPT ![p] = "RELEASE"] /\ pc \in [Procs -> Pc]
      BY <1>1, <1>2, <2>2 DEF TypeOK
    <3> QED  BY <1>1, <3>1, <3>2 DEF Pc
  <2> QED  BY <2>1, <2>2
<1>5. Store'  BY <1>2, StoreStays
<1>6. TypeOK'  BY <1>1, <1>2, <1>4 DEF TypeOK
<1>7. \A j \in Ids : RowOK(j)'  BY <1>2 DEF WInv, RowOK, Absent
<1>8. ASSUME NEW q \in Procs PROVE ProcOK(q)'
  BY <1>1, <1>2, <1>4 DEF WInv, ProcOK, Provisioner, Remover, Making, Observed, Registered,
     SameGeneration, AtStart
<1>9. \A q, x \in Procs : OneBuilder(q, x)'
  BY <1>4 DEF WInv, OneBuilder, Building, Making
<1> QED  BY <1>5, <1>6, <1>7, <1>8, <1>9 DEF WInv, Store

(* A process that stops, or goes on to undo its reservation, and releases  *)
(* the lock it may hold, while nothing else changes.                       *)
LEMMA Stops ==
  ASSUME WInv, NEW p \in Procs, pc[p] # "IDLE",
         Return(p) \/ (Goto(p, "UNDO") /\ pc[p] \in {"RECORD", "ACTIVATE"}),
         lock' = IF lock = p THEN None ELSE lock,
         faults' \in 0 .. MaxFaults, UNCHANGED <<durable, task, git>>
  PROVE  WInv'
<1>1. job[p].id \in Ids /\ job[p].task \in Tasks /\ Provisioner(p, job[p].id) /\ TypeOK
  BY JobNamed DEF WInv
<1>2. /\ pc' \in [Procs -> Pc] /\ job' \in [Procs -> Job]
      /\ pc'[p] = "IDLE" \/ (pc'[p] = "UNDO" /\ job'[p] = job[p] /\ pc[p] \in {"RECORD", "ACTIVATE"})
      /\ \A q \in Procs \ {p} : pc'[q] = pc[q] /\ job'[q] = job[q]
  BY <1>1, Returns, Goes DEF Pc
<1>3. Store'  BY StoreStays
<1>4. TypeOK'  BY <1>1, <1>2 DEF TypeOK
<1>5. \A j \in Ids : RowOK(j)'  BY DEF WInv, RowOK, Absent
<1>6. ASSUME NEW q \in Procs PROVE ProcOK(q)'
  <2>1. CASE q = p
    BY <1>1, <1>2, <2>1, ConstantsAssumption DEF ProcOK, Provisioner, Remover, Making
  <2>2. CASE q # p
    BY <1>2, <2>2, ConstantsAssumption DEF WInv, ProcOK, Provisioner, Remover, Making, Observed,
       Registered,
       SameGeneration, AtStart
  <2> QED  BY <2>1, <2>2
<1>7. \A q, x \in Procs : OneBuilder(q, x)'
  BY <1>2 DEF WInv, OneBuilder, Building, Making
<1> QED  BY <1>3, <1>4, <1>5, <1>6, <1>7 DEF WInv, Store

LEMMA CrashKeeps ==
  ASSUME WInv, NEW p \in Procs, Crash(p)
  PROVE  WInv'
<1>1. faults' \in 0 .. MaxFaults  BY ConstantsAssumption DEF Crash, Fault, WInv, TypeOK
<1> QED  BY <1>1, Stops DEF Crash, Idle

LEMMA StoreFailsKeeps ==
  ASSUME WInv, NEW p \in Procs, StoreFails(p)
  PROVE  WInv'
<1>1. faults' \in 0 .. MaxFaults  BY ConstantsAssumption DEF StoreFails, Fault, WInv, TypeOK
<1> QED  BY <1>1, Stops DEF StoreFails

LEMMA ReserveKeeps ==
  ASSUME WInv, NEW p \in Procs, Reserve(p)
  PROVE  WInv'
<1> DEFINE i == job[p].id
           t == job[p].task
           row == [ status |-> "PROVISIONING", task |-> t, start |-> StartingCommit(t, job[p]),
                    releaseHead |-> None, evidence |-> None ]
<1>1. /\ i \in Ids /\ t \in Tasks /\ pc[p] = "RESERVE" /\ lock = None /\ TypeOK
      /\ job[p] \in Job /\ rows \in [Ids -> Row] /\ latest \in [Tasks -> Ids \cup {None}]
  BY JobNamed DEF Reserve, Free, WInv, TypeOK
<1>2. UNCHANGED <<task, git, lock, faults>>  BY DEF Reserve
<1>3. row \in Row
  <2>1. job[p].source \in 0 .. MaxMoves /\ job[p].base \in 0 .. MaxMoves  BY <1>1 DEF Job
  <2>2. StartingCommit(t, job[p]) \in 0 .. 2 * MaxMoves
    BY <2>1, ConstantsAssumption DEF StartingCommit
  <2> QED  BY <1>1, <2>2 DEF Row, Status
<1>4. CASE Reservable(t, i, job[p].board)
  <2>1. /\ rows' = [rows EXCEPT ![i] = row] /\ latest' = [latest EXCEPT ![t] = i] /\ Goto(p, "ADD")
        /\ rows[i].status = "NONE" /\ \A j \in Ids : rows[j].task = t => rows[j].status \notin NonTerminal
    BY <1>4 DEF Reserve, Reservable, Held
  <2>2. /\ pc' \in [Procs -> Pc] /\ job' \in [Procs -> Job] /\ pc'[p] = "ADD" /\ job'[p] = job[p]
        /\ \A q \in Procs \ {p} : pc'[q] = pc[q] /\ job'[q] = job[q]
    BY <1>1, <2>1, Goes DEF Pc
  <2> HIDE DEF row
  <2>3. rows' \in [Ids -> Row] /\ rows'[i] = row /\ \A j \in Ids \ {i} : rows'[j] = rows[j]
    BY <1>1, <1>3, <2>1
  <2>4. /\ latest' \in [Tasks -> Ids \cup {None}] /\ latest'[t] = i
        /\ \A u \in Tasks \ {t} : latest'[u] = latest[u]
    BY <1>1, <2>1
  <2>5. TypeOK'  BY <1>1, <1>2, <2>2, <2>3, <2>4 DEF TypeOK
  <2>6. /\ row.status = "PROVISIONING" /\ row.task = t /\ row.evidence = None
    BY DEF row
  <2>7. ASSUME NEW j \in Ids PROVE RowOK(j)'
    BY <1>1, <1>2, <2>1, <2>3, <2>6 DEF WInv, RowOK, Absent
  <2>8. ASSUME NEW q \in Procs PROVE ProcOK(q)'
    <3>1. ProcOK(q) /\ OneBuilder(p, q)  BY DEF WInv
    <3>2. CASE q = p
      BY <1>1, <1>2, <2>2, <2>3, <2>6, <3>1, <3>2 DEF ProcOK, Provisioner, Remover, Making
    <3>3. CASE q # p /\ job[q].id # i
      BY <1>1, <1>2, <2>2, <2>3, <3>1, <3>3
         DEF ProcOK, Provisioner, Remover, Making, Observed, Registered, SameGeneration, AtStart
    <3>4. CASE q # p /\ job[q].id = i
      <4>1. pc[q] \notin {"ADD", "MARK", "RECORD", "VERIFY", "ACTIVATE", "UNDO", "REMOVE"}
        BY <2>1, <3>1, <3>4 DEF ProcOK, Provisioner, Remover, Making
      <4> QED  BY <1>1, <1>2, <2>2, <3>1, <3>4, <4>1 DEF ProcOK, Provisioner, Remover, Making
    <3> QED  BY <3>2, <3>3, <3>4
  <2>9. ASSUME NEW q \in Procs, NEW x \in Procs PROVE OneBuilder(q, x)'
    <3>1. \A y \in Procs \ {p} : pc[y] \in Building => job[y].id # i
      BY <2>1 DEF WInv, ProcOK, Provisioner, Making, Building
    <3> QED  BY <1>1, <2>2, <3>1 DEF WInv, OneBuilder
  <2>10. \A u \in Tasks : LatestOK(u)'
    BY <1>1, <2>1, <2>3, <2>4, <2>6 DEF WInv, LatestOK
  <2>11. OneOwner'
    BY <1>1, <2>1, <2>3, <2>6 DEF WInv, OneOwner
  <2>12. RunHasCheckout'
    BY <1>1, <1>2, <2>1, <2>3 DEF WInv, RunHasCheckout
  <2> QED  BY <2>5, <2>7, <2>8, <2>9, <2>10, <2>11, <2>12 DEF WInv
<1>5. CASE ~Reservable(t, i, job[p].board)
  <2>1. Return(p) /\ UNCHANGED durable  BY <1>5 DEF Reserve
  <2>2. lock' = IF lock = p THEN None ELSE lock
    BY <1>1, <1>2, ConstantsAssumption
  <2>3. faults' \in 0 .. MaxFaults  BY <1>1, <1>2 DEF TypeOK
  <2> QED  BY <1>1, <1>2, <2>1, <2>2, <2>3, Stops
<1> QED  BY <1>4, <1>5

(* A process that begins an operation on an ownership.                     *)
LEMMA Begins ==
  ASSUME WInv, NEW p \in Procs, pc[p] = "IDLE",
         NEW j \in Job, j.id \in Ids, j.task \in Tasks,
         NEW where \in {"RESERVE", "CAPTURE", "FINISH"},
         job' = [job EXCEPT ![p] = j], pc' = [pc EXCEPT ![p] = where],
         UNCHANGED <<durable, task, git, lock, faults>>
  PROVE  WInv'
<1>1. /\ pc' \in [Procs -> Pc] /\ job' \in [Procs -> Job] /\ pc'[p] = where /\ job'[p] = j
      /\ \A q \in Procs \ {p} : pc'[q] = pc[q] /\ job'[q] = job[q]
  BY DEF WInv, TypeOK, Pc
<1>2. TypeOK'  BY <1>1 DEF WInv, TypeOK
<1>3. Store'  BY StoreStays
<1>4. \A x \in Ids : RowOK(x)'  BY DEF WInv, RowOK, Absent
<1>5. ASSUME NEW q \in Procs PROVE ProcOK(q)'
  <2>1. ProcOK(q)  BY DEF WInv
  <2>2. CASE q = p
    BY <1>1, <2>1, <2>2 DEF ProcOK, Provisioner, Remover, Making
  <2>3. CASE q # p
    BY <1>1, <2>1, <2>3 DEF ProcOK, Provisioner, Remover, Making, Observed, Registered,
       SameGeneration, AtStart
  <2> QED  BY <2>2, <2>3
<1>6. \A q, x \in Procs : OneBuilder(q, x)'
  BY <1>1 DEF WInv, OneBuilder, Building, Making
<1> QED  BY <1>2, <1>3, <1>4, <1>5, <1>6 DEF WInv, Store

LEMMA BeginProvisionKeeps ==
  ASSUME WInv, NEW p \in Procs, NEW t \in Tasks, BeginProvision(p, t)
  PROVE  WInv'
<1>1. PICK i \in Ids :
        job' = [job EXCEPT ![p] = [NoJob EXCEPT !.task = t, !.id = i, !.source = source,
                                                !.base = base, !.board = board[t]]]
  BY DEF BeginProvision
<1> DEFINE j == [NoJob EXCEPT !.task = t, !.id = i, !.source = source, !.base = base,
                              !.board = board[t]]
<1>2. j \in Job /\ j.id = i /\ j.task = t
  BY Idling, ConstantsAssumption DEF WInv, TypeOK, Job, Board, Head
<1>3. /\ pc[p] = "IDLE" /\ pc' = [pc EXCEPT ![p] = "RESERVE"]
      /\ UNCHANGED <<durable, task, git, lock, faults>>
  BY DEF BeginProvision, Idle
<1> HIDE DEF j
<1>4. job' = [job EXCEPT ![p] = j]  BY <1>1 DEF j
<1> QED  BY <1>2, <1>3, <1>4, Begins

LEMMA CurrentIsOne ==
  ASSUME WInv, NEW t \in Tasks, Current(t) # None
  PROVE  Current(t) \in Ids /\ rows[Current(t)].task = t /\ rows[Current(t)].status # "NONE"
<1>1. CASE Held(t) # {}
  BY <1>1 DEF Current, Held, NonTerminal
<1>2. CASE Held(t) = {}
  BY <1>2 DEF Current, WInv, TypeOK, LatestOK
<1> QED  BY <1>1, <1>2

LEMMA BeginReleaseKeeps ==
  ASSUME WInv, NEW p \in Procs, NEW t \in Tasks, BeginRelease(p, t)
  PROVE  WInv'
<1> DEFINE i == Current(t)
           j == [NoJob EXCEPT !.task = t, !.id = i]
<1>1. i \in Ids  BY CurrentIsOne DEF BeginRelease
<1>2. j \in Job /\ j.id = i /\ j.task = t
  BY <1>1, Idling, ConstantsAssumption DEF Job, Board, Head
<1>3. /\ pc[p] = "IDLE" /\ pc' = [pc EXCEPT ![p] = "CAPTURE"] /\ job' = [job EXCEPT ![p] = j]
      /\ UNCHANGED <<durable, task, git, lock, faults>>
  BY DEF BeginRelease, Idle
<1> HIDE DEF j, i
<1> QED  BY <1>1, <1>2, <1>3, Begins

LEMMA GovernedReleaseKeeps ==
  ASSUME WInv, NEW p \in Procs, NEW t \in Tasks, GovernedRelease(p, t)
  PROVE  WInv'
<1> DEFINE i == Current(t)
           j == [NoJob EXCEPT !.task = t, !.id = i, !.governed = TRUE]
           row == [rows[i] EXCEPT !.status = "RELEASING", !.releaseHead = proof[t].head]
<1>1. /\ i \in Ids /\ rows[i].task = t /\ rows[i] \in Row /\ rows \in [Ids -> Row] /\ lock = None
      /\ tree[i] \in Tree /\ RowOK(i) /\ ~run[t] /\ TypeOK
      /\ proof[t].head \in Head
  BY CurrentIsOne DEF GovernedRelease, WInv, TypeOK, ProofHolds, NoActiveRun, Free
<1>2. j \in Job /\ j.id = i /\ j.task = t
  BY <1>1, Idling, ConstantsAssumption DEF Job, Board, Head
<1>3. /\ pc[p] = "IDLE" /\ pc' = [pc EXCEPT ![p] = "FINISH"] /\ job' = [job EXCEPT ![p] = j]
      /\ UNCHANGED <<task, git, lock, faults>>
  BY DEF GovernedRelease, Idle
<1>4. \/ rows[i].status = "ACTIVE" /\ rows' = [rows EXCEPT ![i] = row] /\ latest' = latest
      \/ UNCHANGED durable
  BY DEF GovernedRelease
<1>5. /\ row \in Row /\ row.status = "RELEASING" /\ row.releaseHead = proof[t].head
      /\ row.task = t /\ row.evidence = rows[i].evidence
  BY <1>1 DEF Row, Status
<1> HIDE DEF j, i, row
<1>6. CASE UNCHANGED durable
  BY <1>1, <1>2, <1>3, <1>6, Begins
<1>7. CASE rows[i].status = "ACTIVE" /\ rows' = [rows EXCEPT ![i] = row] /\ latest' = latest
  <2>1. Store'
    BY <1>1, <1>3, <1>5, <1>7, RowMoves DEF NonTerminal
  <2>2. rows' \in [Ids -> Row] /\ rows'[i] = row /\ \A x \in Ids \ {i} : rows'[x] = rows[x]
    BY <1>1, <1>5, <1>7
  <2>3. /\ pc' \in [Procs -> Pc] /\ job' \in [Procs -> Job] /\ pc'[p] = "FINISH" /\ job'[p] = j
        /\ \A q \in Procs \ {p} : pc'[q] = pc[q] /\ job'[q] = job[q]
    BY <1>1, <1>2, <1>3 DEF TypeOK, Pc
  <2>4. TypeOK'  BY <1>1, <1>3, <1>7, <2>2, <2>3 DEF TypeOK
  <2>5. proof[t].head # None  BY <1>1, ConstantsAssumption DEF Head
  <2>6. \A x \in Ids : RowOK(x)'
    BY <1>1, <1>3, <1>5, <1>7, <2>2, <2>5 DEF WInv, RowOK, Absent
  <2>7. ASSUME NEW q \in Procs PROVE ProcOK(q)'
    <3>1. ProcOK(q)  BY DEF WInv
    <3>2. CASE q = p
      BY <1>1, <1>2, <1>3, <2>3, <3>1, <3>2 DEF ProcOK, Provisioner, Remover, Making
    <3>3. CASE q # p /\ job[q].id # i
      BY <1>3, <2>2, <2>3, <3>1, <3>3
         DEF ProcOK, Provisioner, Remover, Making, Observed, Registered, SameGeneration, AtStart
    <3>4. CASE q # p /\ job[q].id = i
      <4>1. pc[q] \notin {"ADD", "MARK", "RECORD", "REMOVE"}
        BY <1>7, <3>1, <3>4 DEF ProcOK, Provisioner, Remover, Making
      <4> QED  BY <1>3, <1>5, <2>2, <2>3, <3>1, <3>4, <4>1 DEF ProcOK, Provisioner, Remover, Making
    <3> QED  BY <3>2, <3>3, <3>4
  <2>8. \A q, x \in Procs : OneBuilder(q, x)'
    BY <2>3 DEF WInv, OneBuilder, Building, Making
  <2> QED  BY <2>1, <2>4, <2>6, <2>7, <2>8 DEF WInv, Store
<1> QED  BY <1>4, <1>6, <1>7

LEMMA ReconcileKeeps ==
  ASSUME WInv, NEW p \in Procs, NEW t \in Tasks, Reconcile(p, t)
  PROVE  WInv'
<1> DEFINE i == Current(t)
<1>1. /\ i \in Ids /\ rows[i].task = t /\ rows[i] \in Row /\ rows \in [Ids -> Row] /\ lock = None
      /\ tree[i] \in Tree /\ RowOK(i) /\ TypeOK
  BY CurrentIsOne DEF Reconcile, WInv, TypeOK, Free
<1>2. UNCHANGED <<task, git, process, faults>>  BY DEF Reconcile
<1>3. \E s \in {"FAILED", "ACTIVE", "RELEASED"} :
        /\ rows' = [rows EXCEPT ![i].status = s] /\ latest' = latest
        /\ s \in {"FAILED", "ACTIVE"} <=> rows[i].status = "PROVISIONING"
        /\ s = "RELEASED" => rows[i].status = "RELEASING"
        /\ s = "ACTIVE" => Observed(i)
  BY <1>1 DEF Reconcile, SetStatus, Reconcilable
<1>4. PICK s \in {"FAILED", "ACTIVE", "RELEASED"} :
        /\ rows' = [rows EXCEPT ![i].status = s] /\ latest' = latest
        /\ s \in {"FAILED", "ACTIVE"} <=> rows[i].status = "PROVISIONING"
        /\ s = "RELEASED" => rows[i].status = "RELEASING"
        /\ s = "ACTIVE" => Observed(i)
  BY <1>3
<1> DEFINE row == [rows[i] EXCEPT !.status = s]
<1>5. /\ row \in Row /\ row.status = s /\ row.releaseHead = rows[i].releaseHead
      /\ row.task = t /\ row.evidence = rows[i].evidence
      /\ rows' = [rows EXCEPT ![i] = row]
  BY <1>1, <1>4 DEF Row, Status
<1> HIDE DEF i, row
<1>6. Store'
  BY <1>1, <1>2, <1>4, <1>5, RowMoves DEF NonTerminal, task
<1>7. rows' \in [Ids -> Row] /\ rows'[i] = row /\ \A x \in Ids \ {i} : rows'[x] = rows[x]
  BY <1>1, <1>5
<1>8. TypeOK'  BY <1>1, <1>2, <1>4, <1>7 DEF TypeOK, process
<1>9. \A x \in Ids : RowOK(x)'
  BY <1>1, <1>2, <1>4, <1>5, <1>7 DEF WInv, RowOK, Absent, Observed, SameGeneration
<1>10. ASSUME NEW q \in Procs PROVE ProcOK(q)'
  <2>1. ProcOK(q) /\ UNCHANGED <<pc, job, lock, tree, branch>>  BY <1>2 DEF WInv, process
  <2>2. CASE job[q].id # i
    BY <1>7, <2>1, <2>2
       DEF ProcOK, Provisioner, Remover, Making, Observed, Registered, SameGeneration, AtStart
  <2>3. CASE job[q].id = i
    <3>1. pc[q] # "REMOVE"  BY <1>1, <2>1, ConstantsAssumption DEF ProcOK
    <3>2. pc[q] \in Making => s = "FAILED"
      BY <1>4, <2>1, <2>3 DEF ProcOK, Provisioner, Making, Observed, SameGeneration
    <3> QED
      BY <1>4, <1>5, <1>7, <2>1, <2>3, <3>1, <3>2 DEF ProcOK, Provisioner, Remover, Making
  <2> QED  BY <2>2, <2>3
<1>11. \A q, x \in Procs : OneBuilder(q, x)'
  BY <1>2 DEF WInv, OneBuilder, Building, Making, process
<1> QED  BY <1>6, <1>8, <1>9, <1>10, <1>11 DEF WInv, Store

(* The work of a subtask changes its rows in the task store only.          *)
LEMMA WorkKeeps ==
  ASSUME WInv, NEW t \in Tasks, Work(t)
  PROVE  WInv'
<1>1. UNCHANGED <<durable, git, process, faults>>
  BY DEF Work, StartRun, EndRun, Complete
<1>2. /\ board' \in [Tasks -> Board] /\ run' \in [Tasks -> BOOLEAN]
      /\ proof' \in [Tasks -> [id : Ids, head : Head] \cup {None}]
  <2>1. CASE StartRun(t)  BY <2>1 DEF StartRun, WInv, TypeOK, Board
  <2>2. CASE EndRun(t)  BY <2>2 DEF EndRun, WInv, TypeOK
  <2>3. CASE Complete(t)
    <3>1. /\ Current(t) \in Ids /\ branch[Current(t)] \in Head
      BY <2>3, CurrentIsOne
         DEF Complete, WInv, TypeOK, RowOK, Observed, Registered, Absent
    <3> QED  BY <2>3, <3>1 DEF Complete, WInv, TypeOK, Board
  <2> QED  BY <2>1, <2>2, <2>3 DEF Work
<1>3. TypeOK'  BY <1>1, <1>2 DEF WInv, TypeOK, process
<1>4. \A i \in Ids : RowOK(i)'  BY <1>1 DEF WInv, RowOK, Absent
<1>5. \A p \in Procs : ProcOK(p)'
  BY <1>1 DEF WInv, ProcOK, Provisioner, Remover, Observed, Registered, SameGeneration, AtStart,
              process
<1>6. \A p, q \in Procs : OneBuilder(p, q)'  BY <1>1 DEF WInv, OneBuilder, process
<1>7. \A u \in Tasks : LatestOK(u)'  BY <1>1 DEF WInv, LatestOK
<1>8. OneOwner'  BY <1>1 DEF WInv, OneOwner
<1>9. RunHasCheckout'
  <2>1. CASE StartRun(t)
    <3>1. /\ Current(t) \in Ids /\ rows[Current(t)].task = t /\ rows[Current(t)].status = "ACTIVE"
          /\ \A u \in Tasks \ {t} : run'[u] = run[u]
      BY <2>1, CurrentIsOne DEF StartRun, WInv, TypeOK
    <3> QED  BY <1>1, <3>1 DEF WInv, RunHasCheckout
  <2>2. CASE EndRun(t)  BY <1>1, <2>2 DEF EndRun, WInv, TypeOK, RunHasCheckout
  <2>3. CASE Complete(t)  BY <1>1, <2>3 DEF Complete, WInv, RunHasCheckout
  <2> QED  BY <2>1, <2>2, <2>3 DEF Work
<1> QED  BY <1>3, <1>4, <1>5, <1>6, <1>7, <1>8, <1>9 DEF WInv

(* What a change of one checkout or branch may be: a foreign one falls on  *)
(* an unattended ownership, work only on one that was ACTIVE.              *)
LEMMA Changes ==
  ASSUME WInv, NEW i \in Ids, NEW tr \in Tree, NEW b \in Head \cup {None},
         tree' = [tree EXCEPT ![i] = tr], branch' = [branch EXCEPT ![i] = b],
         UNCHANGED <<durable, task, source, base, process>>, faults' \in 0 .. MaxFaults,
         tr.place # "ABSENT" => b # None,
         rows[i].status \in {"NONE", "PROVISIONING"} => ~tr.dirty,
         \/ Unattended(i)
         \/ /\ tr.gen = tree[i].gen /\ tr.marker = tree[i].marker
            /\ tr.place = tree[i].place /\ rows[i].status # "PROVISIONING"
  PROVE  WInv'
<1>1. /\ tree' \in [Ids -> Tree] /\ tree'[i] = tr /\ \A j \in Ids \ {i} : tree'[j] = tree[j]
      /\ branch' \in [Ids -> Head \cup {None}] /\ branch'[i] = b
      /\ \A j \in Ids \ {i} : branch'[j] = branch[j]
  BY DEF WInv, TypeOK
<1>2. TypeOK'  BY <1>1 DEF WInv, TypeOK, process
<1>3. \A j \in Ids : RowOK(j)'  BY <1>1 DEF WInv, RowOK, Absent
<1>4. ASSUME NEW p \in Procs PROVE ProcOK(p)'
  <2>1. ProcOK(p) /\ UNCHANGED <<rows, pc, job, lock>>  BY DEF WInv, process
  <2>2. CASE job[p].id # i
    BY <1>1, <2>1, <2>2
       DEF ProcOK, Provisioner, Remover, Making, Observed, Registered, SameGeneration, AtStart
  <2>3. CASE job[p].id = i
    BY <1>1, <2>1, <2>3 DEF ProcOK, Provisioner, Remover, Making, Unattended
  <2> QED  BY <2>2, <2>3
<1>5. \A p, q \in Procs : OneBuilder(p, q)'  BY DEF WInv, OneBuilder, process
<1>6. Store'  BY StoreStays
<1> QED  BY <1>2, <1>3, <1>4, <1>5, <1>6 DEF WInv, Store

LEMMA ChangeKeeps ==
  ASSUME WInv, NEW i \in Ids, Change(i)
  PROVE  WInv'
<1>1. /\ tree[i] \in Tree /\ tree \in [Ids -> Tree] /\ branch \in [Ids -> Head \cup {None}]
      /\ branch[i] \in Head \cup {None} /\ RowOK(i) /\ faults \in 0 .. MaxFaults
  BY DEF WInv, TypeOK
<1>2. branch = [branch EXCEPT ![i] = branch[i]] /\ tree = [tree EXCEPT ![i] = tree[i]]
  BY <1>1
<1>3. \A kind : Foreign(i, kind) =>
        Unattended(i) /\ rows[i].status # "NONE" /\ faults' \in 0 .. MaxFaults
  BY <1>1, ConstantsAssumption DEF Foreign, Fault
<1>4. NoTree(tree[i].gen) \in Tree /\ NoTree(tree[i].gen).place = "ABSENT" /\ ~NoTree(tree[i].gen).dirty
  BY <1>1 DEF NoTree, Tree
<1>5. CASE Edit(i)
  <2> DEFINE tr == [tree[i] EXCEPT !.dirty = TRUE]
  <2>1. /\ tr \in Tree /\ tr.gen = tree[i].gen /\ tr.marker = tree[i].marker
        /\ tr.place = tree[i].place
    BY <1>1 DEF Tree
  <2>2. /\ tree' = [tree EXCEPT ![i] = tr] /\ branch' = branch /\ faults' = faults
        /\ UNCHANGED <<durable, task, source, base, process>>
        /\ tree[i].place = "PRESENT" /\ rows[i].status \in {"ACTIVE", "RELEASING"}
    BY <1>5 DEF Edit
  <2> HIDE DEF tr
  <2> QED  BY <1>1, <1>2, <2>1, <2>2, Changes DEF RowOK, Absent
<1>6. CASE CommitWork(i)
  <2> DEFINE tr == [tree[i] EXCEPT !.dirty = FALSE]
  <2>1. /\ tr \in Tree /\ tr.gen = tree[i].gen /\ tr.marker = tree[i].marker /\ ~tr.dirty
        /\ tr.place = tree[i].place
    BY <1>1 DEF Tree
  <2>2. branch[i] + 1 \in Head /\ branch[i] + 1 # None
    BY <1>1, <1>6, ConstantsAssumption DEF CommitWork, Head
  <2>3. /\ tree' = [tree EXCEPT ![i] = tr] /\ branch' = [branch EXCEPT ![i] = branch[i] + 1]
        /\ UNCHANGED <<durable, task, source, base, process>> /\ faults' = faults
        /\ rows[i].status # "PROVISIONING"
    BY <1>1, <1>6 DEF CommitWork, RowOK, Clean
  <2> HIDE DEF tr
  <2> QED  BY <1>1, <2>1, <2>2, <2>3, Changes
<1>7. CASE Discard(i)
  <2>1. /\ tree' = [tree EXCEPT ![i] = NoTree(tree[i].gen)] /\ branch' = branch
        /\ UNCHANGED <<durable, task, source, base, process>>
    BY <1>7 DEF Discard
  <2>2. Unattended(i) /\ faults' \in 0 .. MaxFaults  BY <1>3, <1>7 DEF Discard
  <2> DEFINE tr == NoTree(tree[i].gen)
  <2>3. tr \in Tree /\ tr.place = "ABSENT" /\ ~tr.dirty /\ tree' = [tree EXCEPT ![i] = tr]
    BY <1>4, <2>1
  <2> HIDE DEF tr
  <2> QED  BY <1>1, <1>2, <2>1, <2>2, <2>3, Changes
<1>8. CASE Recreate(i)
  <2>1. PICK m \in {"NONE", "COPY"} : tree' = [tree EXCEPT ![i] = NewTree(i, m)]
    BY <1>8 DEF Recreate
  <2>2. /\ branch' = branch /\ branch[i] # None /\ tree[i].gen < MaxGen
        /\ UNCHANGED <<durable, task, source, base, process>>
    BY <1>8 DEF Recreate
  <2>3. NewTree(i, m) \in Tree /\ ~NewTree(i, m).dirty
    <3>1. tree[i].gen \in 0 .. MaxGen  BY <1>1 DEF Tree
    <3>2. tree[i].gen + 1 \in 0 .. MaxGen  BY <2>2, <3>1, ConstantsAssumption
    <3> QED  BY <3>2 DEF NewTree, Tree
  <2> QED  BY <1>1, <1>2, <1>3, <1>8, <2>1, <2>2, <2>3, Changes DEF Recreate
<1>9. CASE Drop(i)
  <2> DEFINE tr == [tree[i] EXCEPT !.place = "MISSING", !.dirty = FALSE]
  <2>1. tr \in Tree /\ ~tr.dirty  BY <1>1 DEF Tree
  <2>2. /\ tree' = [tree EXCEPT ![i] = tr] /\ branch' = branch /\ tree[i].place = "PRESENT"
        /\ UNCHANGED <<durable, task, source, base, process>>
    BY <1>1, <1>9 DEF Drop
  <2> HIDE DEF tr
  <2>3. Unattended(i) /\ faults' \in 0 .. MaxFaults  BY <1>3, <1>9 DEF Drop
  <2>4. branch[i] # None  BY <1>1, <2>2 DEF RowOK, Absent
  <2> QED  BY <1>1, <1>2, <2>1, <2>2, <2>3, <2>4, Changes
<1>10. CASE Switch(i)
  <2> DEFINE tr == [tree[i] EXCEPT !.onBranch = ~tree[i].onBranch]
  <2>1. tr \in Tree /\ tr.dirty = tree[i].dirty /\ tr.place = tree[i].place  BY <1>1 DEF Tree
  <2>2. /\ tree' = [tree EXCEPT ![i] = tr] /\ branch' = branch /\ tree[i].place = "PRESENT"
        /\ UNCHANGED <<durable, task, source, base, process>>
    BY <1>1, <1>10 DEF Switch
  <2> HIDE DEF tr
  <2>3. Unattended(i) /\ faults' \in 0 .. MaxFaults  BY <1>3, <1>10 DEF Switch
  <2>4. branch[i] # None /\ (rows[i].status \in {"NONE", "PROVISIONING"} => ~tr.dirty)
    BY <1>1, <2>1, <2>2 DEF RowOK, Absent
  <2> QED  BY <1>1, <1>2, <2>1, <2>2, <2>3, <2>4, Changes
<1>11. CASE Rewind(i)
  <2>1. PICK x \in Head \cup {None} : branch' = [branch EXCEPT ![i] = x]
    BY <1>11 DEF Rewind
  <2>2. tree' = tree /\ UNCHANGED <<durable, task, source, base, process>> /\ Absent(i)
    BY <1>11 DEF Rewind
  <2> QED  BY <1>1, <1>2, <1>3, <1>11, <2>1, <2>2, Changes DEF Rewind, RowOK, Absent
<1> QED  BY <1>5, <1>6, <1>7, <1>8, <1>9, <1>10, <1>11 DEF Change

LEMMA MoveKeeps ==
  ASSUME WInv, MoveSource \/ MoveBase \/ UNCHANGED vars
  PROVE  WInv'
<1>1. /\ UNCHANGED <<durable, task, tree, branch, process, faults>>
      /\ source' \in 0 .. MaxMoves /\ base' \in 0 .. MaxMoves
  BY ConstantsAssumption DEF MoveSource, MoveBase, vars, WInv, TypeOK
<1>2. TypeOK'  BY <1>1 DEF WInv, TypeOK, process
<1>3. \A i \in Ids : RowOK(i)'  BY <1>1 DEF WInv, RowOK, Absent
<1>4. \A p \in Procs : ProcOK(p)'
  BY <1>1 DEF WInv, ProcOK, Provisioner, Remover, Observed, Registered, SameGeneration, AtStart,
              process
<1>5. \A p, q \in Procs : OneBuilder(p, q)'  BY <1>1 DEF WInv, OneBuilder, process
<1>6. Store'  BY <1>1, StoreStays
<1> QED  BY <1>2, <1>3, <1>4, <1>5, <1>6 DEF WInv, Store

LEMMA Start == Init => WInv
<1> SUFFICES ASSUME Init PROVE WInv
  OBVIOUS
<1>1. NoRow \in Row /\ NoTree(0) \in Tree /\ NoJob \in Job
  BY Idling, ConstantsAssumption DEF NoRow, Row, Status, NoTree, Tree
<1>2. TypeOK
  BY <1>1, ConstantsAssumption DEF Init, TypeOK, Board, Head, Pc
<1>3. \A i \in Ids : rows[i].status = "NONE" /\ tree[i].place = "ABSENT" /\ ~tree[i].dirty
  BY DEF Init, NoRow, NoTree
<1>4. \A i \in Ids : RowOK(i)  BY <1>3 DEF RowOK, Absent
<1>5. \A p \in Procs : ProcOK(p)  BY ConstantsAssumption DEF Init, ProcOK
<1>6. \A p, q \in Procs : OneBuilder(p, q)  BY DEF Init, OneBuilder, Building, Making
<1>7. (\A t \in Tasks : LatestOK(t)) /\ RunHasCheckout  BY DEF Init, LatestOK, RunHasCheckout
<1>8. OneOwner  BY <1>3 DEF OneOwner, NonTerminal
<1> QED  BY <1>2, <1>4, <1>5, <1>6, <1>7, <1>8 DEF WInv

-----------------------------------------------------------------------------
(* Every step keeps the invariant.                                         *)
LEMMA NextKeeps ==
  ASSUME WInv, [Next]_vars
  PROVE  WInv'
<1>1. ASSUME NEW p \in Procs, Step(p) PROVE WInv'
  BY <1>1, ReserveKeeps, AddWorktreeKeeps, AddFailsKeeps, MarkKeeps, RecordKeeps, VerifyKeeps,
     ActivateKeeps, UndoKeeps, CaptureKeeps, StartReleaseKeeps, FinishKeeps, RemoveKeeps,
     RemoveFailsKeeps, ConfirmKeeps, CrashKeeps, StoreFailsKeeps DEF Step
<1>2. ASSUME NEW p \in Procs, NEW t \in Tasks, Request(p, t) PROVE WInv'
  BY <1>2, BeginProvisionKeeps, BeginReleaseKeeps, GovernedReleaseKeeps, ReconcileKeeps DEF Request
<1> QED  BY <1>1, <1>2, WorkKeeps, ChangeKeeps, MoveKeeps DEF Next

LEMMA Inductive == Spec => []WInv
<1>1. Init => WInv  BY Start
<1>2. WInv /\ [Next]_vars => WInv'  BY NextKeeps
<1> QED  BY <1>1, <1>2, PTL DEF Spec

(* The ways of an ownership: every change of a status, with what was true  *)
(* of its checkout when it was made.                                       *)
Way(i) ==
    \/ rows[i].status = "NONE" /\ rows'[i].status = "PROVISIONING"
    \/ rows[i].status = "PROVISIONING" /\ rows'[i].status = "ACTIVE" /\ Observed(i) /\ AtStart(i)
    \/ rows[i].status = "PROVISIONING" /\ rows'[i].status = "FAILED" /\ Absent(i)
    \/ rows[i].status = "ACTIVE" /\ rows'[i].status = "RELEASING"
    \/ rows[i].status = "RELEASING" /\ rows'[i].status = "RELEASED" /\ Absent(i) /\ Retained(i)

LEMMA Ways ==
  ASSUME WInv, Next, NEW i \in Ids, rows'[i].status # rows[i].status
  PROVE  Way(i)
<1>1. rows \in [Ids -> Row]  BY DEF WInv, TypeOK
<1>2. ASSUME NEW j \in Ids, NEW s, SetStatus(j, s)
      PROVE  /\ \A x \in Ids \ {j} : rows'[x] = rows[x]
             /\ rows'[j].status = s
  BY <1>1, <1>2 DEF SetStatus, Row
<1>3. ASSUME NEW p \in Procs, Step(p) PROVE Way(i)
  <2> DEFINE j == job[p].id
  <2>1. CASE rows' # rows
    <3>1. \/ Reserve(p) \/ Record(p) \/ Activate(p) \/ Undo(p) \/ StartRelease(p) \/ Finish(p)
          \/ Confirm(p)
      BY <1>3, <2>1 DEF Step, AddWorktree, AddFails, Mark, Verify, Capture, Remove, RemoveFails,
                        Crash, StoreFails
    <3>2. pc[p] # "IDLE"
      BY <3>1 DEF Reserve, Record, Activate, Undo, StartRelease, Finish, Confirm
    <3>3. j \in Ids /\ Provisioner(p, j) /\ rows[j] \in Row  BY <3>2, JobNamed
    <3> HIDE DEF j
    <3>4. CASE Reserve(p)
      BY <1>1, <2>1, <3>3, <3>4 DEF Reserve, Reservable, Way, j
    <3>5. CASE Record(p)
      BY <1>1, <3>3, <3>5 DEF Record, Row, j
    <3>6. CASE Activate(p)
      BY <1>2, <2>1, <3>3, <3>6 DEF Activate, Provisioner, Way, j
    <3>7. CASE Undo(p)
      BY <1>2, <2>1, <3>3, <3>7 DEF Undo, Way, j
    <3>8. CASE StartRelease(p)
      <4>1. rows[j].status = "ACTIVE" /\ rows' = [rows EXCEPT ![j].status = "RELEASING",
                                                              ![j].releaseHead = job[p].head]
        BY <2>1, <3>8 DEF StartRelease, j
      <4>2. rows'[j].status = "RELEASING" /\ \A x \in Ids \ {j} : rows'[x] = rows[x]
        BY <1>1, <3>3, <4>1 DEF Row
      <4> QED  BY <4>1, <4>2 DEF Way
    <3>9. CASE Finish(p)
      BY <1>2, <2>1, <3>3, <3>9 DEF Finish, ReleasedWhenAbsent, Way, j
    <3>10. CASE Confirm(p)
      BY <1>2, <2>1, <3>3, <3>10 DEF Confirm, ReleasedWhenAbsent, Way, j
    <3> QED  BY <3>1, <3>4, <3>5, <3>6, <3>7, <3>8, <3>9, <3>10
  <2> QED  BY <2>1
<1>4. ASSUME NEW p \in Procs, NEW t \in Tasks, Request(p, t) PROVE Way(i)
  <2> DEFINE j == Current(t)
  <2>1. GovernedRelease(p, t) \/ Reconcile(p, t)
    BY <1>4 DEF Request, BeginProvision, BeginRelease
  <2>2. j \in Ids /\ rows[j] \in Row
    BY <1>1, <2>1, CurrentIsOne DEF GovernedRelease, Reconcile
  <2> HIDE DEF j
  <2>3. CASE GovernedRelease(p, t)
    <3>1. rows[j].status = "ACTIVE" /\ rows' = [rows EXCEPT ![j].status = "RELEASING",
                                                            ![j].releaseHead = proof[t].head]
      BY <2>3 DEF GovernedRelease, j
    <3>2. rows'[j].status = "RELEASING" /\ \A x \in Ids \ {j} : rows'[x] = rows[x]
      BY <1>1, <2>2, <3>1 DEF Row
    <3> QED  BY <3>1, <3>2 DEF Way
  <2>4. CASE Reconcile(p, t)
    BY <1>2, <2>2, <2>4 DEF Reconcile, Reconcilable, Way, j
  <2> QED  BY <2>1, <2>3, <2>4
<1>5. ASSUME NEW t \in Tasks, Work(t) PROVE Way(i)
  BY <1>5 DEF Work, StartRun, EndRun, Complete
<1>6. ASSUME NEW j \in Ids, Change(j) PROVE Way(i)
  BY <1>6 DEF Change, Edit, CommitWork, Discard, Recreate, Drop, Switch, Rewind
<1>7. ASSUME MoveSource \/ MoveBase PROVE Way(i)
  BY <1>7 DEF MoveSource, MoveBase
<1> QED  BY <1>3, <1>4, <1>5, <1>6, <1>7 DEF Next

LEMMA OnlyRemoved ==
  ASSUME WInv, Next, NEW p \in Procs, pc[p] = "REMOVE", pc'[p] = "CONFIRM"
  PROVE  Remove(p)
<1>1. pc \in [Procs -> Pc]  BY DEF WInv, TypeOK
<1>2. ASSUME NEW q \in Procs, Step(q) PROVE Remove(p)
  <2>1. CASE q = p
    BY <1>1, <1>2, <2>1 DEF Step, Reserve, AddWorktree, AddFails, Mark, Record, Verify, Activate,
       Undo, Capture, StartRelease, Finish, RemoveFails, Confirm, Crash, StoreFails, Return, Goto
  <2>2. CASE q # p
    BY <1>1, <1>2, <2>2 DEF Step, Reserve, AddWorktree, AddFails, Mark, Record, Verify, Activate,
       Undo, Capture, StartRelease, Finish, Remove, RemoveFails, Confirm, Crash, StoreFails, Return,
       Goto
  <2> QED  BY <2>1, <2>2
<1>3. ASSUME NEW q \in Procs, NEW t \in Tasks, Request(q, t) PROVE Remove(p)
  BY <1>1, <1>3 DEF Request, BeginProvision, BeginRelease, GovernedRelease, Reconcile, process
<1>4. ASSUME NEW t \in Tasks, Work(t) PROVE Remove(p)
  BY <1>4 DEF Work, StartRun, EndRun, Complete, process
<1>5. ASSUME NEW j \in Ids, Change(j) PROVE Remove(p)
  BY <1>5 DEF Change, Edit, CommitWork, Discard, Recreate, Drop, Switch, Rewind, process
<1>6. ASSUME MoveSource \/ MoveBase PROVE Remove(p)
  BY <1>6 DEF MoveSource, MoveBase, process
<1> QED  BY <1>2, <1>3, <1>4, <1>5, <1>6 DEF Next
-----------------------------------------------------------------------------
(* The variables stay within their types, whatever the processes, Git and  *)
(* the owner of the repository do.                                         *)
THEOREM OwnershipTypes == Spec => []TypeOK
<1>1. WInv => TypeOK  BY DEF WInv
<1> QED  BY <1>1, Inductive, PTL

(* At most one ownership of a subtask is not over: the reservation looks   *)
(* the subtask up again in its transaction (reserveOwnership), and no      *)
(* later transition revives an ownership that is over.                     *)
THEOREM OneOwnership == Spec => []OneOwner
<1>1. WInv => OneOwner  BY DEF WInv
<1> QED  BY <1>1, Inductive, PTL

(* An active run keeps its subtask's checkout ACTIVE: the attempt resolves *)
(* the checkout in its transaction and a release looks the runs up in its  *)
(* own (transitionOwnershipInTransaction).                                 *)
THEOREM RunsKeepTheirCheckout == Spec => []RunHasCheckout
<1>1. WInv => RunHasCheckout  BY DEF WInv
<1> QED  BY <1>1, Inductive, PTL

(* Only the very checkout whose identity was recorded is activated, by its *)
(* provisioner or by reconciliation after a crash.                         *)
THEOREM ActivatedOwnCheckout == Spec => ActivationProven
<1> DEFINE A == \A i \in Ids : rows[i].status # "ACTIVE" /\ rows'[i].status = "ACTIVE"
                   => /\ rows[i].status = "PROVISIONING"
                      /\ tree[i].place = "PRESENT" /\ tree[i].onBranch /\ branch[i] = 0
                      /\ tree[i].gen = rows[i].evidence /\ tree[i].marker = "OWN"
<1>1. WInv /\ [Next]_vars => [A]_vars
  BY Ways DEF Way, Observed, Registered, SameGeneration, AtStart
<1> QED  BY <1>1, Inductive, PTL DEF Spec, ActivationProven

(* A process removes only the recorded checkout of a durable release, and  *)
(* only without uncommitted changes and with its branch kept.              *)
THEOREM RemovalLosesNothing == Spec => NoWorkLost
<1> DEFINE A == \A p \in Procs : pc[p] = "REMOVE" /\ pc'[p] = "CONFIRM"
                   => LET i == job[p].id IN
                      /\ rows[i].status = "RELEASING" /\ ~tree[i].dirty
                      /\ tree[i].gen = rows[i].evidence /\ tree[i].marker = "OWN"
                      /\ branch'[i] = branch[i] /\ branch[i] # None
<1>1. ASSUME WInv, Next PROVE A
  <2> SUFFICES ASSUME NEW p \in Procs, pc[p] = "REMOVE", pc'[p] = "CONFIRM"
               PROVE  LET i == job[p].id IN
                      /\ rows[i].status = "RELEASING" /\ ~tree[i].dirty
                      /\ tree[i].gen = rows[i].evidence /\ tree[i].marker = "OWN"
                      /\ branch'[i] = branch[i] /\ branch[i] # None
    OBVIOUS
  <2>1. Remove(p)  BY <1>1, OnlyRemoved
  <2>2. Remover(p, job[p].id) /\ RowOK(job[p].id)  BY <1>1, JobNamed
  <2> QED  BY <2>1, <2>2 DEF Remove, Clean, Remover, RowOK, Absent
<1>2. WInv /\ [Next]_vars => [A]_vars  BY <1>1
<1> QED  BY <1>2, Inductive, PTL DEF Spec, NoWorkLost

(* An ownership ends only over a checkout that is proven absent, and as    *)
(* RELEASED only with its branch at the head the release recorded.         *)
THEOREM EndsAreProven == Spec => EndIsProven
<1> DEFINE A == \A i \in Ids :
                  /\ rows[i].status \in NonTerminal /\ rows'[i].status \in {"FAILED", "RELEASED"}
                     => tree[i].place = "ABSENT"
                  /\ rows[i].status # "RELEASED" /\ rows'[i].status = "RELEASED"
                     => rows[i].releaseHead # None /\ branch[i] = rows[i].releaseHead
<1>1. ASSUME WInv, Next PROVE A
  BY <1>1, Ways DEF Way, NonTerminal, Absent, Retained, WInv, RowOK
<1>2. WInv /\ [Next]_vars => [A]_vars  BY <1>1 DEF vars
<1> QED  BY <1>2, Inductive, PTL DEF Spec, EndIsProven
=============================================================================
