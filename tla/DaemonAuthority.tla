-------------------------- MODULE DaemonAuthority --------------------------
(***************************************************************************)
(* The lock and session files of packages/local-control: state.ts,         *)
(* daemon.ts and ui-launcher.ts.  A process is a desktop launcher, which   *)
(* first recovers the files of a stopped daemon and looks for a session,   *)
(* or the daemon command, which only starts.  Nothing locks the directory: *)
(* each system call is a step, and other processes act between two calls.  *)
(*                                                                         *)
(* A file is known by the process that created it, which stands for its    *)
(* device and inode, the instance it names and the pid in it; a process    *)
(* creates each file at most once.  Modes, owners, links and the size of a *)
(* file are as the console leaves them, and an unlink of a file of its own *)
(* succeeds.                                                               *)
(***************************************************************************)
EXTENDS Naturals, FiniteSets

CONSTANTS
    Programs,       \* processes; one that is over never returns
    MaxTries,       \* passes of a launcher (30 in the code)
    Trouble         \* "KILL", "FAIL" (a call of the start fails), "REUSE" (of a pid)

ASSUME DaemonAssumption == MaxTries \in Nat \ {0}

VARIABLES
    lockFile,       \* daemon.lock: no file, or one [by |-> process, full |-> written]
    sessionFile,    \* current-session.json, likewise
    at,             \* the next call of each process
    met,            \* whose file it opened, or whose authority it recovers
    tries,          \* the pass a launcher is in; 0 for the daemon command
    raced           \* a recovery removed another file than the one it had read

authorityVars == <<lockFile, sessionFile, at, met, tries, raced>>

AuthorityInit ==
    /\ lockFile = {} /\ sessionFile = {}
    /\ at = [p \in Programs |-> "ABSENT"]
    /\ met = [p \in Programs |-> {}]
    /\ tries = [p \in Programs |-> 0]
    /\ raced = FALSE

Over == {"ABSENT", "GONE", "CONNECTED"}
Running == {p \in Programs : at[p] \notin Over \cup {"OTHER"}}

(* process.kill(pid, 0) *)
AliveIfServing(p) == at[p] = "SERVING"    \* faulty: a daemon that starts or drains is stopped
Alive(p) == at[p] \notin Over

(* The file at the path is whole and of p, and still linked when its open  *)
(* descriptor is examined (readPrivateFile, authorityBelongsToInstance).   *)
Whole(file, p) == [by |-> p, full |-> TRUE] \in file
Of(file, p)    == \E f \in file : f.by = p
Empty(p)       == {[by |-> p, full |-> FALSE]}
Filled(file, p) == {IF f.by = p THEN [by |-> p, full |-> TRUE] ELSE f : f \in file}
Less(file, p)  == {f \in file : f.by # p}

From(p, here, next) == at[p] = here /\ at' = [at EXCEPT ![p] = next]

----------------------------------------------------------------------------
(* A click on the desktop entry, or the daemon command. *)
Launch(p) ==
    /\ \/ From(p, "ABSENT", "RECOVER") /\ tries' = [tries EXCEPT ![p] = 1]
       \/ From(p, "ABSENT", "LOCK") /\ UNCHANGED tries
    /\ UNCHANGED <<lockFile, sessionFile, met, raced>>

(* recoverStoppedDaemonAuthority: no lock to recover, or the one opened,   *)
(* which must be whole and linked when it is read.                         *)
OpenLock(p) ==
    /\ \/ lockFile = {} /\ From(p, "RECOVER", "READ") /\ UNCHANGED met
       \/ \E f \in lockFile : From(p, "RECOVER", "PARSE_LOCK") /\ met' = [met EXCEPT ![p] = {f.by}]
    /\ UNCHANGED <<lockFile, sessionFile, tries, raced>>

ParseLock(p) == \E owner \in met[p] :
    /\ From(p, "PARSE_LOCK", IF Whole(lockFile, owner) THEN "PROBE" ELSE "GONE")
    /\ UNCHANGED <<lockFile, sessionFile, met, tries, raced>>

(* The owner of the lock is probed, and the session opened if it is        *)
(* stopped.  A pid that now is of another user's process refuses.          *)
Probe(p) == \E owner \in met[p] :
    /\ \/ Alive(owner) /\ From(p, "PROBE", "READ")
       \/ at[owner] = "OTHER" /\ From(p, "PROBE", "GONE")
       \/ ~Alive(owner) /\ From(p, "PROBE", IF sessionFile = {} THEN "CHECK_LOCK" ELSE "CHECK_SESSION")
    /\ UNCHANGED <<lockFile, sessionFile, met, tries, raced>>

(* removeOwnedAuthorityFile of the recovery: the last examination of the   *)
(* file, and the unlink of whatever is at its path by then.  The earlier   *)
(* examinations (a session that names another instance, an identity read   *)
(* before) refuse nothing more: the file of a stopped process that is gone *)
(* or torn stays so.                                                       *)
CheckSession(p) == \E owner \in met[p] :
    /\ From(p, "CHECK_SESSION", IF Whole(sessionFile, owner) THEN "DROP_SESSION" ELSE "GONE")
    /\ UNCHANGED <<lockFile, sessionFile, met, tries, raced>>

DropSession(p) == \E owner \in met[p] :
    /\ From(p, "DROP_SESSION", IF sessionFile = {} THEN "GONE" ELSE "CHECK_LOCK")
    /\ sessionFile' = {}
    /\ raced' = (raced \/ Less(sessionFile, owner) # {})
    /\ UNCHANGED <<lockFile, met, tries>>

CheckLock(p) == \E owner \in met[p] :
    /\ From(p, "CHECK_LOCK", IF Whole(lockFile, owner) THEN "DROP_LOCK" ELSE "GONE")
    /\ UNCHANGED <<lockFile, sessionFile, met, tries, raced>>

DropLock(p) == \E owner \in met[p] :
    /\ From(p, "DROP_LOCK", IF lockFile = {} THEN "GONE" ELSE "READ")
    /\ lockFile' = {}
    /\ raced' = (raced \/ Less(lockFile, owner) # {})
    /\ UNCHANGED <<sessionFile, met, tries>>

----------------------------------------------------------------------------
(* connectUiDaemon, readSessionDescriptor: an absent session starts a      *)
(* daemon, a whole one is used, any other one ends the launcher.           *)
OpenSession(p) ==
    /\ \/ sessionFile = {} /\ From(p, "READ", "LOCK") /\ met' = [met EXCEPT ![p] = {}]
       \/ \E f \in sessionFile : From(p, "READ", "PARSE_SESSION") /\ met' = [met EXCEPT ![p] = {f.by}]
    /\ UNCHANGED <<lockFile, sessionFile, tries, raced>>

ParseSession(p) == \E owner \in met[p] :
    /\ From(p, "PARSE_SESSION", IF Whole(sessionFile, owner) THEN "CONNECTED" ELSE "GONE")
    /\ met' = [met EXCEPT ![p] = {}]
    /\ UNCHANGED <<lockFile, sessionFile, tries, raced>>

(* A lock that exists is DAEMON_ALREADY_RUNNING: a launcher waits and      *)
(* begins again, as often as it may.                                       *)
Refused(p) ==
    /\ lockFile # {}
    /\ \/ tries[p] \in 1 .. (MaxTries - 1) /\ From(p, "LOCK", "RECOVER")
          /\ tries' = [tries EXCEPT ![p] = @ + 1]
       \/ tries[p] \in {0, MaxTries} /\ From(p, "LOCK", "GONE") /\ UNCHANGED tries
    /\ UNCHANGED <<lockFile, sessionFile, met, raced>>

----------------------------------------------------------------------------
(* startWithDependencies.  writeExclusiveAuthorityFile creates the file    *)
(* empty, writes it, and examines the path again with the call that        *)
(* follows; a file that cannot be written is removed again.                *)
CreateLock(p) ==
    /\ lockFile = {} /\ From(p, "LOCK", "WRITE_LOCK")
    /\ lockFile' = Empty(p)
    /\ UNCHANGED <<sessionFile, met, tries, raced>>

WriteLock(p) ==
    /\ \/ From(p, "WRITE_LOCK", "CHECK") /\ lockFile' = Filled(lockFile, p)
       \/ "FAIL" \in Trouble /\ From(p, "WRITE_LOCK", "GONE") /\ lockFile' = Less(lockFile, p)
    /\ UNCHANGED <<sessionFile, met, tries, raced>>

(* The lock is still its own, and no session exists. *)
Check(p) ==
    /\ From(p, "CHECK", IF ~Of(lockFile, p) THEN "GONE"
                        ELSE IF sessionFile # {} THEN "UNDO_LOCK" ELSE "OPEN")
    /\ UNCHANGED <<lockFile, sessionFile, met, tries, raced>>

(* The database is prepared, opened and verified, and the interrupted      *)
(* plans, executions and discussions in it are recovered.                  *)
OpenDatabase(p) ==
    /\ \/ From(p, "OPEN", "LISTEN")
       \/ "FAIL" \in Trouble /\ From(p, "OPEN", "UNDO_LOCK")
    /\ UNCHANGED <<lockFile, sessionFile, met, tries, raced>>

(* The server listens, and the session is created. *)
CreateSession(p) ==
    /\ \/ sessionFile = {} /\ From(p, "LISTEN", "WRITE_SESSION") /\ sessionFile' = Empty(p)
       \/ sessionFile # {} /\ From(p, "LISTEN", "UNDO_LOCK") /\ UNCHANGED sessionFile
       \/ "FAIL" \in Trouble /\ From(p, "LISTEN", "UNDO_LOCK") /\ UNCHANGED sessionFile
    /\ UNCHANGED <<lockFile, met, tries, raced>>

WriteSession(p) ==
    /\ \/ From(p, "WRITE_SESSION", "READY") /\ sessionFile' = Filled(sessionFile, p)
       \/ "FAIL" \in Trouble /\ From(p, "WRITE_SESSION", "UNDO_LOCK") /\ sessionFile' = Less(sessionFile, p)
    /\ UNCHANGED <<lockFile, met, tries, raced>>

(* The session is still its own, and the daemon says that it is ready.     *)
(* With a session of its own a launcher is connected too.                  *)
Ready(p) ==
    /\ \/ From(p, "READY", IF Of(sessionFile, p) THEN "SERVING" ELSE "UNDO_LOCK")
       \/ "FAIL" \in Trouble /\ Of(sessionFile, p) /\ From(p, "READY", "UNDO_SESSION")
    /\ UNCHANGED <<lockFile, sessionFile, met, tries, raced>>

(* cleanupStartupFailure: what cannot be removed stays. *)
UndoSession(p) ==
    /\ From(p, "UNDO_SESSION", "UNDO_LOCK") /\ sessionFile' = Less(sessionFile, p)
    /\ UNCHANGED <<lockFile, met, tries, raced>>

UndoLock(p) ==
    /\ From(p, "UNDO_LOCK", "GONE") /\ lockFile' = Less(lockFile, p)
    /\ UNCHANGED <<sessionFile, met, tries, raced>>

----------------------------------------------------------------------------
(* stop, after SIGINT or SIGTERM, which the commands accept once: requests *)
(* and workers drain, or time out and leave the daemon as it is.           *)
Stop(p) ==
    /\ From(p, "SERVING", "DRAINING")
    /\ UNCHANGED <<lockFile, sessionFile, met, tries, raced>>

Drained(p) ==
    /\ \/ From(p, "DRAINING", "CLOSE_SESSION")
       \/ From(p, "DRAINING", "STUCK")
    /\ UNCHANGED <<lockFile, sessionFile, met, tries, raced>>

ForgetSession(p) ==     \* faulty: the lock goes first, and the session with nobody's lock
    /\ From(p, "CLOSE_SESSION", "CLOSE_LOCK") /\ lockFile' = Less(lockFile, p)
    /\ UNCHANGED <<sessionFile, met, tries, raced>>

(* The storage is closed, and the session removed if it is its own. *)
CloseSession(p) ==
    /\ From(p, "CLOSE_SESSION", IF Whole(sessionFile, p) THEN "CLOSE_LOCK" ELSE "GONE")
    /\ sessionFile' = Less(sessionFile, p)
    /\ UNCHANGED <<lockFile, met, tries, raced>>

CloseLock(p) ==
    /\ From(p, "CLOSE_LOCK", "GONE") /\ lockFile' = Less(lockFile, p)
    /\ UNCHANGED <<sessionFile, met, tries, raced>>

(* A process is killed; later its pid is that of another program. *)
Killed(p) ==
    /\ "KILL" \in Trouble /\ p \in Running
    /\ at' = [at EXCEPT ![p] = "GONE"]
    /\ UNCHANGED <<lockFile, sessionFile, met, tries, raced>>

Reused(p) ==
    /\ "REUSE" \in Trouble /\ From(p, "GONE", "OTHER")
    /\ UNCHANGED <<lockFile, sessionFile, met, tries, raced>>

AuthorityStep(p) ==
    \/ Launch(p)
    \/ OpenLock(p) \/ ParseLock(p) \/ Probe(p)
    \/ CheckSession(p) \/ DropSession(p) \/ CheckLock(p) \/ DropLock(p)
    \/ OpenSession(p) \/ ParseSession(p) \/ Refused(p)
    \/ CreateLock(p) \/ WriteLock(p) \/ Check(p) \/ OpenDatabase(p)
    \/ CreateSession(p) \/ WriteSession(p) \/ Ready(p) \/ UndoSession(p) \/ UndoLock(p)
    \/ Stop(p) \/ Drained(p) \/ CloseSession(p) \/ CloseLock(p)
    \/ Killed(p) \/ Reused(p)

AuthorityNext == \E p \in Programs : AuthorityStep(p)

AuthoritySpec == AuthorityInit /\ [][AuthorityNext]_authorityVars

----------------------------------------------------------------------------
(* From the recovery of interrupted work to the close of its storage a     *)
(* daemon relies on being alone: the recovery of a second one would end    *)
(* the plans and executions of the first.  (UNDO_LOCK may be without it.)  *)
HoldsDatabase == {p \in Programs : at[p] \in
    {"LISTEN", "WRITE_SESSION", "READY", "SERVING", "DRAINING", "STUCK", "UNDO_SESSION", "UNDO_LOCK"}}

(* Whoever clicks, is killed, fails to start or drains, one daemon at most *)
(* has the database, unless a recovery, having read the file of a stopped  *)
(* daemon, unlinked the one another daemon had put at its path since.      *)
OneDaemon == raced \/ Cardinality(HoldsDatabase) <= 1

(* A session exists only under the whole lock of its daemon, so that a     *)
(* start never finds one left behind and a recovery never finds one of     *)
(* another instance: files are made and removed in the one order that      *)
(* leaves no session alone after a kill (same reservation).                *)
SessionUnderLock == raced \/ \A f \in sessionFile : Whole(lockFile, f.by)
=============================================================================
