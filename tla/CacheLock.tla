------------------------------ MODULE CacheLock ------------------------------
(***************************************************************************)
(* The single-writer lock of the scorer cache, `<cache>/.lock`:            *)
(*   - `acquire_cache_lock` (cache/lock.py), run by the processes of Procs *)
(*   - `unlock` (cache/recovery.py), run by the invocations in Operators.  *)
(*                                                                         *)
(* The lock file is two things at once, and the model keeps them apart: a  *)
(* directory entry (`path`) and the inodes it has named. flock(2) locks an *)
(* inode; open, unlink and the operator's `unlock` work on the entry. A    *)
(* descriptor opened before an unlink still refers to the old inode.       *)
(*                                                                         *)
(* One system call is one step, because the processes share nothing else.  *)
(* The `with` body of the caller is the interval spent in "held".          *)
(***************************************************************************)
EXTENDS Naturals, FiniteSets

CONSTANTS
  Procs,             \* processes that call acquire_cache_lock
  Operators,         \* invocations of `whatifd cache unlock`
  Inodes,            \* inodes the file system can give to the lock file
  Nobody,            \* no process: a free flock, content that does not parse
  NoInode,           \* no inode: no directory entry, no open descriptor
  AllowAgeTakeover,  \* the allow_age_takeover argument
  AllowAlive,        \* the allow_alive argument of unlock
  MaxAttempts        \* bound: calls of acquire_cache_lock per process

ASSUME LockAssumption ==
  /\ Nobody \notin Procs
  /\ NoInode \notin Inodes
  /\ AllowAgeTakeover \in BOOLEAN
  /\ AllowAlive \in BOOLEAN
  /\ MaxAttempts \in Nat

VARIABLES
  path,      \* inode named by the directory entry `.lock`, or NoInode
  flock,     \* [Inodes -> process holding the kernel lock, or Nobody]
  content,   \* [Inodes -> process recorded in the file, or Nobody]
  pc,        \* control state of each process
  fd,        \* inode each process has open, or NoInode
  opc,       \* control state of each `cache unlock`
  attempts,  \* bound counter: calls made so far by each process
  removals,  \* history: how often the directory entry was unlinked
  abandoned  \* history: the named inode, if its flock last went without a LOCK_UN

vars == <<path, flock, content, pc, fd, opc, attempts, removals, abandoned>>

ControlStates ==
  {"idle", "opened", "refused", "stale", "locked", "truncated", "held",
   "unlink", "unlock", "close", "dead"}

\* The local `acquired` is True exactly in these states.
Acquired == {"locked", "truncated", "held", "unlink", "unlock"}

\* Acquired and not yet cleaning up: the process believes it is the writer.
Writing == {"locked", "truncated", "held"}

TypeOK ==
  /\ path \in Inodes \cup {NoInode}
  /\ flock \in [Inodes -> Procs \cup {Nobody}]
  /\ content \in [Inodes -> Procs \cup {Nobody}]
  /\ pc \in [Procs -> ControlStates]
  /\ fd \in [Procs -> Inodes \cup {NoInode}]
  /\ opc \in [Operators -> {"idle", "exists", "checked", "done"}]
  /\ attempts \in [Procs -> 0..MaxAttempts]
  /\ removals \in Nat
  /\ abandoned \subseteq Inodes

Init ==
  /\ path = NoInode
  /\ flock = [i \in Inodes |-> Nobody]
  /\ content = [i \in Inodes |-> Nobody]
  /\ pc = [p \in Procs |-> "idle"]
  /\ fd = [p \in Procs |-> NoInode]
  /\ opc = [o \in Operators |-> "idle"]
  /\ attempts = [p \in Procs |-> 0]
  /\ removals = 0
  /\ abandoned = {}

Goto(p, from, to) == pc[p] = from /\ pc' = [pc EXCEPT ![p] = to]

-----------------------------------------------------------------------------
(* acquire_cache_lock: open                                                *)

\* An inode the file system may hand out: not named by the entry, not open.
FreshInodes == {i \in Inodes : i # path /\ \A p \in Procs : fd[p] # i}

OpenExisting(p) ==
  /\ path # NoInode
  /\ fd' = [fd EXCEPT ![p] = path]
  /\ UNCHANGED <<path, content>>

CreateLockFile(p) ==
  /\ path = NoInode
  /\ \E i \in FreshInodes :
       /\ path' = i
       /\ fd' = [fd EXCEPT ![p] = i]
       /\ content' = [content EXCEPT ![i] = Nobody]

\* os.open(lock_path, O_RDWR | O_CREAT)
OpenLockFile(p) ==
  /\ Goto(p, "idle", "opened")
  /\ attempts[p] < MaxAttempts
  /\ attempts' = [attempts EXCEPT ![p] = @ + 1]
  /\ OpenExisting(p) \/ CreateLockFile(p)
  /\ UNCHANGED <<flock, opc, removals, abandoned>>

-----------------------------------------------------------------------------
(* acquire_cache_lock: flock(LOCK_EX | LOCK_NB) and the stale takeover     *)

\* flock(LOCK_EX | LOCK_NB) succeeds on p's own open file.
TakeFlock(p) ==
  /\ flock[fd[p]] = Nobody
  /\ flock' = [flock EXCEPT ![fd[p]] = p]
  /\ abandoned' = abandoned \ {fd[p]}

\* Mutant: the kernel's refusal is ignored.
FlockIgnoringOwner(p) ==
  /\ Goto(p, "opened", "locked")
  /\ flock' = [flock EXCEPT ![fd[p]] = p]
  /\ UNCHANGED <<path, content, fd, opc, attempts, removals, abandoned>>

FlockSucceeds(p) ==
  /\ Goto(p, "opened", "locked")
  /\ TakeFlock(p)
  /\ UNCHANGED <<path, content, fd, opc, attempts, removals>>

\* BlockingIOError: somebody holds the kernel lock of this inode.
FlockRefused(p) ==
  /\ Goto(p, "opened", "refused")
  /\ flock[fd[p]] # Nobody
  /\ UNCHANGED <<path, flock, content, fd, opc, attempts, removals, abandoned>>

\* What _should_takeover may answer. A live holder's create_time matches, so
\* only age can make it stale; a dead one is NoSuchProcess or recycled (stale),
\* or AccessDenied or an unreaped zombie (not stale).
StaleVerdicts(recorded) ==
  IF recorded = Nobody THEN {TRUE}
  ELSE IF pc[recorded] = "dead" THEN BOOLEAN
  ELSE {FALSE, AllowAgeTakeover}

\* _try_takeover_if_stale reads p's own descriptor, not the path.
InspectStale(p) ==
  /\ pc[p] = "refused"
  /\ \E stale \in StaleVerdicts(content[fd[p]]) :
       Goto(p, "refused", IF stale THEN "stale" ELSE "close")
  /\ UNCHANGED <<path, flock, content, fd, opc, attempts, removals, abandoned>>

\* Ctrl-C strikes after a flock that succeeded and before `acquired = True`: the
\* finally clause neither unlinks nor unlocks, it only closes.
FlockInterrupted(p) ==
  /\ Goto(p, "opened", "close") \/ Goto(p, "stale", "close")
  /\ TakeFlock(p)
  /\ UNCHANGED <<path, content, fd, opc, attempts, removals>>

\* Mutant: a stale verdict is enough, the second flock's answer is ignored.
SeizeStaleLock(p) ==
  /\ Goto(p, "stale", "locked")
  /\ flock' = [flock EXCEPT ![fd[p]] = p]
  /\ UNCHANGED <<path, content, fd, opc, attempts, removals, abandoned>>

ReflockSucceeds(p) ==
  /\ Goto(p, "stale", "locked")
  /\ TakeFlock(p)
  /\ UNCHANGED <<path, content, fd, opc, attempts, removals>>

\* Mutant: the finally clause does not look at `acquired`.
RefusedButCleansUp(p) ==
  /\ Goto(p, "stale", "unlink")
  /\ flock[fd[p]] # Nobody
  /\ UNCHANGED <<path, flock, content, fd, opc, attempts, removals, abandoned>>

ReflockRefused(p) ==
  /\ Goto(p, "stale", "close")
  /\ flock[fd[p]] # Nobody
  /\ UNCHANGED <<path, flock, content, fd, opc, attempts, removals, abandoned>>

\* ENOLCK or EOPNOTSUPP, at either call: the attempt ends, nothing acquired.
FlockUnsupported(p) ==
  /\ Goto(p, "opened", "close") \/ Goto(p, "stale", "close")
  /\ UNCHANGED <<path, flock, content, fd, opc, attempts, removals, abandoned>>

-----------------------------------------------------------------------------
(* acquire_cache_lock: identity, the `with` body, the finally clause       *)

\* Mutant: the denied identity leaves without the unlink.
IdentityDeniedKeepsEntry(p) ==
  /\ Goto(p, "locked", "unlock")
  /\ UNCHANGED <<path, flock, content, fd, opc, attempts, removals, abandoned>>

\* _build_lock_content raises (AccessDenied on the own create_time).
IdentityDenied(p) ==
  /\ Goto(p, "locked", "unlink")
  /\ UNCHANGED <<path, flock, content, fd, opc, attempts, removals, abandoned>>

Truncate(p) ==
  /\ Goto(p, "locked", "truncated")
  /\ content' = [content EXCEPT ![fd[p]] = Nobody]
  /\ UNCHANGED <<path, flock, fd, opc, attempts, removals, abandoned>>

\* Mutant: the identity is written through the path, not the descriptor.
WriteThroughPath(p) ==
  /\ Goto(p, "truncated", "held")
  /\ content' = [i \in Inodes |-> IF i = path THEN p ELSE content[i]]
  /\ UNCHANGED <<path, flock, fd, opc, attempts, removals, abandoned>>

WriteIdentity(p) ==
  /\ Goto(p, "truncated", "held")
  /\ content' = [content EXCEPT ![fd[p]] = p]
  /\ UNCHANGED <<path, flock, fd, opc, attempts, removals, abandoned>>

\* Mutant: the write is outside the try, so its failure skips the finally.
WriteFailsUncleaned(p) ==
  /\ Goto(p, "truncated", "idle")
  /\ UNCHANGED <<path, flock, content, fd, opc, attempts, removals, abandoned>>

\* write, flush or fsync raises OSError (a full disk).
WriteFails(p) ==
  /\ Goto(p, "truncated", "unlink")
  /\ UNCHANGED <<path, flock, content, fd, opc, attempts, removals, abandoned>>

\* The caller's `with` body returns or raises.
LeaveBody(p) ==
  /\ Goto(p, "held", "unlink")
  /\ UNCHANGED <<path, flock, content, fd, opc, attempts, removals, abandoned>>

\* The directory entry disappears; unlink of a missing entry changes nothing.
RemoveEntry ==
  /\ path' = NoInode
  /\ removals' = IF path = NoInode THEN removals ELSE removals + 1
  /\ abandoned' = {}

\* finally: lock_path.unlink(), whatever inode the path names by now.
CleanupUnlink(p) ==
  /\ Goto(p, "unlink", "unlock")
  /\ RemoveEntry
  /\ UNCHANGED <<flock, content, fd, opc, attempts>>

CleanupUnlock(p) ==
  /\ Goto(p, "unlock", "close")
  /\ flock' = [flock EXCEPT ![fd[p]] = Nobody]
  /\ UNCHANGED <<path, content, fd, opc, attempts, removals, abandoned>>

\* LOCK_UN raises OSError (a ResourceWarning) or is interrupted: closing the file
\* will drop the lock.
CleanupUnlockFails(p) ==
  /\ Goto(p, "unlock", "close")
  /\ UNCHANGED <<path, flock, content, fd, opc, attempts, removals, abandoned>>

\* unlink() raises something other than FileNotFoundError (a read-only or foreign
\* directory), or is interrupted: the exception skips LOCK_UN and close(), and the
\* entry stays.  The file keeps its lock until it is closed by its finalizer, with
\* the traceback that refers to it, or by the end of the process.
CleanupRaises(p) ==
  /\ Goto(p, "unlink", "close")
  /\ UNCHANGED <<path, flock, content, fd, opc, attempts, removals, abandoned>>

\* Closing the descriptor drops the flock it still has, and no LOCK_UN did.
DropFile(p) ==
  /\ fd' = [fd EXCEPT ![p] = NoInode]
  /\ flock' = [i \in Inodes |-> IF flock[i] = p THEN Nobody ELSE flock[i]]
  /\ abandoned' = abandoned \cup {i \in Inodes : i = path /\ flock[i] = p}

\* fp.close(), or the finalizer of `fp` after CleanupRaises.
CloseFile(p) ==
  /\ Goto(p, "close", "idle")
  /\ DropFile(p)
  /\ UNCHANGED <<path, content, opc, attempts, removals>>

\* Mutant: the flock survives the process (a child inherited the descriptor).
CrashLeaksFlock(p) ==
  /\ pc[p] \notin {"idle", "dead"}
  /\ pc' = [pc EXCEPT ![p] = "dead"]
  /\ fd' = [fd EXCEPT ![p] = NoInode]
  /\ UNCHANGED <<path, flock, content, opc, attempts, removals, abandoned>>

\* SIGKILL, OOM: the kernel closes the descriptor and so drops the flock; the
\* directory entry and the recorded content stay behind.
Crash(p) ==
  /\ pc[p] \notin {"idle", "dead"}
  /\ pc' = [pc EXCEPT ![p] = "dead"]
  /\ DropFile(p)
  /\ UNCHANGED <<path, content, opc, attempts, removals>>

-----------------------------------------------------------------------------
(* recovery.unlock: exists, inspect the recorded pid, unlink the path      *)

OpGoto(o, from, to) == opc[o] = from /\ opc' = [opc EXCEPT ![o] = to]

\* lock_path.exists(): "no_lock_file" when there is none.
UnlockExists(o) ==
  /\ OpGoto(o, "idle", IF path = NoInode THEN "done" ELSE "exists")
  /\ UNCHANGED <<path, flock, content, pc, fd, attempts, removals, abandoned>>

\* What is_running() and not zombie may answer for the recorded pid: there is
\* no create_time check here, so a recycled pid counts as alive. A file that
\* is gone or does not parse counts as not alive.
PidAlive ==
  IF path = NoInode \/ content[path] = Nobody THEN {FALSE}
  ELSE IF pc[content[path]] = "dead" THEN BOOLEAN
  ELSE {TRUE}

UnlockInspect(o) ==
  /\ \E alive \in PidAlive :
       OpGoto(o, "exists", IF alive /\ ~AllowAlive THEN "done" ELSE "checked")
  /\ UNCHANGED <<path, flock, content, pc, fd, attempts, removals, abandoned>>

\* lock_path.unlink(): "unlink_failed" when the entry is already gone, or when
\* the directory refuses.
UnlockRemove(o) ==
  /\ OpGoto(o, "checked", "done")
  /\ RemoveEntry \/ UNCHANGED <<path, removals, abandoned>>
  /\ UNCHANGED <<flock, content, pc, fd, attempts>>

-----------------------------------------------------------------------------
ProcStep(p) ==
  \/ OpenLockFile(p) \/ FlockSucceeds(p) \/ FlockRefused(p)
  \/ InspectStale(p) \/ ReflockSucceeds(p) \/ ReflockRefused(p)
  \/ FlockUnsupported(p) \/ FlockInterrupted(p)
  \/ IdentityDenied(p) \/ Truncate(p) \/ WriteIdentity(p) \/ WriteFails(p)
  \/ LeaveBody(p) \/ CleanupUnlink(p) \/ CleanupUnlock(p)
  \/ CleanupUnlockFails(p) \/ CloseFile(p) \/ CleanupRaises(p)

OperatorStep(o) == UnlockExists(o) \/ UnlockInspect(o) \/ UnlockRemove(o)

Next ==
  \/ \E p \in Procs : ProcStep(p) \/ Crash(p)
  \/ \E o \in Operators : OperatorStep(o)

Spec == Init /\ [][Next]_vars

\* Every process that has not crashed is eventually scheduled, and the body of
\* the `with` statement returns; nothing forces a crash or a new attempt.  A
\* file that close() did not get to is closed in the end: with the exception that
\* refers to it, or with its process.
FairSpec == Spec /\ \A p \in Procs : WF_vars(pc[p] # "idle" /\ ProcStep(p))

-----------------------------------------------------------------------------
(* Invariants                                                              *)

\* The local flag `acquired` and the kernel agree: from its successful flock to
\* its LOCK_UN a process owns the inode it has open, and the kernel's owner is
\* always a live process that still has that inode open: one that has acquired,
\* or whose file is still to be closed.
\* (The finally clause trusts `acquired` to decide whether to unlink and unlock.)
LockOwnership ==
  \A p \in Procs, i \in Inodes :
    /\ fd[p] = i /\ pc[p] \in Acquired => flock[i] = p
    /\ flock[i] = p => fd[p] = i /\ pc[p] \in Acquired \cup {"close"}

\* While a caller is in its `with` body, the inode it holds records that caller
\* and nobody else, whoever opened, inspected, took over or crashed meanwhile:
\* what stale detection and the error messages read about a live holder is true.
FileNamesHolder ==
  \A p \in Procs : pc[p] = "held" => content[fd[p]] = p

\* "Single-writer enforcement on the scorer cache directory": two processes are
\* never both past acquisition and before their cleanup.
SingleWriter ==
  \A p, q \in Procs : pc[p] \in Writing /\ pc[q] \in Writing => p = q

\* Crashes, takeovers and refusals never cost the exclusion; only removing the
\* directory entry does (the cleanup's unlink, or the operator's).
SingleWriterUntilRemoval == removals = 0 => SingleWriter

\* What the lock really bounds: each removal of the directory entry admits at
\* most one more simultaneous writer.
WritersBoundedByRemovals ==
  Cardinality({p \in Procs : pc[p] \in Writing}) <= removals + 1

\* A descriptor is open exactly while an attempt is under way.
OpenFiles ==
  \A p \in Procs : fd[p] = NoInode <=> pc[p] \in {"idle", "dead"}

\* The finally clause unlinks before it releases: whoever is past its unlink and
\* about to LOCK_UN owns an inode that the entry no longer names.
UnlinkedBeforeRelease == \A p \in Procs : pc[p] = "unlock" => fd[p] # path

\* A refused contender that finds the named inode free again owes it to a file
\* closed with its lock: a crash, a cleanup that raised, an interrupted flock.
FreedByAbandonment ==
  \A p \in Procs :
    pc[p] \in {"refused", "stale"} /\ fd[p] = path /\ flock[path] = Nobody =>
      path \in abandoned

\* As long as the entry was never removed, every open descriptor is on its inode.
NamedUntilRemoval ==
  removals = 0 => \A p \in Procs : fd[p] # NoInode => fd[p] = path

\* The inductive invariant of the lock: each part needs the ones before it.
IInv ==
  /\ TypeOK
  /\ OpenFiles
  /\ LockOwnership
  /\ FileNamesHolder
  /\ UnlinkedBeforeRelease
  /\ FreedByAbandonment
  /\ NamedUntilRemoval

-----------------------------------------------------------------------------
(* Action properties                                                       *)

\* A first flock is refused only because another process, alive, owns that
\* inode: residue of a crash (entry and content left behind) never refuses.
RefusalMeansLiveHolder ==
  [][\A p \in Procs : pc[p] = "opened" /\ pc'[p] = "refused" =>
       \E q \in Procs \ {p} : flock[fd[p]] = q /\ fd[q] = fd[p] /\ pc[q] # "dead"]_vars

\* A re-flock after a "stale" verdict wins the inode the entry still names only
\* if its last owner never got to its LOCK_UN: it crashed, its cleanup raised, or
\* Ctrl-C came before `acquired = True`.  An owner that does unlock has unlinked
\* before, so neither age nor an unreadable file takes its lock away.
TakeoverMeansAbandonment ==
  [][\A p \in Procs : pc[p] = "stale" /\ pc'[p] = "locked" /\ fd[p] = path =>
       fd[p] \in abandoned]_vars

\* The directory entry of a held inode is removed only by its holder, in its own
\* cleanup ("if we never acquired, we must NOT unlock/unlink").
LiveHolderKeepsEntry ==
  [][\A p \in Procs : path # NoInode /\ path' # path /\ flock[path] = p =>
       pc[p] = "unlink" /\ pc'[p] = "unlock"]_vars

-----------------------------------------------------------------------------
(* Liveness, under FairSpec                                                *)

\* Whatever path an attempt takes (refusal, takeover, denied identity, failed
\* write, a cleanup that raises, crash), the kernel lock of every inode is given
\* back.
LockIsReleased ==
  \A i \in Inodes : flock[i] # Nobody ~> flock[i] = Nobody

=============================================================================
