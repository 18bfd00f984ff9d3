--------------------------- MODULE CacheLockProofs ---------------------------
(***************************************************************************)
(* What the cache lock guarantees for any set of processes, inodes and     *)
(* operators, and for any bound on the attempts.                           *)
(*                                                                         *)
(* The rest follows from one inductive invariant, IInv. Exclusion alone is *)
(* not inductive: that nobody else writes the file of a holder rests on    *)
(* the kernel's owner being the process with the descriptor                *)
(* (LockOwnership); that a takeover of the named inode needs a file closed *)
(* with its lock rests on the order unlink, LOCK_UN of the cleanup         *)
(* (UnlinkedBeforeRelease).                                                *)
(*                                                                         *)
(* Two more invariants say what is left of exclusion once entries are      *)
(* removed. StraysCounted: an open inode without its entry costs a         *)
(* removal, and each has at most one writer. RemoverIsFinished: of two     *)
(* attempts, the one that removed the entry is over, and so is its inode.  *)
(***************************************************************************)
EXTENDS CacheLock, TLAPS, FiniteSetTheorems

LEMMA InitIInv == Init => IInv
BY LockAssumption
   DEF Init, IInv, TypeOK, ControlStates, OpenFiles, LockOwnership, Acquired,
       FileNamesHolder, UnlinkedBeforeRelease, FreedByAbandonment, NamedUntilRemoval

\* Opening creates an inode nobody has open, or joins the one the entry names.
LEMMA OpenPreserves ==
  ASSUME IInv, NEW p \in Procs, OpenLockFile(p)
  PROVE  IInv'
<1> USE LockAssumption DEF IInv, OpenLockFile, Goto
<1>1. (TypeOK /\ OpenFiles)'
  BY DEF TypeOK, ControlStates, OpenFiles, OpenExisting, CreateLockFile, FreshInodes
<1>2. LockOwnership'
  BY DEF TypeOK, OpenFiles, LockOwnership, Acquired, OpenExisting, CreateLockFile,
         FreshInodes
<1>3. FileNamesHolder'
  BY DEF TypeOK, OpenFiles, FileNamesHolder, OpenExisting, CreateLockFile, FreshInodes
<1>4. UnlinkedBeforeRelease'
  <2>1. CASE OpenExisting(p)
    BY <2>1 DEF TypeOK, UnlinkedBeforeRelease, OpenExisting
  <2>2. CASE CreateLockFile(p)
    BY <2>2 DEF TypeOK, UnlinkedBeforeRelease, LockOwnership, CreateLockFile, FreshInodes
  <2>3. QED BY <2>1, <2>2
<1>5. FreedByAbandonment'
  BY DEF TypeOK, ControlStates, FreedByAbandonment, OpenExisting, CreateLockFile, FreshInodes
<1>6. NamedUntilRemoval'
  BY DEF TypeOK, NamedUntilRemoval, OpenExisting, CreateLockFile, FreshInodes
<1>7. QED BY <1>1, <1>2, <1>3, <1>4, <1>5, <1>6

\* Winning a flock, at the first call or after a stale verdict: the inode was
\* free, so no other process is between acquisition and cleanup on it.
LEMMA AcquirePreserves ==
  ASSUME IInv, NEW p \in Procs,
         FlockSucceeds(p) \/ ReflockSucceeds(p) \/ FlockInterrupted(p)
  PROVE  IInv'
<1> USE LockAssumption
    DEF IInv, FlockSucceeds, ReflockSucceeds, FlockInterrupted, TakeFlock, Goto
<1>1. (TypeOK /\ OpenFiles)'
  BY DEF TypeOK, ControlStates, OpenFiles
<1>2. LockOwnership'
  BY DEF TypeOK, OpenFiles, LockOwnership, Acquired
<1>3. (FileNamesHolder /\ UnlinkedBeforeRelease)'
  BY DEF TypeOK, OpenFiles, FileNamesHolder, UnlinkedBeforeRelease
<1>4. (FreedByAbandonment /\ NamedUntilRemoval)'
  BY DEF TypeOK, OpenFiles, FreedByAbandonment, NamedUntilRemoval
<1>5. QED BY <1>1, <1>2, <1>3, <1>4

\* Refusals, verdicts and errors move one process and nothing else.
LEMMA RefusalPreserves ==
  ASSUME IInv, NEW p \in Procs,
         \/ FlockRefused(p) \/ InspectStale(p)
         \/ ReflockRefused(p) \/ FlockUnsupported(p)
  PROVE  IInv'
<1> USE LockAssumption
    DEF IInv, FlockRefused, InspectStale, ReflockRefused, FlockUnsupported, Goto
<1>1. (TypeOK /\ OpenFiles)'
  BY DEF TypeOK, ControlStates, OpenFiles
<1>2. LockOwnership'
  BY DEF TypeOK, OpenFiles, LockOwnership, Acquired
<1>3. FileNamesHolder'
  BY DEF TypeOK, FileNamesHolder
<1>4. UnlinkedBeforeRelease'
  BY DEF TypeOK, UnlinkedBeforeRelease
<1>5. (FreedByAbandonment /\ NamedUntilRemoval)'
  BY DEF TypeOK, OpenFiles, FreedByAbandonment, NamedUntilRemoval
<1>6. QED BY <1>1, <1>2, <1>3, <1>4, <1>5

\* The owner writes its own inode; no other holder has it open as its own.
LEMMA HoldPreserves ==
  ASSUME IInv, NEW p \in Procs,
         \/ IdentityDenied(p) \/ Truncate(p) \/ WriteIdentity(p)
         \/ WriteFails(p) \/ LeaveBody(p)
  PROVE  IInv'
<1> USE LockAssumption
    DEF IInv, IdentityDenied, Truncate, WriteIdentity, WriteFails, LeaveBody, Goto
<1>1. (TypeOK /\ OpenFiles)'
  BY DEF TypeOK, ControlStates, OpenFiles
<1>2. LockOwnership'
  BY DEF TypeOK, LockOwnership, Acquired
<1>3. FileNamesHolder'
  BY DEF TypeOK, OpenFiles, LockOwnership, Acquired, FileNamesHolder
<1>4. (UnlinkedBeforeRelease /\ FreedByAbandonment /\ NamedUntilRemoval)'
  BY DEF TypeOK, UnlinkedBeforeRelease, FreedByAbandonment, NamedUntilRemoval
<1>5. QED BY <1>1, <1>2, <1>3, <1>4

\* Unlink, LOCK_UN (or their failure), close: the entry goes first, or the file
\* is closed with its lock.
LEMMA CleanupPreserves ==
  ASSUME IInv, NEW p \in Procs,
         \/ CleanupUnlink(p) \/ CleanupUnlock(p)
         \/ CleanupUnlockFails(p) \/ CleanupRaises(p) \/ CloseFile(p)
  PROVE  IInv'
<1> USE LockAssumption
    DEF IInv, CleanupUnlink, CleanupUnlock, CleanupUnlockFails, CleanupRaises,
        CloseFile, RemoveEntry, DropFile, Goto
<1>1. (TypeOK /\ OpenFiles)'
  BY DEF TypeOK, ControlStates, OpenFiles
<1>2. LockOwnership'
  BY DEF TypeOK, OpenFiles, LockOwnership, Acquired
<1>3. FileNamesHolder'
  BY DEF TypeOK, FileNamesHolder
<1>4. UnlinkedBeforeRelease'
  BY DEF TypeOK, OpenFiles, LockOwnership, Acquired, UnlinkedBeforeRelease
<1>5. FreedByAbandonment'
  \* LOCK_UN comes after the unlink: the inode it frees is not the named one
  BY DEF TypeOK, OpenFiles, LockOwnership, UnlinkedBeforeRelease, FreedByAbandonment
<1>6. NamedUntilRemoval'
  BY DEF TypeOK, NamedUntilRemoval
<1>7. QED BY <1>1, <1>2, <1>3, <1>4, <1>5, <1>6

LEMMA CrashPreserves ==
  ASSUME IInv, NEW p \in Procs, Crash(p)
  PROVE  IInv'
<1> USE LockAssumption DEF IInv, Crash, DropFile
<1>1. (TypeOK /\ OpenFiles)'
  BY DEF TypeOK, ControlStates, OpenFiles
<1>2. LockOwnership'
  BY DEF TypeOK, LockOwnership, Acquired
<1>3. (FileNamesHolder /\ UnlinkedBeforeRelease /\ NamedUntilRemoval)'
  BY DEF TypeOK, FileNamesHolder, UnlinkedBeforeRelease, NamedUntilRemoval
<1>4. FreedByAbandonment'
  BY DEF TypeOK, OpenFiles, FreedByAbandonment
<1>5. QED BY <1>1, <1>2, <1>3, <1>4

LEMMA OperatorPreserves ==
  ASSUME IInv, NEW o \in Operators, OperatorStep(o)
  PROVE  IInv'
<1> USE LockAssumption
    DEF IInv, OperatorStep, UnlockExists, UnlockInspect, UnlockRemove, RemoveEntry,
        OpGoto
<1>1. TypeOK'
  BY DEF TypeOK
<1>2. (OpenFiles /\ LockOwnership /\ FileNamesHolder)'
  BY DEF OpenFiles, LockOwnership, FileNamesHolder
<1>3. (UnlinkedBeforeRelease /\ FreedByAbandonment)'
  BY DEF TypeOK, OpenFiles, UnlinkedBeforeRelease, FreedByAbandonment
<1>4. NamedUntilRemoval'
  BY DEF TypeOK, NamedUntilRemoval
<1>5. QED BY <1>1, <1>2, <1>3, <1>4

LEMMA NextIInv == IInv /\ [Next]_vars => IInv'
<1> SUFFICES ASSUME IInv, [Next]_vars PROVE IInv'
  OBVIOUS
<1>1. ASSUME NEW p \in Procs, ProcStep(p) PROVE IInv'
  BY <1>1, OpenPreserves, AcquirePreserves, RefusalPreserves, HoldPreserves,
     CleanupPreserves DEF ProcStep
<1>2. ASSUME NEW p \in Procs, Crash(p) PROVE IInv'
  BY <1>2, CrashPreserves
<1>3. ASSUME NEW o \in Operators, OperatorStep(o) PROVE IInv'
  BY <1>3, OperatorPreserves
<1>4. CASE UNCHANGED vars
  BY <1>4 DEF vars, IInv, TypeOK, OpenFiles, LockOwnership, FileNamesHolder,
     UnlinkedBeforeRelease, FreedByAbandonment, NamedUntilRemoval
<1>5. QED BY <1>1, <1>2, <1>3, <1>4 DEF Next

-----------------------------------------------------------------------------
(* The theorems                                                            *)

\* IInv holds in every reachable state: in particular the types, that the
\* kernel and `acquired` agree, and that a held file names its holder.
THEOREM LockInvariant == Spec => []IInv
BY InitIInv, NextIInv, PTL DEF Spec

\* The types of all variables, for any constants.
THEOREM TypeCorrect == Spec => []TypeOK
<1>1. IInv => TypeOK BY DEF IInv
<1>2. QED BY <1>1, LockInvariant, PTL

\* acquire_cache_lock's `acquired` never disagrees with the kernel.
THEOREM OwnershipCorrect == Spec => []LockOwnership
<1>1. IInv => LockOwnership BY DEF IInv
<1>2. QED BY <1>1, LockInvariant, PTL

\* The file of a holder names that holder while its `with` body runs.
THEOREM HolderIsNamed == Spec => []FileNamesHolder
<1>1. IInv => FileNamesHolder BY DEF IInv
<1>2. QED BY <1>1, LockInvariant, PTL

\* Until somebody unlinks `.lock`, there is one writer at most, whatever
\* crashes, refusals and takeovers happen.
THEOREM ExclusiveUntilRemoval == Spec => []SingleWriterUntilRemoval
<1>1. IInv => SingleWriterUntilRemoval
  <2> SUFFICES ASSUME IInv, removals = 0,
                      NEW p \in Procs, NEW q \in Procs,
                      pc[p] \in Writing, pc[q] \in Writing
               PROVE  p = q
    BY DEF SingleWriterUntilRemoval, SingleWriter
  <2>1. fd[p] = path /\ fd[q] = path /\ path \in Inodes
    BY DEF IInv, TypeOK, OpenFiles, NamedUntilRemoval, Writing
  <2>2. flock[path] = p /\ flock[path] = q
    BY <2>1 DEF IInv, LockOwnership, Acquired, Writing
  <2>3. QED BY <2>2
<1>2. QED BY <1>1, LockInvariant, PTL

\* A refused flock means that a live process owns the inode.
THEOREM RefusalsAreHonest == Spec => RefusalMeansLiveHolder
<1> DEFINE Honest(p) == pc[p] = "opened" /\ pc'[p] = "refused" =>
             \E q \in Procs \ {p} : flock[fd[p]] = q /\ fd[q] = fd[p] /\ pc[q] # "dead"
<1>1. ASSUME IInv, [Next]_vars PROVE [\A p \in Procs : Honest(p)]_vars
  <2> SUFFICES ASSUME NEW p \in Procs, pc[p] = "opened", pc'[p] = "refused"
               PROVE  \E q \in Procs \ {p} :
                        flock[fd[p]] = q /\ fd[q] = fd[p] /\ pc[q] # "dead"
    OBVIOUS
  <2>1. FlockRefused(p)
    BY <1>1 DEF Next, ProcStep, OperatorStep, OpenLockFile, FlockSucceeds, FlockRefused,
       InspectStale, ReflockSucceeds, ReflockRefused, FlockUnsupported, IdentityDenied,
       Truncate, WriteIdentity, WriteFails, LeaveBody, CleanupUnlink, CleanupUnlock,
       CleanupUnlockFails, CleanupRaises, FlockInterrupted, CloseFile, Crash,
       UnlockExists, UnlockInspect, UnlockRemove, Goto, IInv, TypeOK, vars
  <2>2. fd[p] \in Inodes /\ flock[fd[p]] \in Procs
    BY <1>1, <2>1 DEF FlockRefused, IInv, TypeOK, OpenFiles
  <2>3. flock[fd[p]] # p
    BY <1>1, <2>2 DEF IInv, LockOwnership, Acquired
  <2>4. fd[flock[fd[p]]] = fd[p] /\ pc[flock[fd[p]]] # "dead"
    BY <1>1, <2>2 DEF IInv, LockOwnership, Acquired
  <2>5. QED BY <2>2, <2>3, <2>4
<1>2. QED BY <1>1, LockInvariant, PTL DEF Spec, RefusalMeansLiveHolder

\* Taking over the inode that `.lock` names needs an owner that never got to its
\* LOCK_UN; neither age nor an unparseable file takes the lock of a live holder.
THEOREM TakeoversNeedAbandonment == Spec => TakeoverMeansAbandonment
<1> DEFINE Justified(p) ==
      pc[p] = "stale" /\ pc'[p] = "locked" /\ fd[p] = path =>
        fd[p] \in abandoned
<1>1. ASSUME IInv, [Next]_vars PROVE [\A p \in Procs : Justified(p)]_vars
  <2> SUFFICES ASSUME NEW p \in Procs,
                      pc[p] = "stale", pc'[p] = "locked", fd[p] = path
               PROVE  fd[p] \in abandoned
    OBVIOUS
  <2>1. ReflockSucceeds(p)
    BY <1>1 DEF Next, ProcStep, OperatorStep, OpenLockFile, FlockSucceeds, FlockRefused,
       InspectStale, ReflockSucceeds, ReflockRefused, FlockUnsupported, IdentityDenied,
       Truncate, WriteIdentity, WriteFails, LeaveBody, CleanupUnlink, CleanupUnlock,
       CleanupUnlockFails, CleanupRaises, FlockInterrupted, CloseFile, Crash,
       UnlockExists, UnlockInspect, UnlockRemove, Goto, IInv, TypeOK, vars
  <2>2. QED
    BY <1>1, <2>1 DEF ReflockSucceeds, TakeFlock, IInv, FreedByAbandonment
<1>2. QED BY <1>1, LockInvariant, PTL DEF Spec, TakeoverMeansAbandonment

-----------------------------------------------------------------------------
(* Counting writers                                                        *)

\* An inode that some process has open and the directory entry does not name.
\* Each can have a writer of its own beside the writer of the named inode.
StrayInodes == {i \in Inodes \ {path} : \E p \in Procs : fd[p] = i}

\* An inode goes astray only when its entry is removed, one inode per removal:
\* opening joins the named inode or names one that nobody has open, so nothing
\* else adds a stray.  (Finiteness is part of it: Procs need not be finite.)
StraysCounted ==
  /\ IsFiniteSet(StrayInodes)
  /\ Cardinality(StrayInodes) <= removals

\* A step that adds no stray inode and forgets no removal keeps the count.
LEMMA NoNewStray ==
  ASSUME IInv, StraysCounted, IInv',
         StrayInodes' \subseteq StrayInodes, removals' >= removals
  PROVE  StraysCounted'
<1>1. IsFiniteSet(StrayInodes') /\ Cardinality(StrayInodes') <= Cardinality(StrayInodes)
  BY FS_Subset DEF StraysCounted
<1>2. /\ Cardinality(StrayInodes) \in Nat /\ Cardinality(StrayInodes') \in Nat
      /\ removals \in Nat /\ removals' \in Nat
  BY <1>1, FS_CardinalityType DEF StraysCounted, IInv, TypeOK
<1>3. QED BY <1>1, <1>2 DEF StraysCounted

LEMMA AddOne ==
  ASSUME NEW S, NEW x, IsFiniteSet(S)
  PROVE  IsFiniteSet(S \cup {x}) /\ Cardinality(S \cup {x}) <= Cardinality(S) + 1
<1>1. Cardinality(S) \in Nat
  BY FS_CardinalityType
<1>2. QED BY <1>1, FS_AddElement

\* Unlinking an entry makes at most the inode it named a stray, and counts.
LEMMA RemovalAddsOne ==
  ASSUME IInv, StraysCounted, IInv', RemoveEntry, UNCHANGED fd
  PROVE  StraysCounted'
<1>1. CASE path = NoInode
  <2>1. StrayInodes' \subseteq StrayInodes /\ removals' >= removals
    BY <1>1 DEF RemoveEntry, StrayInodes, IInv, TypeOK
  <2>2. QED BY <2>1, NoNewStray
<1>2. CASE path # NoInode
  <2>1. StrayInodes' \subseteq StrayInodes \cup {path} /\ removals' = removals + 1
    BY <1>2 DEF RemoveEntry, StrayInodes
  <2>2. /\ IsFiniteSet(StrayInodes \cup {path})
        /\ Cardinality(StrayInodes \cup {path}) <= Cardinality(StrayInodes) + 1
    BY AddOne DEF StraysCounted
  <2>3. /\ IsFiniteSet(StrayInodes')
        /\ Cardinality(StrayInodes') <= Cardinality(StrayInodes \cup {path})
    BY <2>1, <2>2, FS_Subset
  <2>4. /\ Cardinality(StrayInodes) \in Nat /\ Cardinality(StrayInodes') \in Nat
        /\ Cardinality(StrayInodes \cup {path}) \in Nat /\ removals \in Nat
    BY <2>2, <2>3, FS_CardinalityType DEF StraysCounted, IInv, TypeOK
  <2>5. QED BY <2>1, <2>2, <2>3, <2>4 DEF StraysCounted
<1>3. QED BY <1>1, <1>2

LEMMA StepCountsStrays ==
  ASSUME IInv, StraysCounted, IInv', [Next]_vars
  PROVE  StraysCounted'
<1>1. ASSUME NEW p \in Procs, OpenLockFile(p) PROVE StraysCounted'
  <2>1. StrayInodes' \subseteq StrayInodes
    BY <1>1, LockAssumption DEF OpenLockFile, OpenExisting, CreateLockFile, StrayInodes,
                                IInv, TypeOK
  <2>2. removals' >= removals
    BY <1>1 DEF OpenLockFile, IInv, TypeOK
  <2>3. QED BY <2>1, <2>2, NoNewStray
<1>2. ASSUME NEW p \in Procs, CloseFile(p) \/ Crash(p) PROVE StraysCounted'
  <2>1. StrayInodes' \subseteq StrayInodes /\ removals' >= removals
    BY <1>2, LockAssumption DEF CloseFile, Crash, DropFile, StrayInodes, IInv, TypeOK
  <2>2. QED BY <2>1, NoNewStray
<1>3. CASE \/ \E p \in Procs : CleanupUnlink(p)
           \/ \E o \in Operators : UnlockRemove(o) /\ RemoveEntry
  BY <1>3, RemovalAddsOne DEF CleanupUnlink, UnlockRemove
<1>4. CASE UNCHANGED <<path, fd, removals>>
  <2>1. StrayInodes' \subseteq StrayInodes /\ removals' >= removals
    BY <1>4 DEF StrayInodes, IInv, TypeOK
  <2>2. QED BY <2>1, NoNewStray
<1>5. QED
  BY <1>1, <1>2, <1>3, <1>4
     DEF Next, ProcStep, OperatorStep, FlockSucceeds, FlockRefused, InspectStale,
         ReflockSucceeds, ReflockRefused, FlockUnsupported, IdentityDenied, Truncate,
         WriteIdentity, WriteFails, LeaveBody, CleanupUnlock, CleanupUnlockFails,
         CleanupRaises, FlockInterrupted, UnlockExists, UnlockInspect, UnlockRemove, vars

\* Two writers never share an inode (LockOwnership), so the writers map one to
\* one into the stray inodes and the named one.
LEMMA WritersAreCounted ==
  ASSUME IInv, StraysCounted
  PROVE  WritersBoundedByRemovals
<1> DEFINE Writers == {p \in Procs : pc[p] \in Writing}
           Open == StrayInodes \cup {path}
           f == [p \in Writers |-> fd[p]]
<1>1. f \in Injection(Writers, Open)
  <2>1. \A p \in Writers : fd[p] \in Inodes /\ flock[fd[p]] = p
    BY DEF IInv, TypeOK, OpenFiles, LockOwnership, Writing, Acquired
  <2>2. \A p \in Writers : fd[p] \in Open
    BY <2>1 DEF StrayInodes
  <2>3. \A p, q \in Writers : f[p] = f[q] => p = q
    BY <2>1
  <2>4. QED BY <2>2, <2>3 DEF Injection, IsInjective
<1>2. /\ IsFiniteSet(Open)
      /\ Cardinality(Open) <= Cardinality(StrayInodes) + 1
  BY AddOne DEF StraysCounted
<1>3. IsFiniteSet(Writers) /\ Cardinality(Writers) <= Cardinality(Open)
  BY <1>1, <1>2, FS_Injection
<1>4. /\ Cardinality(Writers) \in Nat /\ Cardinality(Open) \in Nat
      /\ Cardinality(StrayInodes) \in Nat /\ removals \in Nat
  BY <1>2, <1>3, FS_CardinalityType DEF StraysCounted, IInv, TypeOK
<1>5. QED BY <1>2, <1>3, <1>4 DEF StraysCounted, WritersBoundedByRemovals

\* Each removal of `.lock`, by a cleanup or by an operator, admits at most one
\* more simultaneous writer, with any number of processes.
THEOREM WritersAreBounded == Spec => []WritersBoundedByRemovals
<1>1. Init => StraysCounted
  <2>1. Init => StrayInodes = {}
    BY LockAssumption DEF Init, StrayInodes
  <2>2. QED BY <2>1, FS_EmptySet DEF Init, StraysCounted
<1>2. IInv /\ IInv' /\ StraysCounted /\ [Next]_vars => StraysCounted'
  BY StepCountsStrays
<1>3. IInv /\ StraysCounted => WritersBoundedByRemovals
  BY WritersAreCounted
<1>4. QED BY <1>1, <1>2, <1>3, LockInvariant, PTL DEF Spec

-----------------------------------------------------------------------------
(* Where the exclusion ends: two attempts keep it, three do not            *)

\* At most two processes, one attempt each, and no operator.  (The violation of
\* SingleWriter that TLC finds has three processes with one attempt each.)
TwoAttempts ==
  /\ Operators = {}
  /\ MaxAttempts = 1
  /\ \A p, q, r \in Procs : p = q \/ p = r \/ q = r

\* p will never be a writer again (its cleanup is under way, or it crashed, or its
\* only attempt is over), and an inode it still has open is no longer named.
Finished(p) ==
  /\ \/ pc[p] \in {"unlock", "close", "dead"}
     \/ pc[p] = "idle" /\ attempts[p] = 1
  /\ fd[p] = NoInode \/ fd[p] # path

\* With two attempts, whoever removed the entry has finished, which leaves one
\* process that can write.
RemoverIsFinished ==
  /\ \A p \in Procs : pc[p] # "idle" => attempts[p] = 1
  /\ removals = 0 \/ \E p \in Procs : Finished(p)

LEMMA RemoverStaysFinished ==
  ASSUME TwoAttempts, IInv, RemoverIsFinished, [Next]_vars
  PROVE  RemoverIsFinished'
<1>1. ASSUME NEW p \in Procs, ProcStep(p) \/ Crash(p) PROVE RemoverIsFinished'
  <2> USE <1>1
      DEF ProcStep, OpenLockFile, FlockSucceeds, FlockRefused, InspectStale,
          ReflockSucceeds, ReflockRefused, FlockUnsupported, IdentityDenied, Truncate,
          WriteIdentity, WriteFails, LeaveBody, CleanupUnlink, CleanupUnlock,
          CleanupUnlockFails, CleanupRaises, FlockInterrupted, CloseFile, Crash, Goto,
          TwoAttempts, IInv, TypeOK, RemoverIsFinished
  <2>1. (\A q \in Procs : pc[q] # "idle" => attempts[q] = 1)'
    OBVIOUS
  <2>2. \A q \in Procs : Finished(q) => Finished(q)'
    BY LockAssumption
       DEF Finished, OpenExisting, CreateLockFile, FreshInodes, RemoveEntry, DropFile
  <2>3. removals' = removals \/ Finished(p)'
    BY LockAssumption DEF Finished, RemoveEntry, OpenFiles
  <2>4. QED BY <2>1, <2>2, <2>3
<1>2. CASE UNCHANGED vars
  BY <1>2 DEF vars, RemoverIsFinished, Finished
<1>3. QED BY <1>1, <1>2 DEF Next, TwoAttempts

LEMMA TwoAttemptsInvariant ==
  ASSUME TwoAttempts
  PROVE  Spec => []RemoverIsFinished
<1>1. Init => RemoverIsFinished
  BY DEF Init, RemoverIsFinished
<1>2. IInv /\ RemoverIsFinished /\ [Next]_vars => RemoverIsFinished'
  BY TwoAttempts, RemoverStaysFinished
<1>3. QED BY <1>1, <1>2, LockInvariant, PTL DEF Spec

\* Two attempts never write at the same time, whatever they do and however
\* they crash: while the entry was never removed the kernel excludes, and who
\* removed it is not writing.
THEOREM TwoAttemptsExclude ==
  ASSUME TwoAttempts
  PROVE  Spec => []SingleWriter
<1>1. IInv /\ RemoverIsFinished => SingleWriter
  <2> SUFFICES ASSUME IInv, RemoverIsFinished,
                      NEW p \in Procs, NEW q \in Procs,
                      pc[p] \in Writing, pc[q] \in Writing
               PROVE  p = q
    BY DEF SingleWriter
  <2>1. CASE removals = 0
    <3>1. fd[p] = path /\ fd[q] = path /\ path \in Inodes
      BY <2>1 DEF IInv, TypeOK, OpenFiles, NamedUntilRemoval, Writing
    <3>2. QED BY <3>1 DEF IInv, LockOwnership, Acquired, Writing
  <2>2. CASE \E r \in Procs : Finished(r)
    <3>1. \A r \in Procs : Finished(r) => r # p /\ r # q
      BY DEF Finished, Writing
    <3>2. QED BY <2>2, <3>1, TwoAttempts DEF TwoAttempts
  <2>3. QED BY <2>1, <2>2 DEF RemoverIsFinished
<1>2. QED BY <1>1, LockInvariant, TwoAttemptsInvariant, TwoAttempts, PTL

\* With two attempts the entry of a held inode goes only in its holder's own
\* cleanup: another cleanup would be the first removal, and then it would have
\* to own the named inode itself.
THEOREM TwoAttemptsKeepEntry ==
  ASSUME TwoAttempts
  PROVE  Spec => LiveHolderKeepsEntry
<1> DEFINE Own(p) ==
      path # NoInode /\ path' # path /\ flock[path] = p =>
        pc[p] = "unlink" /\ pc'[p] = "unlock"
<1>1. ASSUME IInv, RemoverIsFinished, [Next]_vars PROVE [\A p \in Procs : Own(p)]_vars
  <2> SUFFICES ASSUME NEW p \in Procs,
                      path # NoInode, path' # path, flock[path] = p
               PROVE  pc[p] = "unlink" /\ pc'[p] = "unlock"
    OBVIOUS
  <2>1. PICK q \in Procs : CleanupUnlink(q)
    BY <1>1, TwoAttempts
       DEF TwoAttempts, Next, ProcStep, OpenLockFile, OpenExisting, CreateLockFile,
           FlockSucceeds, FlockRefused, InspectStale, ReflockSucceeds, ReflockRefused,
           FlockUnsupported, IdentityDenied, Truncate, WriteIdentity, WriteFails,
           LeaveBody, CleanupUnlock, CleanupUnlockFails, CleanupRaises,
           FlockInterrupted, CloseFile, Crash, vars
  <2>2. pc[q] = "unlink" /\ pc'[q] = "unlock" /\ fd[q] \in Inodes /\ flock[fd[q]] = q
    BY <1>1, <2>1
       DEF CleanupUnlink, Goto, IInv, TypeOK, OpenFiles, LockOwnership, Acquired
  <2>3. path \in Inodes
    BY <1>1 DEF IInv, TypeOK
  <2>4. CASE removals = 0
    BY <1>1, <2>2, <2>3, <2>4, LockAssumption DEF IInv, NamedUntilRemoval
  <2>5. CASE \E r \in Procs : Finished(r)
    <3>1. Finished(p) \/ p = q
      BY <2>2, <2>5, TwoAttempts DEF TwoAttempts, Finished
    <3>2. ~Finished(p)
      \* it owns the named inode, so it has it open
      BY <1>1, <2>3, LockAssumption DEF Finished, IInv, LockOwnership
    <3>3. QED BY <2>2, <3>1, <3>2
  <2>6. QED BY <1>1, <2>4, <2>5 DEF RemoverIsFinished
<1>2. QED
  BY <1>1, LockInvariant, TwoAttemptsInvariant, TwoAttempts, PTL
     DEF Spec, LiveHolderKeepsEntry

=============================================================================
