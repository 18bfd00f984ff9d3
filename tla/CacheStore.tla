----------------------------- MODULE CacheStore -----------------------------
(***************************************************************************)
(* The files of the scorer cache: `meta.json`, and one file per entry in   *)
(* shard directories below `entries/`.                                     *)
(*   - clients call init_cache, then write_entry and read_entry            *)
(*     (cache/storage/v1.py), and may be killed at any moment;             *)
(*   - operators run `whatifd cache rebuild --force` (cache/recovery.py),  *)
(*     which takes no lock.                                                *)
(*                                                                         *)
(* One file system call is one step.  `write_bytes` is two of them: open   *)
(* truncates, then the content is written; between the two the file does   *)
(* not parse.  A content is the call that wrote it, so that no two calls   *)
(* write the same one.  Writers exclude each other, which is what callers  *)
(* of write_entry owe it (v1.py:265); nothing else is coordinated.         *)
(***************************************************************************)
EXTENDS Naturals, FiniteSets

CONSTANTS
  Clients,    \* processes that use the cache
  Operators,  \* invocations of `cache rebuild --force`
  Keys,       \* cache keys
  Shards,     \* shard directories
  ShardOf,    \* [Keys -> Shards]: the first two digits of the digest
  Absent,     \* no file; for a local variable: not set
  Partial,    \* a file that does not parse: truncated, not yet written
  MaxCalls    \* bound: reads and writes per client

Values == Clients \X (1..MaxCalls)

ASSUME StoreAssumption ==
  /\ ShardOf \in [Keys -> Shards]
  /\ MaxCalls \in Nat
  /\ Absent # Partial
  /\ Absent \notin Values \cup Keys \cup Shards
  /\ Partial \notin Values

VARIABLES
  meta,        \* what meta.json holds
  entriesDir,  \* the directory entries/ exists
  shard,       \* which shard directories exist
  entry,       \* the file of each key
  pc,          \* control state of each client
  key,         \* the key of its current call
  calls,       \* how many reads and writes it has begun
  linked,      \* the file it is writing is still in its directory
  result,      \* how its last call ended
  rpc,         \* control state of each rebuild
  todo,        \* the shard directories it has yet to visit
  at,          \* the shard directory it is in
  files,       \* the files of the current shard it has yet to visit
  file,        \* the file it is at
  onlyFiles,   \* its local bucket_had_only_files
  owed,        \* history: completed writes that no overwrite or rebuild touched
  found        \* history: the entries that were there when a rebuild began

storeVars == <<meta, entriesDir, shard, entry>>
clientVars == <<pc, key, calls, linked, result>>
rebuildVars == <<rpc, todo, at, files, file, onlyFiles>>
vars == <<meta, entriesDir, shard, entry, pc, key, calls, linked, result,
          rpc, todo, at, files, file, onlyFiles, owed, found>>

KeysIn(d) == {k \in Keys : ShardOf[k] = d}
Present(k) == entry[k] # Absent
Contents == {<<k, entry[k]>> : k \in {k \in Keys : entry[k] \in Values}}

TypeOK ==
  /\ meta \in {"absent", "partial", "valid", "foreign"}
  /\ entriesDir \in BOOLEAN
  /\ shard \in [Shards -> BOOLEAN]
  /\ entry \in [Keys -> Values \cup {Absent, Partial}]
  /\ pc \in [Clients -> {"idle", "check_meta", "load_meta", "create_meta",
                         "fill_meta", "ready", "open", "fill", "reading",
                         "refused", "dead"}]
  /\ key \in [Clients -> Keys \cup {Absent}]
  /\ calls \in [Clients -> 0..MaxCalls]
  /\ linked \in [Clients -> BOOLEAN]
  /\ result \in [Clients -> {"none", "ok", "hit", "miss", "mismatch", "os_error"}]
  /\ rpc \in [Operators -> {"idle", "walk", "list", "shard", "unlink",
                           "done", "raised"}]
  /\ todo \in [Operators -> SUBSET Shards]
  /\ at \in [Operators -> Shards \cup {Absent}]
  /\ files \in [Operators -> SUBSET Keys]
  /\ file \in [Operators -> Keys \cup {Absent}]
  /\ onlyFiles \in [Operators -> BOOLEAN]
  /\ owed \subseteq Keys \X Values
  /\ found \in [Operators -> SUBSET (Keys \X Values)]

\* A cache nobody has used, one that is in order, or one of another version.
Init ==
  /\ meta \in {"absent", "valid", "foreign"}
  /\ entriesDir = (meta # "absent")
  /\ shard = [d \in Shards |-> FALSE]
  /\ entry = [k \in Keys |-> Absent]
  /\ pc = [c \in Clients |-> "idle"]
  /\ key = [c \in Clients |-> Absent]
  /\ calls = [c \in Clients |-> 0]
  /\ linked = [c \in Clients |-> FALSE]
  /\ result = [c \in Clients |-> "none"]
  /\ rpc = [o \in Operators |-> "idle"]
  /\ todo = [o \in Operators |-> {}]
  /\ at = [o \in Operators |-> Absent]
  /\ files = [o \in Operators |-> {}]
  /\ file = [o \in Operators |-> Absent]
  /\ onlyFiles = [o \in Operators |-> TRUE]
  /\ owed = {}
  /\ found = [o \in Operators |-> {}]

Goto(c, from, to) == pc[c] = from /\ pc' = [pc EXCEPT ![c] = to]
Report(c, r) == result' = [result EXCEPT ![c] = r]

\* A read or a write ends; its locals are gone.
Return(c, from, r) ==
  /\ Goto(c, from, "ready")
  /\ Report(c, r)
  /\ key' = [key EXCEPT ![c] = Absent]
  /\ linked' = [linked EXCEPT ![c] = FALSE]

-----------------------------------------------------------------------------
(* init_cache                                                              *)

\* mkdir of the root and of entries/.
MakeDirs(c) ==
  /\ Goto(c, "idle", "check_meta")
  /\ entriesDir' = TRUE
  /\ UNCHANGED <<meta, shard, entry, key, calls, linked, result, rebuildVars,
                 owed, found>>

CheckMeta(c) ==
  /\ Goto(c, "check_meta", IF meta = "absent" THEN "create_meta" ELSE "load_meta")
  /\ UNCHANGED <<storeVars, key, calls, linked, result, rebuildVars, owed, found>>

\* read_meta, then the comparison of the schema version.
LoadMeta(c) ==
  /\ Goto(c, "load_meta", IF meta = "valid" THEN "ready" ELSE "refused")
  /\ Report(c, IF meta = "valid" THEN "ok" ELSE "mismatch")
  /\ UNCHANGED <<storeVars, key, calls, linked, rebuildVars, owed, found>>

TruncateMeta(c) ==
  /\ Goto(c, "create_meta", "fill_meta")
  /\ meta' = "partial"
  /\ UNCHANGED <<entriesDir, shard, entry, key, calls, linked, result,
                 rebuildVars, owed, found>>

FillMeta(c) ==
  /\ Goto(c, "fill_meta", "ready")
  /\ meta' = "valid"
  /\ Report(c, "ok")
  /\ UNCHANGED <<entriesDir, shard, entry, key, calls, linked, rebuildVars,
                 owed, found>>

-----------------------------------------------------------------------------
(* write_entry                                                             *)

Writing(c) == pc[c] \in {"open", "fill"}
Rebuilding == \E o \in Operators : rpc[o] \in {"walk", "list", "shard", "unlink"}

\* Mutant of MakeShard: no lock is held around write_entry.
MakeShardUnlocked(c) ==
  /\ calls[c] < MaxCalls
  /\ Goto(c, "ready", "open")
  /\ \E k \in Keys :
       /\ key' = [key EXCEPT ![c] = k]
       /\ shard' = [shard EXCEPT ![ShardOf[k]] = TRUE]
  /\ entriesDir' = TRUE
  /\ calls' = [calls EXCEPT ![c] = @ + 1]
  /\ UNCHANGED <<meta, entry, linked, result, rebuildVars, owed, found>>

\* The call begins with the mkdir of the shard and of its parents.
MakeShard(c) ==
  /\ calls[c] < MaxCalls
  /\ \A d \in Clients : ~Writing(d)
  /\ Goto(c, "ready", "open")
  /\ \E k \in Keys :
       /\ key' = [key EXCEPT ![c] = k]
       /\ shard' = [shard EXCEPT ![ShardOf[k]] = TRUE]
  /\ entriesDir' = TRUE
  /\ calls' = [calls EXCEPT ![c] = @ + 1]
  /\ UNCHANGED <<meta, entry, linked, result, rebuildVars, owed, found>>

\* open(entry_path, "wb"): the old content is gone.
OpenEntry(c) ==
  /\ Goto(c, "open", "fill")
  /\ shard[ShardOf[key[c]]]
  /\ entry' = [entry EXCEPT ![key[c]] = Partial]
  /\ linked' = [linked EXCEPT ![c] = TRUE]
  /\ owed' = {w \in owed : w[1] # key[c]}
  /\ UNCHANGED <<meta, entriesDir, shard, key, calls, result, rebuildVars, found>>

\* A rebuild has removed the shard since the mkdir: FileNotFoundError.
OpenFails(c) ==
  /\ Return(c, "open", "os_error")
  /\ ~shard[ShardOf[key[c]]]
  /\ UNCHANGED <<storeVars, calls, rebuildVars, owed, found>>

\* Mutant of FillEntry: the call returns before its buffer is flushed.
FillUnflushed(c) ==
  /\ Return(c, "fill", "ok")
  /\ UNCHANGED <<storeVars, calls, rebuildVars, owed, found>>

\* The content goes to the open file, in its directory or not.
FillEntry(c) ==
  /\ Return(c, "fill", "ok")
  /\ entry' = IF linked[c] THEN [entry EXCEPT ![key[c]] = <<c, calls[c]>>]
                           ELSE entry
  /\ owed' = IF Rebuilding \/ ~linked[c] THEN owed
             ELSE owed \cup {<<key[c], <<c, calls[c]>>>>}
  /\ UNCHANGED <<meta, entriesDir, shard, calls, rebuildVars, found>>

-----------------------------------------------------------------------------
(* read_entry                                                              *)

\* Mutant of CheckEntry: the existence of the file is not checked.
CheckNothing(c) ==
  /\ calls[c] < MaxCalls
  /\ Goto(c, "ready", "reading")
  /\ \E k \in Keys : key' = [key EXCEPT ![c] = k]
  /\ calls' = [calls EXCEPT ![c] = @ + 1]
  /\ UNCHANGED <<storeVars, linked, result, rebuildVars, owed, found>>

\* entry_path.exists()
CheckEntry(c) ==
  /\ calls[c] < MaxCalls
  /\ calls' = [calls EXCEPT ![c] = @ + 1]
  /\ \E k \in Keys :
       IF Present(k)
       THEN /\ Goto(c, "ready", "reading")
            /\ key' = [key EXCEPT ![c] = k]
            /\ UNCHANGED <<linked, result>>
       ELSE Return(c, "ready", "miss")
  /\ UNCHANGED <<storeVars, rebuildVars, owed, found>>

\* read_text and what follows: the content, CacheSchemaMismatchError for a file
\* that does not parse, FileNotFoundError if it is gone by now.
ReadEntry(c) ==
  /\ Return(c, "reading",
            IF ~Present(key[c]) THEN "os_error"
            ELSE IF entry[key[c]] = Partial THEN "mismatch" ELSE "hit")
  /\ UNCHANGED <<storeVars, calls, rebuildVars, owed, found>>

\* The process is killed.
Crash(c) ==
  /\ pc[c] \notin {"idle", "dead"}
  /\ pc' = [pc EXCEPT ![c] = "dead"]
  /\ UNCHANGED <<storeVars, key, calls, linked, result, rebuildVars, owed, found>>

-----------------------------------------------------------------------------
(* rebuild(force=True)                                                     *)

WalkGoto(o, from, to) == rpc[o] = from /\ rpc' = [rpc EXCEPT ![o] = to]

\* entries_dir.iterdir(): a snapshot of the shards.
ListShards(o) ==
  /\ WalkGoto(o, "idle", IF entriesDir THEN "walk" ELSE "done")
  /\ todo' = [todo EXCEPT ![o] = {d \in Shards : shard[d]}]
  /\ owed' = {}
  /\ found' = [found EXCEPT ![o] = Contents]
  /\ UNCHANGED <<storeVars, clientVars, at, files, file, onlyFiles>>

\* bucket.is_dir()
EnterShard(o) ==
  /\ WalkGoto(o, "walk", "list")
  /\ \E d \in todo[o] :
       /\ shard[d]
       /\ at' = [at EXCEPT ![o] = d]
       /\ todo' = [todo EXCEPT ![o] = @ \ {d}]
  /\ onlyFiles' = [onlyFiles EXCEPT ![o] = TRUE]
  /\ UNCHANGED <<storeVars, clientVars, files, file, owed, found>>

\* Another rebuild has removed it: it counts as a stray file.
SkipShard(o) ==
  /\ rpc[o] = "walk"
  /\ \E d \in todo[o] : ~shard[d] /\ todo' = [todo EXCEPT ![o] = @ \ {d}]
  /\ UNCHANGED <<storeVars, clientVars, rpc, at, files, file, onlyFiles, owed, found>>

\* bucket.iterdir(): a snapshot of the files.
ListFiles(o) ==
  /\ WalkGoto(o, "list", "shard")
  /\ shard[at[o]]
  /\ files' = [files EXCEPT ![o] = {k \in KeysIn(at[o]) : Present(k)}]
  /\ UNCHANGED <<storeVars, clientVars, todo, at, file, onlyFiles, owed, found>>

\* Another rebuild has removed the shard since: FileNotFoundError ends this one.
ListFails(o) ==
  /\ WalkGoto(o, "list", "raised")
  /\ ~shard[at[o]]
  /\ UNCHANGED <<storeVars, clientVars, todo, at, files, file, onlyFiles, owed, found>>

\* entry_file.is_file()
CheckFile(o) ==
  /\ \E k \in files[o] :
       /\ WalkGoto(o, "shard", IF Present(k) THEN "unlink" ELSE "shard")
       /\ file' = [file EXCEPT ![o] = IF Present(k) THEN k ELSE Absent]
       /\ files' = [files EXCEPT ![o] = @ \ {k}]
       /\ onlyFiles' = [onlyFiles EXCEPT ![o] = @ /\ Present(k)]
  /\ UNCHANGED <<storeVars, clientVars, todo, at, owed, found>>

\* Mutant of UnlinkFile: entries that parse are spared.
UnlinkPartial(o) ==
  /\ WalkGoto(o, "unlink", "shard")
  /\ entry' = [entry EXCEPT ![file[o]] = IF @ = Partial THEN Absent ELSE @]
  /\ file' = [file EXCEPT ![o] = Absent]
  /\ UNCHANGED <<meta, entriesDir, shard, clientVars, todo, at, files, onlyFiles,
                 owed, found>>

\* unlink(): a client that is writing the file goes on writing to no name.
UnlinkFile(o) ==
  /\ WalkGoto(o, "unlink", "shard")
  /\ Present(file[o])
  /\ entry' = [entry EXCEPT ![file[o]] = Absent]
  /\ linked' = [c \in Clients |-> linked[c] /\ key[c] # file[o]]
  /\ file' = [file EXCEPT ![o] = Absent]
  /\ UNCHANGED <<meta, entriesDir, shard, pc, key, calls, result, todo, at,
                 files, onlyFiles, owed, found>>

\* Another rebuild was faster: FileNotFoundError ends this one.
UnlinkFails(o) ==
  /\ WalkGoto(o, "unlink", "raised")
  /\ ~Present(file[o])
  /\ UNCHANGED <<storeVars, clientVars, todo, at, files, file, onlyFiles, owed, found>>

\* A shard with something else than files in it is left alone.
KeepShard(o) ==
  /\ WalkGoto(o, "shard", "walk")
  /\ files[o] = {} /\ ~onlyFiles[o]
  /\ at' = [at EXCEPT ![o] = Absent]
  /\ UNCHANGED <<storeVars, clientVars, todo, files, file, onlyFiles, owed, found>>

\* rmdir()
RemoveShard(o) ==
  /\ WalkGoto(o, "shard", "walk")
  /\ files[o] = {} /\ onlyFiles[o]
  /\ shard[at[o]] /\ \A k \in KeysIn(at[o]) : ~Present(k)
  /\ shard' = [shard EXCEPT ![at[o]] = FALSE]
  /\ at' = [at EXCEPT ![o] = Absent]
  /\ UNCHANGED <<meta, entriesDir, entry, clientVars, todo, files, file,
                 onlyFiles, owed, found>>

\* rmdir() raises on a directory in which a client has written meanwhile, or
\* which another rebuild has removed: it ends this one.
RemoveFails(o) ==
  /\ WalkGoto(o, "shard", "raised")
  /\ files[o] = {} /\ onlyFiles[o]
  /\ shard[at[o]] => \E k \in KeysIn(at[o]) : Present(k)
  /\ UNCHANGED <<storeVars, clientVars, todo, at, files, file, onlyFiles, owed, found>>

EndRebuild(o) ==
  /\ WalkGoto(o, "walk", "done")
  /\ todo[o] = {}
  /\ UNCHANGED <<storeVars, clientVars, todo, at, files, file, onlyFiles, owed, found>>

-----------------------------------------------------------------------------
ClientStep(c) ==
  \/ MakeDirs(c) \/ CheckMeta(c) \/ LoadMeta(c) \/ TruncateMeta(c) \/ FillMeta(c)
  \/ MakeShard(c) \/ OpenEntry(c) \/ OpenFails(c) \/ FillEntry(c)
  \/ CheckEntry(c) \/ ReadEntry(c) \/ Crash(c)

RebuildStep(o) ==
  \/ ListShards(o) \/ EnterShard(o) \/ SkipShard(o)
  \/ ListFiles(o) \/ ListFails(o) \/ CheckFile(o) \/ UnlinkFile(o) \/ UnlinkFails(o)
  \/ KeepShard(o) \/ RemoveShard(o) \/ RemoveFails(o) \/ EndRebuild(o)

Next ==
  \/ \E c \in Clients : ClientStep(c)
  \/ \E o \in Operators : RebuildStep(o)

Spec == Init /\ [][Next]_vars

-----------------------------------------------------------------------------
(* Properties                                                              *)

\* Files that do not parse are the work of a client that is writing them or was
\* killed while it did: neither a reader nor a rebuild, nor a completed call,
\* leaves one behind.
PartialMeansWriter ==
  /\ meta = "partial" => \E c \in Clients : pc[c] \in {"fill_meta", "dead"}
  /\ \A k \in Keys : entry[k] = Partial =>
       \E c \in Clients : key[c] = k /\ pc[c] \in {"fill", "dead"}

\* An entry whose write has returned is there, and is what was written, until a
\* later write of its key opens the file or a rebuild begins: whatever other
\* clients write, read or are killed at.
KeepsAcknowledged == \A w \in owed : entry[w[1]] = w[2]

\* A rebuild that ends without an error has removed every entry that was there
\* when it began, with writers and other rebuilds at work meanwhile.
RebuildClears ==
  \A o \in Operators : rpc[o] = "done" => found[o] \cap Contents = {}

\* Without a rebuild the storage answers with an entry, a miss or its own
\* CacheSchemaMismatchError; a bare OSError owes itself to one.
OsErrorMeansRebuild ==
  (\E c \in Clients : result[c] = "os_error") => \E o \in Operators : rpc[o] # "idle"

=============================================================================
