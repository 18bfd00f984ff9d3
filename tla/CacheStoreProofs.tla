-------------------------- MODULE CacheStoreProofs --------------------------
(***************************************************************************)
(* CacheStore, for any clients, keys and shards and any number of calls    *)
(* and rebuilds.  None of the properties is inductive.  IInv adds          *)
(*   - what the locals of a call or of a rebuild say about the files while *)
(*     it is under way (WritersOK, PartialOwned, NoRebuildNoSurprise);     *)
(*   - that a content, once on disk, is never written again (Fresh), so    *)
(*     that an entry a rebuild has removed is not one it finds later;      *)
(*   - where a rebuild will still meet an entry that it found (Pending).   *)
(***************************************************************************)
EXTENDS CacheStore, TLAPS

\* A file is in its shard, a shard in entries/.
Nested ==
  /\ \A k \in Keys : Present(k) => shard[ShardOf[k]]
  /\ \A d \in Shards : shard[d] => entriesDir

WritersOK ==
  /\ \A c \in Clients : pc[c] \in {"open", "fill", "reading"} => key[c] \in Keys
  /\ \A c \in Clients : Writing(c) => calls[c] > 0
  /\ \A c, d \in Clients : Writing(c) /\ Writing(d) => c = d
  /\ \A c \in Clients : pc[c] = "fill" /\ linked[c] => entry[key[c]] = Partial

PartialOwned ==
  /\ meta = "partial" => \E c \in Clients : pc[c] \in {"fill_meta", "dead"}
  /\ \A k \in Keys : entry[k] = Partial =>
       \E c \in Clients : key[c] = k /\ linked[c] /\ pc[c] \in {"fill", "dead"}

OwedOK ==
  /\ Rebuilding => owed = {}
  /\ KeepsAcknowledged

NoRebuildNoSurprise ==
  (\A o \in Operators : rpc[o] = "idle") =>
    \A c \in Clients :
      /\ pc[c] = "open" => shard[ShardOf[key[c]]]
      /\ pc[c] = "reading" => Present(key[c])
      /\ result[c] # "os_error"

\* The call that wrote v has ended.
Past(v) ==
  /\ v[2] <= calls[v[1]]
  /\ Writing(v[1]) => v[2] < calls[v[1]]

Fresh ==
  /\ \A k \in Keys : entry[k] \in Values => Past(entry[k])
  /\ \A o \in Operators : \A w \in found[o] : Past(w[2])

WalkOK ==
  \A o \in Operators :
    /\ rpc[o] \in {"list", "shard", "unlink"} => at[o] \in Shards
    /\ rpc[o] = "unlink" => file[o] \in Keys

\* The rebuild has yet to come to k.
Pending(o, k) ==
  \/ rpc[o] \in {"idle", "raised"}
  \/ rpc[o] # "done" /\ ShardOf[k] \in todo[o]
  \/ rpc[o] = "list" /\ at[o] = ShardOf[k]
  \/ rpc[o] \in {"shard", "unlink"} /\ k \in files[o]
  \/ rpc[o] = "unlink" /\ file[o] = k

Clearing ==
  \A o \in Operators : \A w \in found[o] : entry[w[1]] = w[2] => Pending(o, w[1])

IInv ==
  /\ TypeOK /\ Nested /\ WritersOK /\ PartialOwned /\ OwedOK
  /\ NoRebuildNoSurprise /\ Fresh /\ WalkOK /\ Clearing

-----------------------------------------------------------------------------

LEMMA InitEstablishes ==
  Init => IInv
<1> SUFFICES ASSUME Init PROVE IInv
  OBVIOUS
<1>1. TypeOK
  BY StoreAssumption DEF Init, TypeOK, StoreAssumption
<1>2. Nested /\ WritersOK /\ PartialOwned /\ WalkOK
  BY StoreAssumption DEF Init, Nested, WritersOK, PartialOwned, WalkOK, Present,
     Writing, StoreAssumption
<1>3. OwedOK /\ NoRebuildNoSurprise /\ Fresh /\ Clearing
  BY StoreAssumption DEF Init, OwedOK, KeepsAcknowledged, NoRebuildNoSurprise,
     Fresh, Clearing, StoreAssumption
<1> QED BY <1>1, <1>2, <1>3 DEF IInv

LEMMA ClientKeepsType ==
  ASSUME IInv, NEW c \in Clients, ClientStep(c)
  PROVE  TypeOK'
<1> USE StoreAssumption DEF IInv, TypeOK, StoreAssumption, storeVars, rebuildVars,
        Goto, Report, Return
<1>1. CASE MakeDirs(c) \/ CheckMeta(c) \/ LoadMeta(c) \/ TruncateMeta(c)
             \/ FillMeta(c) \/ Crash(c)
  BY <1>1 DEF MakeDirs, CheckMeta, LoadMeta, TruncateMeta, FillMeta, Crash
<1>2. CASE MakeShard(c)
  BY <1>2 DEF MakeShard
<1>3. CASE OpenEntry(c)
  BY <1>3 DEF OpenEntry
<1>4. CASE OpenFails(c)
  BY <1>4 DEF OpenFails
<1>5. CASE FillEntry(c)
  <2>1. key[c] \in Keys /\ calls[c] \in 1..MaxCalls
    BY <1>5 DEF FillEntry, WritersOK, Writing
  <2>2. <<c, calls[c]>> \in Values
    BY <2>1 DEF Values
  <2>3. entry' \in [Keys -> Values \cup {Absent, Partial}]
    BY <1>5, <2>1, <2>2 DEF FillEntry
  <2>4. owed' \subseteq Keys \X Values
    BY <1>5, <2>1, <2>2 DEF FillEntry
  <2> QED BY <1>5, <2>3, <2>4 DEF FillEntry
<1>6. CASE CheckEntry(c)
  <2>1. PICK k \in Keys :
          IF Present(k)
          THEN /\ Goto(c, "ready", "reading")
               /\ key' = [key EXCEPT ![c] = k]
               /\ UNCHANGED <<linked, result>>
          ELSE Return(c, "ready", "miss")
    BY <1>6 DEF CheckEntry
  <2>2. /\ pc' \in [Clients -> {"idle", "check_meta", "load_meta", "create_meta",
                               "fill_meta", "ready", "open", "fill", "reading",
                               "refused", "dead"}]
        /\ key' \in [Clients -> Keys \cup {Absent}]
        /\ linked' \in [Clients -> BOOLEAN]
        /\ result' \in [Clients -> {"none", "ok", "hit", "miss", "mismatch",
                                   "os_error"}]
    <3>1. CASE Present(k)
      BY <2>1, <3>1
    <3>2. CASE ~Present(k)
      BY <2>1, <3>2
    <3> QED BY <3>1, <3>2
  <2>3. /\ calls' = [calls EXCEPT ![c] = @ + 1] /\ calls[c] < MaxCalls
        /\ UNCHANGED <<meta, entriesDir, shard, entry, rpc, todo, at, files, file,
                       onlyFiles, owed, found>>
    BY <1>6 DEF CheckEntry
  <2> HIDE DEF Goto, Return
  <2> QED BY <2>2, <2>3
<1>7. CASE ReadEntry(c)
  BY <1>7 DEF ReadEntry
<1> QED BY <1>1, <1>2, <1>3, <1>4, <1>5, <1>6, <1>7 DEF ClientStep

LEMMA RebuildKeepsType ==
  ASSUME IInv, NEW o \in Operators, RebuildStep(o)
  PROVE  TypeOK'
<1> USE StoreAssumption DEF IInv, TypeOK, StoreAssumption, storeVars, clientVars,
        WalkGoto
<1>1. CASE ListShards(o)
  BY <1>1 DEF ListShards, Contents
<1>2. CASE EnterShard(o)
  <2>1. PICK d \in todo[o] :
          /\ at' = [at EXCEPT ![o] = d]
          /\ todo' = [todo EXCEPT ![o] = @ \ {d}]
    BY <1>2 DEF EnterShard
  <2>2. d \in Shards
    BY <2>1
  <2> QED BY <1>2, <2>1, <2>2 DEF EnterShard
<1>7. CASE SkipShard(o)
  BY <1>7 DEF SkipShard
<1>3. CASE ListFiles(o) \/ ListFails(o)
  BY <1>3 DEF ListFiles, ListFails, KeysIn
<1>4. CASE CheckFile(o)
  <2>1. PICK k \in files[o] :
          /\ WalkGoto(o, "shard", IF Present(k) THEN "unlink" ELSE "shard")
          /\ file' = [file EXCEPT ![o] = IF Present(k) THEN k ELSE Absent]
          /\ files' = [files EXCEPT ![o] = @ \ {k}]
          /\ onlyFiles' = [onlyFiles EXCEPT ![o] = @ /\ Present(k)]
    BY <1>4 DEF CheckFile
  <2>2. k \in Keys /\ Present(k) \in BOOLEAN
    BY <2>1 DEF Present
  <2>3. onlyFiles' \in [Operators -> BOOLEAN]
    <3> HIDE DEF IInv
    <3>1. onlyFiles \in [Operators -> BOOLEAN] /\ (onlyFiles[o] /\ Present(k)) \in BOOLEAN
      BY DEF IInv
    <3> QED BY <3>1, <2>1, Zenon
  <2>4. /\ rpc' = [rpc EXCEPT ![o] = IF Present(k) THEN "unlink" ELSE "shard"]
        /\ UNCHANGED <<meta, entriesDir, shard, entry, pc, key, calls, linked, result,
                       todo, at, owed, found>>
    BY <1>4, <2>1 DEF CheckFile
  <2> QED BY <2>1, <2>2, <2>3, <2>4
<1>5. CASE UnlinkFile(o)
  <2>1. linked' \in [Clients -> BOOLEAN]
    <3>1. linked' = [c \in Clients |-> linked[c] /\ key[c] # file[o]]
      BY <1>5 DEF UnlinkFile
    <3>2. \A c \in Clients : (linked[c] /\ key[c] # file[o]) \in BOOLEAN
      OBVIOUS
    <3> QED BY <3>1, <3>2, Zenon
  <2>2. entry' \in [Keys -> Values \cup {Absent, Partial}]
    BY <1>5 DEF UnlinkFile, WalkOK
  <2> QED BY <1>5, <2>1, <2>2 DEF UnlinkFile
<1>8. CASE UnlinkFails(o)
  BY <1>8 DEF UnlinkFails
<1>6. CASE KeepShard(o) \/ RemoveShard(o) \/ RemoveFails(o) \/ EndRebuild(o)
  BY <1>6 DEF KeepShard, RemoveShard, RemoveFails, EndRebuild
<1> QED BY <1>1, <1>2, <1>3, <1>4, <1>5, <1>6, <1>7, <1>8 DEF RebuildStep

LEMMA ClientKeepsLocals ==
  ASSUME IInv, NEW c \in Clients, ClientStep(c)
  PROVE  Nested' /\ WritersOK' /\ WalkOK'
<1> USE StoreAssumption DEF IInv, TypeOK, StoreAssumption, storeVars, rebuildVars,
        Goto, Report, Return, Nested, WritersOK, WalkOK, Present, Writing
<1>1. CASE MakeDirs(c) \/ CheckMeta(c) \/ LoadMeta(c) \/ TruncateMeta(c)
             \/ FillMeta(c) \/ Crash(c)
  BY <1>1 DEF MakeDirs, CheckMeta, LoadMeta, TruncateMeta, FillMeta, Crash
<1>2. CASE MakeShard(c)
  BY <1>2 DEF MakeShard
<1>3. CASE OpenEntry(c)
  BY <1>3 DEF OpenEntry
<1>4. CASE OpenFails(c)
  BY <1>4 DEF OpenFails
<1>5. CASE FillEntry(c)
  BY <1>5 DEF FillEntry
<1>6. CASE CheckEntry(c)
  <2>1. PICK k \in Keys :
          IF Present(k)
          THEN /\ Goto(c, "ready", "reading")
               /\ key' = [key EXCEPT ![c] = k]
               /\ UNCHANGED <<linked, result>>
          ELSE Return(c, "ready", "miss")
    BY <1>6 DEF CheckEntry
  <2>2. /\ calls' = [calls EXCEPT ![c] = @ + 1]
        /\ UNCHANGED <<storeVars, rebuildVars>>
    BY <1>6 DEF CheckEntry
  <2>3. CASE Present(k)
    BY <2>1, <2>2, <2>3
  <2>4. CASE ~Present(k)
    BY <2>1, <2>2, <2>4
  <2> QED BY <2>3, <2>4
<1>7. CASE ReadEntry(c)
  BY <1>7 DEF ReadEntry
<1> QED BY <1>1, <1>2, <1>3, <1>4, <1>5, <1>6, <1>7 DEF ClientStep

LEMMA RebuildKeepsLocals ==
  ASSUME IInv, NEW o \in Operators, RebuildStep(o)
  PROVE  Nested' /\ WritersOK' /\ WalkOK'
<1> USE StoreAssumption DEF IInv, TypeOK, StoreAssumption, storeVars, clientVars,
        WalkGoto, Nested, WritersOK, WalkOK, Present, Writing
<1>1. CASE ListShards(o)
  BY <1>1 DEF ListShards
<1>2. CASE EnterShard(o)
  BY <1>2 DEF EnterShard
<1>3. CASE SkipShard(o)
  BY <1>3 DEF SkipShard
<1>4. CASE ListFiles(o) \/ ListFails(o)
  BY <1>4 DEF ListFiles, ListFails
<1>5. CASE CheckFile(o)
  BY <1>5 DEF CheckFile
<1>6. CASE UnlinkFile(o)
  <2>1. /\ file[o] \in Keys
        /\ entry' = [entry EXCEPT ![file[o]] = Absent]
        /\ \A c \in Clients : linked'[c] => linked[c] /\ key[c] # file[o]
        /\ rpc' = [rpc EXCEPT ![o] = "shard"] /\ file' = [file EXCEPT ![o] = Absent]
        /\ UNCHANGED <<shard, entriesDir, pc, key, calls, at>>
    BY <1>6 DEF UnlinkFile
  <2>2. Nested' /\ WalkOK'
    BY <1>6, <2>1 DEF UnlinkFile
  <2>3. WritersOK'
    BY <2>1
  <2> QED BY <2>2, <2>3
<1>7. CASE RemoveShard(o)
  BY <1>7 DEF RemoveShard, KeysIn
<1>8. CASE UnlinkFails(o) \/ KeepShard(o) \/ RemoveFails(o) \/ EndRebuild(o)
  BY <1>8 DEF UnlinkFails, KeepShard, RemoveFails, EndRebuild
<1> QED BY <1>1, <1>2, <1>3, <1>4, <1>5, <1>6, <1>7, <1>8 DEF RebuildStep

LEMMA ClientKeepsPartialOwned ==
  ASSUME IInv, NEW c \in Clients, ClientStep(c)
  PROVE  PartialOwned'
<1> USE StoreAssumption DEF IInv, TypeOK, StoreAssumption, storeVars, rebuildVars,
        Goto, Report, Return, PartialOwned, WritersOK, Present, Writing
<1>1. CASE MakeDirs(c) \/ CheckMeta(c) \/ LoadMeta(c)
  BY <1>1 DEF MakeDirs, CheckMeta, LoadMeta
<1>8. CASE TruncateMeta(c) \/ FillMeta(c)
  BY <1>8 DEF TruncateMeta, FillMeta
<1>9. CASE Crash(c)
  BY <1>9 DEF Crash
<1>2. CASE MakeShard(c)
  BY <1>2 DEF MakeShard
<1>3. CASE OpenEntry(c)
  BY <1>3 DEF OpenEntry
<1>4. CASE OpenFails(c)
  BY <1>4 DEF OpenFails
<1>5. CASE FillEntry(c)
  <2>1. /\ pc' = [pc EXCEPT ![c] = "ready"] /\ meta' = meta /\ pc[c] = "fill"
        /\ key' = [key EXCEPT ![c] = Absent]
        /\ linked' = [linked EXCEPT ![c] = FALSE]
        /\ entry' = IF linked[c] THEN [entry EXCEPT ![key[c]] = <<c, calls[c]>>]
                               ELSE entry
    BY <1>5 DEF FillEntry
  <2>2. key[c] \in Keys /\ <<c, calls[c]>> \in Values
    BY <2>1 DEF Values
  <2>3. meta' = "partial" => \E d \in Clients : pc'[d] \in {"fill_meta", "dead"}
    BY <2>1
  <2>4. ASSUME NEW k \in Keys, entry'[k] = Partial
        PROVE  \E d \in Clients : key'[d] = k /\ linked'[d] /\ pc'[d] \in {"fill", "dead"}
    <3>1. entry[k] = Partial /\ (linked[c] => k # key[c])
      BY <2>1, <2>2, <2>4
    <3>2. PICK d \in Clients : key[d] = k /\ linked[d] /\ pc[d] \in {"fill", "dead"}
      BY <3>1
    <3>3. d # c
      BY <3>1, <3>2
    <3> QED BY <2>1, <3>2, <3>3
  <2> QED BY <2>3, <2>4
<1>6. CASE CheckEntry(c)
  BY <1>6 DEF CheckEntry
<1>7. CASE ReadEntry(c)
  BY <1>7 DEF ReadEntry
<1> QED BY <1>1, <1>2, <1>3, <1>4, <1>5, <1>6, <1>7, <1>8, <1>9 DEF ClientStep

LEMMA RebuildKeepsPartialOwned ==
  ASSUME IInv, NEW o \in Operators, RebuildStep(o)
  PROVE  PartialOwned'
<1> USE StoreAssumption DEF IInv, TypeOK, StoreAssumption, storeVars, clientVars,
        WalkGoto, PartialOwned
<1>1. CASE UnlinkFile(o)
  BY <1>1 DEF UnlinkFile, WalkOK
<1>2. ASSUME UNCHANGED <<meta, entry, clientVars>> PROVE PartialOwned'
  BY <1>2
<1> QED BY <1>1, <1>2 DEF RebuildStep, ListShards, EnterShard, SkipShard, ListFiles,
       ListFails, CheckFile, UnlinkFails, KeepShard, RemoveShard, RemoveFails,
       EndRebuild

LEMMA ClientKeepsOwed ==
  ASSUME IInv, NEW c \in Clients, ClientStep(c)
  PROVE  OwedOK'
<1> USE StoreAssumption DEF IInv, TypeOK, StoreAssumption, OwedOK, KeepsAcknowledged,
        Rebuilding
<1>1. CASE OpenEntry(c)
  BY <1>1 DEF OpenEntry, rebuildVars
<1>2. CASE FillEntry(c)
  <2>1. /\ pc[c] = "fill" /\ key[c] \in Keys /\ rpc' = rpc
        /\ entry' = IF linked[c] THEN [entry EXCEPT ![key[c]] = <<c, calls[c]>>]
                               ELSE entry
        /\ owed' = IF Rebuilding \/ ~linked[c] THEN owed
                  ELSE owed \cup {<<key[c], <<c, calls[c]>>>>}
    BY <1>2 DEF FillEntry, Return, Goto, WritersOK, rebuildVars
  <2>2. Rebuilding' => owed' = {}
    BY <2>1
  <2>3. ASSUME NEW w \in owed', w \in owed PROVE entry'[w[1]] = w[2]
    <3>1. w[1] \in Keys /\ w[2] # Partial /\ entry[w[1]] = w[2]
      BY <2>3
    <3>2. linked[c] => w[1] # key[c]
      BY <2>1, <3>1 DEF WritersOK
    <3> QED BY <2>1, <3>1, <3>2
  <2>4. ASSUME NEW w \in owed', w \notin owed PROVE entry'[w[1]] = w[2]
    BY <2>1, <2>4
  <2> QED BY <2>2, <2>3, <2>4
<1>3. ASSUME UNCHANGED <<entry, owed, rpc>> PROVE OwedOK'
  BY <1>3
<1> QED BY <1>1, <1>2, <1>3 DEF ClientStep, MakeDirs, CheckMeta, LoadMeta, TruncateMeta,
       FillMeta, MakeShard, OpenFails, CheckEntry, ReadEntry, Crash, storeVars, rebuildVars

LEMMA RebuildKeepsOwed ==
  ASSUME IInv, NEW o \in Operators, RebuildStep(o)
  PROVE  OwedOK'
<1> USE StoreAssumption DEF IInv, TypeOK, StoreAssumption, OwedOK, KeepsAcknowledged,
        Rebuilding, WalkGoto
<1>1. CASE ListShards(o)
  BY <1>1 DEF ListShards
<1>2. ASSUME RebuildStep(o), ~ListShards(o)
      PROVE  owed' = owed /\ owed = {}
  BY <1>2 DEF RebuildStep, EnterShard, SkipShard, ListFiles, ListFails, CheckFile,
     UnlinkFile, UnlinkFails, KeepShard, RemoveShard, RemoveFails, EndRebuild
<1> QED BY <1>1, <1>2

LEMMA ClientKeepsNoSurprise ==
  ASSUME IInv, NEW c \in Clients, ClientStep(c)
  PROVE  NoRebuildNoSurprise'
<1> USE StoreAssumption DEF IInv, TypeOK, StoreAssumption, storeVars, rebuildVars,
        Goto, Report, Return, NoRebuildNoSurprise, Present
<1>1. CASE MakeDirs(c) \/ CheckMeta(c) \/ LoadMeta(c) \/ TruncateMeta(c)
             \/ FillMeta(c) \/ Crash(c)
  BY <1>1 DEF MakeDirs, CheckMeta, LoadMeta, TruncateMeta, FillMeta, Crash
<1>2. CASE MakeShard(c)
  BY <1>2 DEF MakeShard
<1>3. CASE OpenEntry(c)
  BY <1>3 DEF OpenEntry
<1>4. CASE OpenFails(c)
  BY <1>4 DEF OpenFails
<1>5. CASE FillEntry(c)
  <2>1. /\ pc' = [pc EXCEPT ![c] = "ready"] /\ pc[c] = "fill"
        /\ key' = [key EXCEPT ![c] = Absent]
        /\ result' = [result EXCEPT ![c] = "ok"]
        /\ entry' = IF linked[c] THEN [entry EXCEPT ![key[c]] = <<c, calls[c]>>]
                               ELSE entry
        /\ UNCHANGED <<rpc, shard>>
    BY <1>5 DEF FillEntry
  <2>2. <<c, calls[c]>> # Absent
    <3>1. calls[c] \in 1..MaxCalls
      BY <2>1 DEF WritersOK, Writing
    <3> QED BY <3>1 DEF Values
  <2>3. \A k \in Keys : entry[k] # Absent => entry'[k] # Absent
    BY <2>1, <2>2
  <2>4. \A d \in Clients : pc[d] = "reading" => key[d] \in Keys
    BY DEF WritersOK
  <2> QED BY <2>1, <2>3, <2>4
<1>6. CASE CheckEntry(c)
  <2>1. PICK k \in Keys :
          IF Present(k)
          THEN /\ Goto(c, "ready", "reading")
               /\ key' = [key EXCEPT ![c] = k]
               /\ UNCHANGED <<linked, result>>
          ELSE Return(c, "ready", "miss")
    BY <1>6 DEF CheckEntry
  <2>2. UNCHANGED <<storeVars, rebuildVars>>
    BY <1>6 DEF CheckEntry
  <2>3. CASE Present(k)
    BY <2>1, <2>2, <2>3
  <2>4. CASE ~Present(k)
    BY <2>1, <2>2, <2>4
  <2> QED BY <2>3, <2>4
<1>7. CASE ReadEntry(c)
  BY <1>7 DEF ReadEntry
<1> QED BY <1>1, <1>2, <1>3, <1>4, <1>5, <1>6, <1>7 DEF ClientStep

LEMMA RebuildKeepsNoSurprise ==
  ASSUME IInv, NEW o \in Operators, RebuildStep(o)
  PROVE  NoRebuildNoSurprise'
<1>1. rpc'[o] # "idle"
  BY DEF IInv, TypeOK, RebuildStep, WalkGoto, ListShards, EnterShard, SkipShard,
     ListFiles, ListFails, CheckFile, UnlinkFile, UnlinkFails, KeepShard,
     RemoveShard, RemoveFails, EndRebuild
<1> QED BY <1>1 DEF NoRebuildNoSurprise

\* A client step writes at most one content, the one of its own call, which no
\* file and no rebuild has seen; everything else on disk stays or goes.
LEMMA ClientWritesNews ==
  ASSUME IInv, NEW c \in Clients, ClientStep(c)
  PROVE  /\ UNCHANGED <<rpc, todo, at, files, file, found>>
         /\ \A v \in Values : Past(v) => Past(v)'
         /\ \A k \in Keys : \A v \in Values :
              entry'[k] = v /\ entry[k] # v => ~Past(v) /\ Past(v)'
<1> USE StoreAssumption DEF IInv, TypeOK, StoreAssumption, Goto, Return
<1>1. UNCHANGED <<rpc, todo, at, files, file, found>>
  BY DEF ClientStep, MakeDirs, CheckMeta, LoadMeta, TruncateMeta, FillMeta, MakeShard,
     OpenEntry, OpenFails, FillEntry, CheckEntry, ReadEntry, Crash, rebuildVars
<1>2. /\ \A d \in Clients \ {c} : pc'[d] = pc[d] /\ calls'[d] = calls[d]
      /\ calls'[c] \in {calls[c], calls[c] + 1}
      /\ calls'[c] = calls[c] => (Writing(c)' => Writing(c))
  <2>1. CASE CheckEntry(c) \/ MakeShard(c)
    BY <2>1 DEF CheckEntry, MakeShard
  <2>2. CASE ~(CheckEntry(c) \/ MakeShard(c))
    BY <2>2 DEF ClientStep, MakeDirs, CheckMeta, LoadMeta, TruncateMeta, FillMeta,
       OpenEntry, OpenFails, FillEntry, ReadEntry, Crash, Writing
  <2> QED BY <2>1, <2>2
<1>3. ASSUME NEW v \in Values, Past(v) PROVE Past(v)'
  <2>1. v[1] \in Clients /\ v[2] \in Nat /\ calls[v[1]] \in Nat
    BY DEF Values
  <2>2. CASE v[1] = c
    BY <1>2, <1>3, <2>1, <2>2 DEF Past
  <2>3. CASE v[1] # c
    BY <1>2, <1>3, <2>1, <2>3 DEF Past, Writing
  <2> QED BY <2>2, <2>3
<1>4. ASSUME NEW k \in Keys, NEW v \in Values, entry'[k] = v, entry[k] # v
      PROVE  ~Past(v) /\ Past(v)'
  <2>1. FillEntry(c) /\ v = <<c, calls[c]>>
    <3>1. CASE FillEntry(c)
      BY <1>4, <3>1 DEF FillEntry, WritersOK
    <3>2. CASE OpenEntry(c)
      BY <1>4, <3>2 DEF OpenEntry
    <3>3. CASE ~FillEntry(c) /\ ~OpenEntry(c)
      BY <1>4, <3>3 DEF ClientStep, MakeDirs, CheckMeta, LoadMeta, TruncateMeta,
         FillMeta, MakeShard, OpenFails, CheckEntry, ReadEntry, Crash, storeVars
    <3> QED BY <3>1, <3>2, <3>3
  <2>2. /\ pc[c] = "fill" /\ pc'[c] = "ready" /\ calls' = calls
        /\ calls[c] \in Nat /\ v[1] = c /\ v[2] = calls[c]
    BY <2>1 DEF FillEntry
  <2> QED BY <2>2 DEF Past, Writing
<1> QED BY <1>1, <1>3, <1>4

LEMMA ClientKeepsClearing ==
  ASSUME IInv, NEW c \in Clients, ClientStep(c), TypeOK'
  PROVE  Fresh' /\ Clearing'
<1>1. ASSUME NEW k \in Keys, NEW v \in Values, entry'[k] = v
      PROVE  Past(v)'
  <2>1. CASE entry[k] = v
    BY <2>1, ClientWritesNews DEF IInv, Fresh
  <2>2. CASE entry[k] # v
    BY <1>1, <2>2, ClientWritesNews
  <2> QED BY <2>1, <2>2
<1>2. ASSUME NEW o \in Operators, NEW w \in found'[o]
      PROVE  /\ w \in found[o] /\ Past(w[2]) /\ Past(w[2])'
             /\ w[1] \in Keys /\ w[2] \in Values
  <2>1. w \in found[o]
    BY ClientWritesNews
  <2>2. w \in Keys \X Values
    BY <2>1 DEF IInv, TypeOK
  <2>3. w[1] \in Keys /\ w[2] \in Values
    BY <2>2
  <2> QED BY <2>1, <2>3, ClientWritesNews DEF IInv, Fresh
<1>3. Fresh'
  BY <1>1, <1>2 DEF Fresh
<1>4. ASSUME NEW o \in Operators, NEW w \in found'[o], entry'[w[1]] = w[2]
      PROVE  Pending(o, w[1])'
  <2>1. entry[w[1]] = w[2]
    BY <1>2, <1>4, ClientWritesNews
  <2>2. Pending(o, w[1])
    BY <1>2, <2>1 DEF IInv, Clearing
  <2> QED BY <2>2, ClientWritesNews DEF Pending
<1>5. Clearing'
  BY <1>4 DEF Clearing
<1> QED BY <1>3, <1>5

\* A rebuild writes nothing.
LEMMA RebuildWritesNothing ==
  ASSUME IInv, NEW o \in Operators, RebuildStep(o)
  PROVE  /\ UNCHANGED <<pc, calls>>
         /\ \A k \in Keys : entry'[k] \in Values => entry'[k] = entry[k]
         /\ \A p \in Operators \ {o} :
              /\ found'[p] = found[p] /\ rpc'[p] = rpc[p] /\ todo'[p] = todo[p]
              /\ at'[p] = at[p] /\ files'[p] = files[p] /\ file'[p] = file[p]
         /\ found'[o] = IF rpc[o] = "idle" THEN Contents ELSE found[o]
<1> USE StoreAssumption DEF IInv, TypeOK, StoreAssumption, WalkGoto
<1>1. CASE UnlinkFile(o)
  BY <1>1 DEF UnlinkFile
<1>2. CASE ListShards(o)
  BY <1>2 DEF ListShards, storeVars, clientVars
<1>3. CASE EnterShard(o) \/ SkipShard(o)
  BY <1>3 DEF EnterShard, SkipShard, storeVars, clientVars
<1>4. CASE ListFiles(o) \/ ListFails(o)
  BY <1>4 DEF ListFiles, ListFails, storeVars, clientVars
<1>5. CASE CheckFile(o)
  BY <1>5 DEF CheckFile, storeVars, clientVars
<1>6. CASE UnlinkFails(o) \/ KeepShard(o) \/ RemoveShard(o) \/ RemoveFails(o)
             \/ EndRebuild(o)
  BY <1>6 DEF UnlinkFails, KeepShard, RemoveShard, RemoveFails, EndRebuild, storeVars,
     clientVars
<1> QED BY <1>1, <1>2, <1>3, <1>4, <1>5, <1>6 DEF RebuildStep

LEMMA RebuildKeepsPending ==
  ASSUME IInv, NEW o \in Operators, RebuildStep(o), rpc[o] # "idle",
         NEW k \in Keys, entry'[k] \in Values, Pending(o, k)
  PROVE  Pending(o, k)'
<1> USE StoreAssumption DEF IInv, TypeOK, StoreAssumption, WalkGoto, Pending, Nested,
        Present, storeVars, clientVars
<1>1. CASE EnterShard(o)
  BY <1>1 DEF EnterShard
<1>2. CASE SkipShard(o)
  BY <1>2 DEF SkipShard
<1>3. CASE ListFiles(o)
  BY <1>3 DEF ListFiles, KeysIn
<1>4. CASE CheckFile(o)
  BY <1>4 DEF CheckFile
<1>5. CASE UnlinkFile(o)
  BY <1>5 DEF UnlinkFile
<1>6. CASE ListFails(o) \/ UnlinkFails(o) \/ RemoveFails(o)
  BY <1>6 DEF ListFails, UnlinkFails, RemoveFails
<1>7. CASE KeepShard(o) \/ RemoveShard(o) \/ EndRebuild(o)
  BY <1>7 DEF KeepShard, RemoveShard, EndRebuild
<1> QED BY <1>1, <1>2, <1>3, <1>4, <1>5, <1>6, <1>7 DEF RebuildStep, ListShards

\* What is there when a rebuild begins is in the shards it is going to visit.
LEMMA ListedIsPending ==
  ASSUME IInv, NEW o \in Operators, ListShards(o), NEW w \in Contents
  PROVE  Pending(o, w[1])'
<1>1. w[1] \in Keys /\ Present(w[1])
  BY StoreAssumption DEF Contents, Present, StoreAssumption
<1>2. ShardOf[w[1]] \in Shards /\ shard[ShardOf[w[1]]] /\ entriesDir
  BY <1>1, StoreAssumption DEF IInv, Nested, StoreAssumption
<1> QED BY <1>2 DEF ListShards, WalkGoto, IInv, TypeOK, Pending

LEMMA RebuildKeepsClearing ==
  ASSUME IInv, NEW o \in Operators, RebuildStep(o), TypeOK'
  PROVE  Fresh' /\ Clearing'
<1>1. \A v \in Values : Past(v)' <=> Past(v)
  BY RebuildWritesNothing DEF Past, Writing
<1>2. \A w \in Contents : w[1] \in Keys /\ w[2] \in Values /\ entry[w[1]] = w[2]
  BY DEF Contents
<1>3. Fresh'
  <2>1. ASSUME NEW k \in Keys, NEW v \in Values, entry'[k] = v PROVE Past(v)'
    BY <1>1, <2>1, RebuildWritesNothing DEF IInv, Fresh
  <2>2. ASSUME NEW p \in Operators, NEW w \in found'[p] PROVE Past(w[2])'
    <3>1. w[2] \in Values
      BY DEF TypeOK
    <3>2. Past(w[2])
      <4>1. CASE w \in found[p]
        BY <4>1 DEF IInv, Fresh
      <4>2. CASE w \notin found[p]
        <5>1. w \in Contents
          BY <4>2, RebuildWritesNothing
        <5> QED BY <1>2, <5>1 DEF IInv, Fresh
      <4> QED BY <4>1, <4>2
    <3> QED BY <1>1, <3>1, <3>2
  <2> QED BY <2>1, <2>2 DEF Fresh
<1>4. ASSUME NEW p \in Operators, NEW w \in found'[p], entry'[w[1]] = w[2]
      PROVE  Pending(p, w[1])'
  <2>1. w[1] \in Keys /\ w[2] \in Values
    BY DEF TypeOK
  <2>2. entry[w[1]] = w[2]
    BY <1>4, <2>1, RebuildWritesNothing
  <2>3. CASE p # o
    <3>1. Pending(p, w[1])
      BY <2>2, <2>3, RebuildWritesNothing DEF IInv, Clearing
    <3> QED BY <2>3, <3>1, RebuildWritesNothing DEF Pending
  <2>4. CASE p = o /\ rpc[o] = "idle"
    <3>1. ListShards(o) /\ w \in Contents
      BY <2>4, RebuildWritesNothing DEF RebuildStep, WalkGoto, EnterShard, SkipShard,
         ListFiles, ListFails, CheckFile, UnlinkFile, UnlinkFails, KeepShard,
         RemoveShard, RemoveFails, EndRebuild
    <3> QED BY <2>4, <3>1, ListedIsPending
  <2>5. CASE p = o /\ rpc[o] # "idle"
    <3>1. Pending(o, w[1])
      BY <2>2, <2>5, RebuildWritesNothing DEF IInv, Clearing
    <3> QED BY <1>4, <2>1, <2>5, <3>1, RebuildKeepsPending
  <2> QED BY <2>3, <2>4, <2>5
<1>5. Clearing'
  BY <1>4 DEF Clearing
<1> QED BY <1>3, <1>5

-----------------------------------------------------------------------------
LEMMA StepPreserves ==
  IInv /\ [Next]_vars => IInv'
<1> SUFFICES ASSUME IInv, [Next]_vars PROVE IInv'
  OBVIOUS
<1>1. ASSUME NEW c \in Clients, ClientStep(c) PROVE IInv'
  BY <1>1, ClientKeepsType, ClientKeepsLocals, ClientKeepsPartialOwned,
     ClientKeepsOwed, ClientKeepsNoSurprise, ClientKeepsClearing DEF IInv
<1>2. ASSUME NEW o \in Operators, RebuildStep(o) PROVE IInv'
  BY <1>2, RebuildKeepsType, RebuildKeepsLocals, RebuildKeepsPartialOwned,
     RebuildKeepsOwed, RebuildKeepsNoSurprise, RebuildKeepsClearing DEF IInv
<1>3. CASE UNCHANGED vars
  BY <1>3 DEF vars, IInv, TypeOK, Nested, WritersOK, PartialOwned, OwedOK,
     KeepsAcknowledged, Rebuilding, NoRebuildNoSurprise, Fresh, Past, WalkOK,
     Clearing, Pending, Present, Writing
<1> QED BY <1>1, <1>2, <1>3 DEF Next

LEMMA StoreInvariant == Spec => []IInv
BY InitEstablishes, StepPreserves, PTL DEF Spec

-----------------------------------------------------------------------------
(* Theorems                                                                *)

\* The files, the control states and the locals keep their types.
THEOREM TypeCorrect == Spec => []TypeOK
BY StoreInvariant, PTL DEF IInv

\* Only a client that is writing, or was killed while it did, leaves a file that
\* does not parse: reads, completed writes and rebuilds never do.
THEOREM PartialsHaveWriters == Spec => []PartialMeansWriter
<1>1. IInv => PartialMeansWriter
  BY DEF IInv, PartialOwned, PartialMeansWriter
<1> QED BY <1>1, StoreInvariant, PTL

\* A write that has returned is kept until its key is written again or a rebuild
\* begins.
THEOREM AcknowledgedIsKept == Spec => []KeepsAcknowledged
<1>1. IInv => KeepsAcknowledged
  BY DEF IInv, OwedOK
<1> QED BY <1>1, StoreInvariant, PTL

\* A rebuild that succeeds has removed all that it found, whoever writes and
\* whoever else rebuilds at the same time.
THEOREM RebuildsClear == Spec => []RebuildClears
<1>1. IInv => RebuildClears
  <2> SUFFICES ASSUME IInv, NEW o \in Operators, rpc[o] = "done",
                      NEW w \in found[o] \cap Contents
               PROVE  FALSE
    BY DEF RebuildClears
  <2>1. entry[w[1]] = w[2]
    BY DEF Contents
  <2>2. Pending(o, w[1])
    BY <2>1 DEF IInv, Clearing
  <2> QED BY <2>2 DEF Pending
<1> QED BY <1>1, StoreInvariant, PTL

\* A caller of the storage meets a bare OSError only on account of a rebuild.
THEOREM OsErrorsNeedRebuild == Spec => []OsErrorMeansRebuild
<1>1. IInv => OsErrorMeansRebuild
  BY DEF IInv, NoRebuildNoSurprise, OsErrorMeansRebuild
<1> QED BY <1>1, StoreInvariant, PTL

=============================================================================
