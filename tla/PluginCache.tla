---------------------------- MODULE PluginCache ----------------------------
(***************************************************************************)
(* AgentPluginManager: plugins of clients are copied to directories of the *)
(* host, under a cache of nonces with an LRU order and a file that keeps   *)
(* it across restarts.  One call of syncCustomizations runs a task per     *)
(* plugin; the tasks run side by side, from one file operation to the      *)
(* next.  PluginController chains the calls, so there is one at a time.    *)
(*                                                                         *)
(* A plugin's content is a version number, which is also its nonce.  0 is  *)
(* no version: no nonce, or no usable directory.                           *)
(***************************************************************************)
EXTENDS Naturals, Sequences, SequencesExt, Subsequences

CONSTANTS
  PluginUri,    \* plugins
  Unversioned,  \* plugins whose client gives no nonce
  MaxPlugins,   \* _maxPlugins
  MaxVersion,   \* bound: versions of a plugin
  NoTask, NoUri

ASSUME CacheAssumption ==
  /\ Unversioned \subseteq PluginUri /\ NoUri \notin PluginUri
  /\ MaxPlugins \in Nat \ {0} /\ MaxVersion \in Nat \ {0}

VARIABLES
  version,    \* what the client has of each plugin
  nonces,     \* _cachedNonces
  lru,        \* _lruOrder, oldest first
  loaded,     \* _cacheLoaded
  tasks,      \* tasks of the call under way, by plugin
  dirs,       \* disk: content of each plugin's directory
  cacheFile,  \* disk: entries of cache.json, oldest first
  doubtful    \* history: plugins whose nonce in the cache may be wrong, see below

cacheVars == <<version, nonces, lru, loaded, tasks, dirs, cacheFile, doubtful>>

-----------------------------------------------------------------------------
Versions == 0 .. MaxVersion

Entry == [uri : PluginUri, nonce : Versions \ {0}]

\* A task has yet to begin, copies the directory, computes its hash, deletes the
\* directory of a plugin it evicts, or writes the cache file.
Task == [nonce : Versions, at : {"begin", "copy", "hash", "evict", "persist",
                                 "done", "failed"},
         victim : PluginUri \cup {NoUri}, snapshot : Seq(Entry)]

ASSUME NoTaskIsNone == NoTask \notin Task

CacheTypeOK ==
  /\ version \in [PluginUri -> Versions \ {0}]
  /\ nonces \in [PluginUri -> Versions]
  /\ lru \in Seq(PluginUri)
  /\ loaded \in BOOLEAN
  /\ tasks \in [PluginUri -> Task \cup {NoTask}]
  /\ \A u \in PluginUri :
       tasks[u] # NoTask /\ tasks[u].at = "evict" => tasks[u].victim \in PluginUri
  /\ dirs \in [PluginUri -> Versions]
  /\ cacheFile \in Seq(Entry)
  /\ doubtful \in SUBSET PluginUri

CacheInit ==
  /\ version = [u \in PluginUri |-> 1]
  /\ nonces = [u \in PluginUri |-> 0] /\ lru = <<>> /\ loaded = FALSE
  /\ tasks = [u \in PluginUri |-> NoTask]
  /\ dirs = [u \in PluginUri |-> 0] /\ cacheFile = <<>> /\ doubtful = {}

-----------------------------------------------------------------------------
(* Helpers.                                                                *)

InCall == {u \in PluginUri : tasks[u] # NoTask}

TaskAt(u, at) == u \in InCall /\ tasks[u].at = at

\* Broken variant: does not look for the plugin in the list.
TouchedAgain(order, u) == Append(order, u)

\* _touchLru
Touched(order, u) == Append(Within(order, PluginUri \ {u}), u)

\* Broken variant: plugins without a nonce are written, too.
SnapshotOfAll(order, known) ==
  [i \in DOMAIN order |-> [uri |-> order[i], nonce |-> known[order[i]]]]

\* What _persistCache writes: plugins without a nonce are left out.
Snapshot(order, known) ==
  LET named == Within(order, {u \in PluginUri : known[u] # 0})
  IN [i \in DOMAIN named |-> [uri |-> named[i], nonce |-> known[named[i]]]]

\* Broken variant: the nonce of an evicted plugin is kept.
EvictKeepingNonce(u, order, known) ==
  IF Len(order) > MaxPlugins
  THEN /\ lru' = Tail(order)
       /\ nonces' = known
       /\ tasks' = [tasks EXCEPT ![u].at = "evict", ![u].victim = Head(order)]
       /\ doubtful' = doubtful \cup ({Head(order)} \cap InCall)
  ELSE /\ lru' = order
       /\ UNCHANGED doubtful
       /\ nonces' = known
       /\ tasks' = [tasks EXCEPT ![u].at = "persist", ![u].victim = NoUri,
                                 ![u].snapshot = Snapshot(order, known)]

\* _evictIfNeeded up to its next await, and _persistCache once there is nothing to
\* evict any more.  Nobody asks whether the same call also syncs the plugin that is
\* evicted: its directory may be deleted after its copy.
EvictOrPersist(u, order, known) ==
  IF Len(order) > MaxPlugins
  THEN LET v == Head(order)
       IN /\ lru' = Tail(order)
          /\ nonces' = [known EXCEPT ![v] = 0]
          /\ tasks' = [tasks EXCEPT ![u].at = "evict", ![u].victim = v]
          /\ doubtful' = doubtful \cup ({v} \cap InCall)
  ELSE /\ lru' = order
       /\ UNCHANGED doubtful
       /\ nonces' = known
       /\ tasks' = [tasks EXCEPT ![u].at = "persist", ![u].victim = NoUri,
                                 ![u].snapshot = Snapshot(order, known)]

MoveTo(u, at) == tasks' = [tasks EXCEPT ![u].at = at]

\* The order and the nonces that the cache file says.
OrderIn(file) == [i \in DOMAIN file |-> file[i].uri]

NoncesIn(file) ==
  [u \in PluginUri |-> IF u \in ToSet(OrderIn(file))
                       THEN (CHOOSE e \in ToSet(file) : e.uri = u).nonce ELSE 0]

\* The cache as _ensureCacheLoaded leaves it: as it is, as the file says, or empty
\* if the file cannot be read.
Loaded ==
  IF loaded THEN {[order |-> lru, known |-> nonces]}
  ELSE {[order |-> OrderIn(file), known |-> NoncesIn(file)] : file \in {cacheFile, <<>>}}

-----------------------------------------------------------------------------
(* The client.                                                             *)

\* The client changes a plugin.  Nonces are hashes of the content: one that returns to
\* an earlier content may find its old nonce, after a copy or a hash that failed.
ClientEdits ==
  \E u \in PluginUri, v \in Versions \ {0} :
    /\ v # version[u]
    /\ version' = [version EXCEPT ![u] = v]
    /\ doubtful' = IF v < version[u] THEN doubtful \cup {u} ELSE doubtful
    /\ UNCHANGED <<nonces, lru, loaded, tasks, dirs, cacheFile>>

SyncCustomizations ==
  /\ InCall = {}
  /\ \E cache \in Loaded, refs \in (SUBSET PluginUri) \ {{}} :
       /\ lru' = cache.order /\ nonces' = cache.known /\ loaded' = TRUE
       /\ tasks' = [u \in PluginUri |->
            IF u \notin refs THEN NoTask
            ELSE [nonce |-> IF u \in Unversioned THEN 0 ELSE version[u],
                  at |-> "begin", victim |-> NoUri, snapshot |-> <<>>]]
  /\ UNCHANGED <<version, dirs, cacheFile, doubtful>>

\* _syncPlugin up to its first await: the cached copy is used or a copy begins.
SyncPlugin(u) ==
  /\ TaskAt(u, "begin")
  /\ IF tasks[u].nonce # 0 /\ nonces[u] = tasks[u].nonce
     THEN lru' = Touched(lru, u) /\ MoveTo(u, "done")
     ELSE MoveTo(u, "copy") /\ UNCHANGED lru
  /\ UNCHANGED <<version, nonces, loaded, dirs, cacheFile, doubtful>>

\* The copy brings what the client has by now.
Copied(u) ==
  /\ TaskAt(u, "copy")
  /\ dirs' = [dirs EXCEPT ![u] = version[u]]
  /\ MoveTo(u, "hash")
  /\ UNCHANGED <<version, nonces, lru, loaded, cacheFile, doubtful>>

\* An overwriting copy first deletes its target; it may fail before or after.
CopyFailed(u) ==
  /\ TaskAt(u, "copy")
  /\ \E d \in {0, dirs[u]} : dirs' = [dirs EXCEPT ![u] = d]
  /\ MoveTo(u, "failed")
  /\ UNCHANGED <<version, nonces, lru, loaded, cacheFile, doubtful>>

Hashed(u) ==
  /\ TaskAt(u, "hash")
  /\ EvictOrPersist(u, Touched(lru, u),
       IF tasks[u].nonce = 0 THEN nonces ELSE [nonces EXCEPT ![u] = tasks[u].nonce])
  /\ UNCHANGED <<version, loaded, dirs, cacheFile>>

HashFailed(u) ==
  /\ TaskAt(u, "hash")
  /\ MoveTo(u, "failed")
  /\ UNCHANGED <<version, nonces, lru, loaded, dirs, cacheFile, doubtful>>

\* The directory of the victim has been deleted, or could not be.
Evicted(u) ==
  /\ TaskAt(u, "evict")
  /\ \E d \in {0, dirs[tasks[u].victim]} : dirs' = [dirs EXCEPT ![tasks[u].victim] = d]
  /\ EvictOrPersist(u, lru, nonces)
  /\ UNCHANGED <<version, loaded, cacheFile>>

\* The file has been written, or could not be.
Persisted(u) ==
  /\ TaskAt(u, "persist")
  /\ cacheFile' \in {tasks[u].snapshot, cacheFile}
  /\ tasks' = [tasks EXCEPT ![u].at = "done", ![u].snapshot = <<>>]
  /\ UNCHANGED <<version, nonces, lru, loaded, dirs, doubtful>>

\* syncCustomizations returns the directories once all tasks are over.
SyncReturns ==
  /\ InCall # {}
  /\ \A u \in InCall : tasks[u].at \in {"done", "failed"}
  /\ tasks' = [u \in PluginUri |-> NoTask]
  /\ UNCHANGED <<version, nonces, lru, loaded, dirs, cacheFile, doubtful>>

\* The process ends and is started again, possibly in the middle of a copy or of a
\* write.  The file may list a plugin that has been evicted since, or that the cache
\* does not know because the file could not be read: its directory may be gone.
Restart ==
  /\ loaded
  /\ nonces' = [u \in PluginUri |-> 0] /\ lru' = <<>> /\ loaded' = FALSE
  /\ tasks' = [u \in PluginUri |-> NoTask]
  /\ \E lost \in SUBSET {u \in PluginUri : TaskAt(u, "copy")} :
       dirs' = [u \in PluginUri |-> IF u \in lost THEN 0 ELSE dirs[u]]
  /\ cacheFile' \in {cacheFile} \cup
       {tasks[u].snapshot : u \in {w \in PluginUri : TaskAt(w, "persist")}}
  /\ doubtful' = doubtful \cup (ToSet(OrderIn(cacheFile')) \ ToSet(lru))
  /\ UNCHANGED version

TaskStep(u) ==
  \/ SyncPlugin(u) \/ Copied(u) \/ CopyFailed(u) \/ Hashed(u) \/ HashFailed(u)
  \/ Evicted(u) \/ Persisted(u)

CacheNext ==
  \/ ClientEdits \/ SyncCustomizations \/ SyncReturns \/ Restart
  \/ \E u \in PluginUri : TaskStep(u)

CacheSpec == CacheInit /\ [][CacheNext]_cacheVars

-----------------------------------------------------------------------------
\* A directory that a sync hands out holds the plugin, in the version asked for or a
\* later one, whether it was just copied or taken from the cache of an earlier run
\* of the process, unless one of three things has ever happened to that plugin: its
\* content went back to an earlier one, it was evicted by a call that syncs it, too,
\* or the process ended while the file listed it and the cache did not.  Short of
\* these, no copy, hash, deletion or write that fails or is cut off by a restart
\* leaves a nonce that vouches for content which is not there.
SyncedIsOnDisk ==
  \A u \in PluginUri \ doubtful :
    TaskAt(u, "done") => dirs[u] # 0 /\ dirs[u] >= tasks[u].nonce

\* Between calls the cache holds at most MaxPlugins plugins; at any time it lists
\* each once and knows nonces of listed plugins only, so that every plugin it may
\* skip the copy of is one it will evict in the end.
CacheBounded ==
  /\ InCall = {} => Len(lru) <= MaxPlugins
  /\ IsInjective(lru)
  /\ \A u \in PluginUri : nonces[u] # 0 => Contains(lru, u)
=============================================================================
