------------------------------- MODULE Bm25Cache -------------------------------
(***************************************************************************)
(* The keyword index of vector.py: every process that opens a VectorStore  *)
(* keeps the BM25 index in memory; on disk it is one pickle and a version  *)
(* number in a second file, by which a searching process notices that      *)
(* another one has rebuilt the index.                                      *)
(*                                                                         *)
(* The chunks in Chroma are reduced to a number that grows with every      *)
(* ingest, an index to the number of the chunks it was built from.  A file *)
(* that is being written is Torn: pickle.load raises.                      *)
(*                                                                         *)
(* Three kinds of process open the store.  Workers (the deferred-ingest    *)
(* worker, `wwt ingest`, the gateway's ingest) initialize it and ingest    *)
(* under the write lock.  Servers (the MCP server, the gateway's searches, *)
(* `wwt search`) initialize it without the lock; they search, and ingest   *)
(* under the lock.  Setups (`wwt setup`, `wwt init`) never take the lock.  *)
(***************************************************************************)
EXTENDS Naturals

CONSTANTS
    Workers, Servers, Setups,
    Nobody,        \* the owner of the free write lock
    Absent,        \* there is no such file
    Torn,          \* a file whose content cannot be loaded
    Killable,      \* processes that may die at any point
    MaxContent,    \* bound: how often chunks are ingested
    MaxVersion     \* bound: the version up to which work is started

Processes == Workers \cup Servers \cup Setups

ASSUME KindsAssumption ==
    /\ Workers \cap Servers = {} /\ Workers \cap Setups = {}
    /\ Servers \cap Setups = {}
    /\ Nobody \notin Processes
ASSUME FilesAssumption == Absent \notin Nat /\ Torn \notin Nat /\ Absent # Torn
ASSUME BoundsAssumption == MaxContent \in Nat /\ MaxVersion \in Nat

VARIABLES
    chroma,      \* the chunks stored in Chroma
    index,       \* index.pkl
    tmp,         \* index.tmp, shared by every process that persists
    version,     \* version.txt, 0 if there is none
    versionTmp,  \* version.tmp, shared as well
    writeLock,   \* owner of wwt.lock
    pc,          \* where each process is
    opened,      \* opened[p]: initialize() has returned
    built,       \* built[p]: the index p has built and persists
    handle,      \* handle[p]: which file p has open for writing
    next,        \* next[p]: the version p is about to write
    cache,       \* cache[p]: the index in memory (_bm25, _bm25_ids, ...)
    seen,        \* seen[p]: _bm25_version_seen
    raced,       \* history: seen[p] says nothing of the index p holds: it was
                 \* replaced while p loaded it, p failed to publish it, or a
                 \* version was published since while a process without the
                 \* lock took part
    unfinished,  \* history: chunks were stored and then not indexed, because
                 \* a step failed or because a setup had no Codex logs
    interfered   \* history: a process without the lock wrote chunks or index

fileVars == <<index, tmp, version, versionTmp>>
memoryVars == <<cache, seen, raced>>
workVars == <<built, handle, next>>
historyVars == <<unfinished, interfered>>
vars == <<chroma, fileVars, writeLock, pc, opened, workVars, memoryVars,
          historyVars>>

-----------------------------------------------------------------------------
File == Nat \cup {Absent, Torn}

(* Where the chunks are ahead of the index, or the index is being written. *)
Persisting == {"building", "opening", "dumping", "renaming", "numbering",
               "versioning", "publishing"}

Pc == Persisting \cup {"off", "loading", "loaded", "ready", "reloading",
                       "scoring", "ingesting"}

TypeOK ==
    /\ chroma \in Nat
    /\ index \in File
    /\ tmp \in File
    /\ version \in Nat
    /\ versionTmp \in Nat \cup {Absent}
    /\ writeLock \in Processes \cup {Nobody}
    /\ pc \in [Processes -> Pc]
    /\ opened \in [Processes -> BOOLEAN]
    /\ built \in [Processes -> Nat]
    /\ handle \in [Processes -> {"none", "tmp", "index", "unlinked"}]
    /\ next \in [Processes -> Nat]
    /\ cache \in [Processes -> Nat]
    /\ seen \in [Processes -> Nat]
    /\ raced \in [Processes -> BOOLEAN]
    /\ unfinished \in BOOLEAN
    /\ interfered \in {"no", "repairing", "yes"}

Init ==
    /\ chroma = 0
    /\ index = Absent
    /\ tmp = Absent
    /\ version = 0
    /\ versionTmp = Absent
    /\ writeLock = Nobody
    /\ pc = [p \in Processes |-> "off"]
    /\ opened = [p \in Processes |-> FALSE]
    /\ built = [p \in Processes |-> 0]
    /\ handle = [p \in Processes |-> "none"]
    /\ next = [p \in Processes |-> 0]
    /\ cache = [p \in Processes |-> 0]
    /\ seen = [p \in Processes |-> 0]
    /\ raced = [p \in Processes |-> FALSE]
    /\ unfinished = FALSE
    /\ interfered = "no"

Goto(p, place) == pc' = [pc EXCEPT ![p] = place]

(* Leaving a `with write_lock(...)`, for a process that is in one.         *)
Unlock(p) == writeLock' = IF writeLock = p THEN Nobody ELSE writeLock

Unlocked(p) == writeLock # p

-----------------------------------------------------------------------------
(* initialize(): load the index from disk, or build it.                    *)

Start(p) ==
    /\ pc[p] = "off"
    /\ version < MaxVersion
    /\ IF p \in Workers
       THEN writeLock = Nobody /\ writeLock' = p
       ELSE UNCHANGED writeLock
    /\ Goto(p, "loading")
    /\ UNCHANGED <<chroma, fileVars, opened, workVars, memoryVars, historyVars>>

(* Mutant: a load that trusts the file, without the check and the except.  *)
LoadIndexUnchecked(p) ==
    /\ pc[p] \in {"loading", "reloading"}
    /\ cache' = [cache EXCEPT ![p] = index]
    /\ Goto(p, "loaded")
    /\ UNCHANGED <<chroma, fileVars, writeLock, opened, workVars, seen, raced,
                   historyVars>>

(* _try_load_bm25_from_disk(), up to the fields.  Without a usable file    *)
(* initialize() builds the index, and a search goes on with the old one.   *)
LoadIndex(p) ==
    /\ pc[p] \in {"loading", "reloading"}
    /\ IF index \in Nat
       THEN cache' = [cache EXCEPT ![p] = index] /\ Goto(p, "loaded")
       ELSE /\ UNCHANGED cache
            /\ Goto(p, IF pc[p] = "loading" THEN "building" ELSE "scoring")
    /\ UNCHANGED <<chroma, fileVars, writeLock, opened, workVars, seen, raced,
                   historyVars>>

(* Its last line: the version is read after the index was.                 *)
LoadVersion(p) ==
    /\ pc[p] = "loaded"
    /\ seen' = [seen EXCEPT ![p] = version]
    /\ raced' = [raced EXCEPT ![p] = (cache[p] # index)]
    /\ IF opened[p]
       THEN Goto(p, "scoring") /\ UNCHANGED <<writeLock, opened>>
       ELSE /\ Goto(p, "ready")
            /\ opened' = [opened EXCEPT ![p] = TRUE]
            /\ Unlock(p)
    /\ UNCHANGED <<chroma, fileVars, workVars, cache, historyVars>>

-----------------------------------------------------------------------------
(* search(): _maybe_reload_bm25(), then the scores from the cache.         *)

CheckVersion(p) ==
    /\ p \in Servers
    /\ pc[p] = "ready"
    /\ Goto(p, IF version > seen[p] THEN "reloading" ELSE "scoring")
    /\ UNCHANGED <<chroma, fileVars, writeLock, opened, workVars, memoryVars,
                   historyVars>>

Score(p) ==
    /\ pc[p] = "scoring"
    /\ Goto(p, "ready")
    /\ UNCHANGED <<chroma, fileVars, writeLock, opened, workVars, memoryVars,
                   historyVars>>

-----------------------------------------------------------------------------
(* An ingest: chunks into Chroma, then one rebuild of the index.           *)

(* Mutant: an ingest that does not wait for the write lock.                *)
BeginIngestUnlocked(p) ==
    /\ pc[p] = "ready"
    /\ chroma < MaxContent /\ version < MaxVersion
    /\ IF p \in Setups THEN UNCHANGED writeLock ELSE writeLock' = p
    /\ Goto(p, "ingesting")
    /\ UNCHANGED <<chroma, fileVars, opened, workVars, memoryVars, historyVars>>

BeginIngest(p) ==
    /\ pc[p] = "ready"
    /\ chroma < MaxContent /\ version < MaxVersion
    /\ IF p \in Setups
       THEN UNCHANGED writeLock
       ELSE writeLock = Nobody /\ writeLock' = p
    /\ Goto(p, "ingesting")
    /\ UNCHANGED <<chroma, fileVars, opened, workVars, memoryVars, historyVars>>

Interfere(p) == interfered' = IF Unlocked(p) THEN "yes" ELSE interfered

(* Mutant: upsert_session_chunks(rebuild_bm25=False) and no rebuild after. *)
StoreChunksOnly(p) ==
    /\ pc[p] = "ingesting"
    /\ chroma' = chroma + 1
    /\ Interfere(p)
    /\ Unlock(p)
    /\ Goto(p, "ready")
    /\ UNCHANGED <<fileVars, opened, workVars, memoryVars, unfinished>>

StoreChunks(p) ==
    /\ pc[p] = "ingesting"
    /\ chroma' = chroma + 1
    /\ Interfere(p)
    /\ Goto(p, "building")
    /\ UNCHANGED <<fileVars, writeLock, opened, workVars, memoryVars, unfinished>>

(* Nothing had changed, or the upsert raised after some chunks: the lock   *)
(* is left without a rebuild.  A setup ends like this normally, too, with  *)
(* all its chunks stored: only the Codex logs, its last batch, make it     *)
(* rebuild the index, and it returns before that when their directory is   *)
(* missing or holds no chunks (app.py, _bulk_ingest_directory()).          *)
EndWithoutRebuild(p) ==
    /\ pc[p] = "ingesting"
    /\ \/ UNCHANGED <<chroma, historyVars>>
       \/ chroma' = chroma + 1 /\ unfinished' = TRUE /\ Interfere(p)
    /\ Unlock(p)
    /\ Goto(p, "ready")
    /\ UNCHANGED <<fileVars, opened, workVars, memoryVars>>

NobodyInterferes ==
    \A q \in Processes : pc[q] \in Persisting => writeLock = q

(* _build_bm25_index() reads Chroma and replaces the fields in memory.     *)
Build(p) ==
    /\ pc[p] = "building"
    /\ built' = [built EXCEPT ![p] = chroma]
    /\ cache' = [cache EXCEPT ![p] = chroma]
    /\ raced' = [raced EXCEPT ![p] = FALSE]
    /\ IF Unlocked(p)
       THEN interfered' = "yes" /\ UNCHANGED unfinished
       ELSE /\ unfinished' = FALSE
            /\ interfered' = IF interfered = "yes" /\ NobodyInterferes
                             THEN "repairing" ELSE interfered
    /\ Goto(p, "opening")
    /\ UNCHANGED <<chroma, fileVars, writeLock, opened, handle, next, seen>>

(* Mutant: the index is dumped to its own path instead of a temporary one. *)
OpenInPlace(p) ==
    /\ pc[p] = "opening"
    /\ index' = Torn
    /\ handle' = [handle EXCEPT ![p] = "index"]
    /\ Goto(p, "dumping")
    /\ UNCHANGED <<chroma, tmp, version, versionTmp, writeLock, opened, built,
                   next, memoryVars, historyVars>>

(* _persist_bm25(): opening index.tmp truncates it.                        *)
OpenTmp(p) ==
    /\ pc[p] = "opening"
    /\ tmp' = Torn
    /\ handle' = [handle EXCEPT ![p] = "tmp"]
    /\ Goto(p, "dumping")
    /\ UNCHANGED <<chroma, index, version, versionTmp, writeLock, opened, built,
                   next, memoryVars, historyVars>>

(* The pickle is written to whatever file the handle names by now; two     *)
(* processes that write the same file may leave a mixture of both.         *)
Dumped(p) ==
    IF \E q \in Processes \ {p} : handle[q] = handle[p]
    THEN {built[p], Torn}
    ELSE {built[p]}

Dump(p) ==
    /\ pc[p] = "dumping"
    /\ CASE handle[p] = "tmp"      -> tmp' \in Dumped(p) /\ UNCHANGED index
         [] handle[p] = "index"    -> index' \in Dumped(p) /\ UNCHANGED tmp
         [] handle[p] = "unlinked" -> UNCHANGED <<index, tmp>>
    /\ handle' = [handle EXCEPT ![p] = "none"]
    /\ Goto(p, "renaming")
    /\ UNCHANGED <<chroma, version, versionTmp, writeLock, opened, built, next,
                   memoryVars, historyVars>>

(* os.replace(index.tmp, index.pkl): open handles follow their files.      *)
Rename(p) ==
    /\ pc[p] = "renaming"
    /\ tmp # Absent
    /\ index' = tmp
    /\ tmp' = Absent
    /\ handle' = [q \in Processes |->
                    CASE handle[q] = "tmp"   -> "index"
                      [] handle[q] = "index" -> "unlinked"
                      [] OTHER               -> handle[q]]
    /\ interfered' = IF interfered = "repairing" THEN "no" ELSE interfered
    /\ Goto(p, "numbering")
    /\ UNCHANGED <<chroma, version, versionTmp, writeLock, opened, built, next,
                   memoryVars, unfinished>>

(* Mutant: the next version is counted from the one this process has seen. *)
ReadOwnVersion(p) ==
    /\ pc[p] = "numbering"
    /\ next' = [next EXCEPT ![p] = seen[p] + 1]
    /\ Goto(p, "versioning")
    /\ UNCHANGED <<chroma, fileVars, writeLock, opened, built, handle,
                   memoryVars, historyVars>>

ReadVersion(p) ==
    /\ pc[p] = "numbering"
    /\ next' = [next EXCEPT ![p] = version + 1]
    /\ Goto(p, "versioning")
    /\ UNCHANGED <<chroma, fileVars, writeLock, opened, built, handle,
                   memoryVars, historyVars>>

WriteVersion(p) ==
    /\ pc[p] = "versioning"
    /\ versionTmp' = next[p]
    /\ Goto(p, "publishing")
    /\ UNCHANGED <<chroma, index, tmp, version, writeLock, opened, workVars,
                   memoryVars, historyVars>>

(* os.replace(version.tmp, version.txt), and the store is open or the      *)
(* ingest done.                                                            *)
PublishVersion(p) ==
    /\ pc[p] = "publishing"
    /\ versionTmp # Absent
    /\ version' = versionTmp
    /\ versionTmp' = Absent
    /\ seen' = [seen EXCEPT ![p] = next[p]]
    /\ raced' = [q \in Processes |-> raced[q] \/ interfered # "no"]
    /\ opened' = [opened EXCEPT ![p] = TRUE]
    /\ Unlock(p)
    /\ Goto(p, "ready")
    /\ UNCHANGED <<chroma, index, tmp, workVars, cache, historyVars>>

-----------------------------------------------------------------------------
(* A process ends, and with it everything it had in memory.                *)
End(p) ==
    /\ pc' = [pc EXCEPT ![p] = "off"]
    /\ opened' = [opened EXCEPT ![p] = FALSE]
    /\ built' = [built EXCEPT ![p] = 0]
    /\ handle' = [handle EXCEPT ![p] = "none"]
    /\ next' = [next EXCEPT ![p] = 0]
    /\ cache' = [cache EXCEPT ![p] = 0]
    /\ seen' = [seen EXCEPT ![p] = 0]
    /\ raced' = [raced EXCEPT ![p] = FALSE]
    /\ Unlock(p)
    /\ UNCHANGED <<chroma, fileVars, interfered>>

Exit(p) ==
    /\ pc[p] = "ready"
    /\ End(p)
    /\ UNCHANGED unfinished

(* os.replace() raises: another process has renamed the shared temporary   *)
(* file away.  The command ends, and so does an initialize(); in a store   *)
(* that was open the worker (run_worker_cycle) and the servers catch or    *)
(* answer the error and go on, with the index they built in memory and the *)
(* version they had seen.                                                  *)
ReplaceFails(p) ==
    /\ \/ pc[p] = "renaming" /\ tmp = Absent
       \/ pc[p] = "publishing" /\ versionTmp = Absent
    /\ unfinished' = TRUE
    /\ \/ End(p)
       \/ /\ opened[p] /\ p \notin Setups
          /\ raced' = [raced EXCEPT ![p] = TRUE]
          /\ Unlock(p)
          /\ Goto(p, "ready")
          /\ UNCHANGED <<chroma, fileVars, opened, workVars, cache, seen,
                         interfered>>

Die(p) ==
    /\ p \in Killable
    /\ pc[p] # "off"
    /\ unfinished' = (unfinished \/ pc[p] \in Persisting)
    /\ End(p)

(* `wwt reset` removes the directories of the stores.  It takes the write  *)
(* lock; a process that has the old files open keeps to them and is out of *)
(* the model, so nobody else may run.                                      *)
Reset ==
    /\ \A p \in Processes : pc[p] = "off"
    /\ chroma' = 0
    /\ index' = Absent
    /\ tmp' = Absent
    /\ version' = 0
    /\ versionTmp' = Absent
    /\ unfinished' = FALSE
    /\ interfered' = "no"
    /\ UNCHANGED <<writeLock, pc, opened, workVars, memoryVars>>

-----------------------------------------------------------------------------
Step(p) ==
    \/ Start(p)
    \/ LoadIndex(p)
    \/ LoadVersion(p)
    \/ CheckVersion(p)
    \/ Score(p)
    \/ BeginIngest(p)
    \/ StoreChunks(p)
    \/ EndWithoutRebuild(p)
    \/ Build(p)
    \/ OpenTmp(p)
    \/ Dump(p)
    \/ Rename(p)
    \/ ReadVersion(p)
    \/ WriteVersion(p)
    \/ PublishVersion(p)
    \/ Exit(p)
    \/ ReplaceFails(p)
    \/ Die(p)

Next == Reset \/ \E p \in Processes : Step(p)

Spec == Init /\ [][Next]_vars

-----------------------------------------------------------------------------
(* Properties.                                                             *)

(* Nobody is between storing chunks and publishing their index, and nobody *)
(* stored chunks and left them unindexed: by failing in between, or as a   *)
(* setup without Codex logs.                                               *)
Quiet ==
    /\ \A p \in Processes : pc[p] \notin Persisting
    /\ ~unfinished

Somebody == \E p \in Processes : opened[p]

(* Every rebuild leaves the index of all chunks, unless a process without  *)
(* the lock took part since the last rebuild that had the store to itself: *)
(* rebuilds under the lock never overwrite each other with older indexes.  *)
(* It says nothing after a setup without Codex logs, whose chunks stay     *)
(* unindexed until the next rebuild.                                       *)
IndexFollowsChroma ==
    Quiet /\ Somebody /\ interfered = "no" => index = chroma

(* A crash or a concurrent search never meets half an index: only a        *)
(* process without the lock can make the file unreadable.                  *)
IndexWhole == index = Torn => interfered # "no"

(* A server that has seen the version on disk holds the index on disk: no  *)
(* two rebuilds share a version, and none replaces the index without one.  *)
(* The exceptions are an index that is replaced while the server loads it, *)
(* and a version published among writers without the lock: it may be lower *)
(* than the one the server has seen, and the rebuilds that follow reach    *)
(* that number a second time.                                              *)
SeenIsHeld ==
    Quiet /\ interfered = "no" =>
        \A p \in Servers :
            (opened[p] /\ pc[p] # "loaded" /\ seen[p] = version /\ ~raced[p])
                => cache[p] = index

(* A running server never goes back to older chunks.                       *)
CacheNeverGoesBack ==
    [][ interfered = "no" =>
          \A p \in Servers : opened[p] /\ opened'[p] => cache'[p] >= cache[p]
      ]_vars

(* vector.py, _persist_bm25(): the version is bumped after the file is     *)
(* written so that readers are consistent; _maybe_reload_bm25(): reload if *)
(* the version on disk is newer than the cache.  SeenIsHeld without its    *)
(* exception.                                                              *)
FreshCache ==
    Quiet /\ interfered = "no" =>
        \A p \in Servers :
            (pc[p] = "scoring" /\ seen[p] = version) => cache[p] = index

(* ARCHITECTURE.md: "Stale Index: Automatic rebuild on upsert (atomic)".   *)
(* IndexFollowsChroma whoever took part, still without failed rebuilds and *)
(* without setups that end before theirs.                                  *)
RebuildOnUpsert == Quiet /\ Somebody => index = chroma
=============================================================================
