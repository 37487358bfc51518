----------------------------- MODULE IngestWorker -----------------------------
(***************************************************************************)
(* Deferred ingestion: the agents' hooks (`wwt enqueue`), the detached     *)
(* workers (worker.py) and the job table they share (IngestQueue).         *)
(*                                                                         *)
(* A transcript is a file that a session keeps appending to; its content   *)
(* is the number of times it has grown, and a store holds the number of    *)
(* the content it was last given, 0 when it holds no complete content.     *)
(* Three stores must follow a transcript: the raw spans (SQLite), the      *)
(* chunks (Chroma) and the BM25 index on disk, a snapshot of the chunks.   *)
(*                                                                         *)
(* The flock on worker.lock is `workerLock`, the flock on wwt.lock is      *)
(* `writeLock`, and `dbLock` is SQLite's reserved lock, which matters when *)
(* it outlives a statement: BEGIN IMMEDIATE of the final empty check.      *)
(***************************************************************************)
EXTENDS IngestQueue

CONSTANTS
    Hooks,            \* processes that run `wwt enqueue`
    Workers,          \* processes that run `python -m whatwasthat.worker`
    Nobody,           \* the owner of a free lock
    Usable,           \* contents that parse into at least one chunk
    OnceWorkers,      \* workers that a user starts with --once
    Killable,         \* hooks and workers that may die at any point
    ResourcesMayFail, \* whether opening the stores may raise
    MaxContent,       \* bound: how often a transcript grows
    MaxRevision       \* bound: how often an unresolved path is re-enqueued

ASSUME ProcessAssumption ==
    /\ Hooks \cap Workers = {}
    /\ Nobody \notin Hooks \cup Workers
    /\ OnceWorkers \subseteq Workers
ASSUME BoundAssumption ==
    /\ MaxContent \in Nat
    /\ MaxRevision \in Nat
    /\ ResourcesMayFail \in BOOLEAN

VARIABLES
    file,        \* file[p]: the content of transcript p, 0 if there is none
    goal,        \* goal[p]: the content of p when its last enqueue committed
    queue,       \* the table ingest_jobs
    before,      \* the order of enqueued_at between its rows
    raw,         \* raw[p]: the content whose spans RawSpanStore holds
    vector,      \* vector[p]: the content whose chunks Chroma holds
    bm25,        \* bm25[p]: the content whose chunks the BM25 file holds
    hookPc,      \* where each hook is
    pc,          \* where each worker is
    jobs,        \* jobs[w][p]: the job on p in the batch of worker w
    warm,        \* warm[w]: worker w has opened the stores
    workerLock,  \* owner of worker.lock
    writeLock,   \* owner of wwt.lock
    dbLock,      \* owner of an open BEGIN IMMEDIATE transaction
    killed,      \* history: a process died since the last enqueue
    quit         \* history: a --once worker left pending rows behind since then

transcriptVars == <<file, goal>>
queueVars == <<queue, before>>
storeVars == <<raw, vector, bm25>>
workerVars == <<pc, jobs, warm>>
lockVars == <<workerLock, writeLock, dbLock>>
historyVars == <<killed, quit>>
vars == <<transcriptVars, queueVars, storeVars, hookPc, workerVars, lockVars,
          historyVars>>

-----------------------------------------------------------------------------
(* A job of a batch: the revision ready() returned and how far it has got. *)
(*   fetched -> prepared -> raw -> stored      or "failed" at any of them  *)
(*   failed -> marking           between the SELECT and the UPDATE of      *)
(*                               mark_transient_failure()                  *)
JobStatus == {"none", "fetched", "prepared", "raw", "stored", "failed", "marking"}

Job == [status   : JobStatus,
        revision : Nat,
        content  : Nat,
        attempts : Nat]

NoJob == [status |-> "none", revision |-> 0, content |-> 0, attempts |-> 0]
NoJobs == [p \in Paths |-> NoJob]

(* The job on p of worker w becomes `job`.                                 *)
SetJob(w, p, job) == jobs' = [jobs EXCEPT ![w] = [@ EXCEPT ![p] = job]]

With(w, status) == { p \in Paths : jobs[w][p].status \in status }

(* A worker owns worker.lock at these places.                              *)
Running == {"polling", "preparing", "storing", "settling", "quiet", "checking",
            "empty"}
WorkerPc == Running \cup {"off", "starting", "leaving"}
HookPc == {"idle", "queued", "probing", "spawning"}

TypeOK ==
    /\ file \in [Paths -> Nat]
    /\ goal \in [Paths -> Nat]
    /\ queue \in [Paths -> Row] /\ Numbered(queue)
    /\ before \in SUBSET (Paths \X Paths)
    /\ raw \in [Paths -> Nat]
    /\ vector \in [Paths -> Nat]
    /\ bm25 \in [Paths -> Nat]
    /\ hookPc \in [Hooks -> HookPc]
    /\ pc \in [Workers -> WorkerPc]
    /\ jobs \in [Workers -> [Paths -> Job]]
    /\ warm \in [Workers -> BOOLEAN]
    /\ workerLock \in Hooks \cup Workers \cup {Nobody}
    /\ writeLock \in Workers \cup {Nobody}
    /\ dbLock \in Workers \cup {Nobody}
    /\ killed \in BOOLEAN
    /\ quit \in BOOLEAN

Init ==
    /\ file = [p \in Paths |-> 0]
    /\ goal = [p \in Paths |-> 0]
    /\ queue = [p \in Paths |-> NoRow]
    /\ before = {}
    /\ raw = [p \in Paths |-> 0]
    /\ vector = [p \in Paths |-> 0]
    /\ bm25 = [p \in Paths |-> 0]
    /\ hookPc = [h \in Hooks |-> "idle"]
    /\ pc = [w \in Workers |-> "off"]
    /\ jobs = [w \in Workers |-> NoJobs]
    /\ warm = [w \in Workers |-> FALSE]
    /\ workerLock = Nobody
    /\ writeLock = Nobody
    /\ dbLock = Nobody
    /\ killed = FALSE
    /\ quit = FALSE

-----------------------------------------------------------------------------
(* The environment: sessions write transcripts and time passes.            *)

SessionWrites(p) ==
    /\ file[p] < MaxContent
    /\ file' = [file EXCEPT ![p] = @ + 1]
    /\ UNCHANGED <<goal, queueVars, storeVars, hookPc, workerVars, lockVars,
                   historyVars>>

DebouncePasses(p) ==
    /\ Pending(queue, p) /\ ~queue[p].settled
    /\ queue' = DebounceElapsed(queue, p)
    /\ UNCHANGED <<transcriptVars, before, storeVars, hookPc, workerVars,
                   lockVars, historyVars>>

BackoffPasses(p) ==
    /\ Pending(queue, p) /\ ~queue[p].due
    /\ queue' = BackoffElapsed(queue, p)
    /\ UNCHANGED <<transcriptVars, before, storeVars, hookPc, workerVars,
                   lockVars, historyVars>>

-----------------------------------------------------------------------------
(* A hook: `wwt enqueue` commits the job, then spawn_worker() probes the   *)
(* worker lock and starts a worker if the probe could take it.             *)

Enqueue(h, p) ==
    /\ hookPc[h] = "idle"
    /\ file[p] > 0
    /\ queue[p].revision < MaxRevision
    /\ dbLock = Nobody
    /\ queue' = Upsert(queue, p)
    /\ before' = MoveLast(before, queue, p)
    /\ goal' = [goal EXCEPT ![p] = file[p]]
    /\ hookPc' = [hookPc EXCEPT ![h] = "queued"]
    /\ killed' = FALSE
    /\ quit' = FALSE
    /\ UNCHANGED <<file, storeVars, workerVars, lockVars>>

(* worker_is_running(): the non-blocking acquire fails, the hook returns.  *)
ProbeFindsOwner(h) ==
    /\ hookPc[h] = "queued"
    /\ workerLock # Nobody
    /\ hookPc' = [hookPc EXCEPT ![h] = "idle"]
    /\ UNCHANGED <<transcriptVars, queueVars, storeVars, workerVars,
                   lockVars, historyVars>>

(* worker_is_running(): the acquire succeeds; until the release the hook   *)
(* itself is the owner that other hooks and workers run into.              *)
ProbeTakesLock(h) ==
    /\ hookPc[h] = "queued"
    /\ workerLock = Nobody
    /\ workerLock' = h
    /\ hookPc' = [hookPc EXCEPT ![h] = "probing"]
    /\ UNCHANGED <<transcriptVars, queueVars, storeVars, workerVars,
                   writeLock, dbLock, historyVars>>

ProbeReleases(h) ==
    /\ hookPc[h] = "probing"
    /\ workerLock' = Nobody
    /\ hookPc' = [hookPc EXCEPT ![h] = "spawning"]
    /\ UNCHANGED <<transcriptVars, queueVars, storeVars, workerVars,
                   writeLock, dbLock, historyVars>>

(* subprocess.Popen of a detached worker, which never runs with --once.    *)
Spawn(h, w) ==
    /\ hookPc[h] = "spawning"
    /\ w \notin OnceWorkers
    /\ pc[w] = "off"
    /\ pc' = [pc EXCEPT ![w] = "starting"]
    /\ hookPc' = [hookPc EXCEPT ![h] = "idle"]
    /\ UNCHANGED <<transcriptVars, queueVars, storeVars, jobs, warm,
                   lockVars, historyVars>>

(* The agent kills its hook, or the hook dies: the job it committed stays. *)
HookDies(h) ==
    /\ h \in Killable
    /\ hookPc[h] # "idle"
    /\ hookPc' = [hookPc EXCEPT ![h] = "idle"]
    /\ workerLock' = IF workerLock = h THEN Nobody ELSE workerLock
    /\ killed' = TRUE
    /\ UNCHANGED <<transcriptVars, queueVars, storeVars, workerVars,
                   writeLock, dbLock, quit>>
-----------------------------------------------------------------------------
(* run_worker().  A worker is spawned by a hook or launched by a user;     *)
(* only one of those that start gets past the non-blocking acquire.        *)

Launch(w) ==
    /\ pc[w] = "off"
    /\ pc' = [pc EXCEPT ![w] = "starting"]
    /\ UNCHANGED <<transcriptVars, queueVars, storeVars, hookPc, jobs, warm,
                   lockVars, historyVars>>

(* Mutant: a worker that does not heed the lock.                           *)
StartAnyway(w) ==
    /\ pc[w] = "starting"
    /\ workerLock' = w
    /\ pc' = [pc EXCEPT ![w] = "polling"]
    /\ UNCHANGED <<transcriptVars, queueVars, storeVars, hookPc, jobs, warm,
                   writeLock, dbLock, historyVars>>

StartAlone(w) ==
    /\ pc[w] = "starting"
    /\ workerLock = Nobody
    /\ workerLock' = w
    /\ pc' = [pc EXCEPT ![w] = "polling"]
    /\ UNCHANGED <<transcriptVars, queueVars, storeVars, hookPc, jobs, warm,
                   writeLock, dbLock, historyVars>>

AlreadyRunning(w) ==
    /\ pc[w] = "starting"
    /\ workerLock # Nobody
    /\ pc' = [pc EXCEPT ![w] = "off"]
    /\ UNCHANGED <<transcriptVars, queueVars, storeVars, hookPc, jobs, warm,
                   lockVars, historyVars>>

Debounced(w) == w \notin OnceWorkers

(* ready() returned rows: process_jobs() works on this copy of them.       *)
FetchJobs(w) ==
    /\ pc[w] = "polling"
    /\ \E S \in ReadyBatches(queue, before, Debounced(w)) :
          /\ S # {}
          /\ jobs' = [jobs EXCEPT ![w] =
                [p \in Paths |->
                    IF p \in S
                    THEN [NoJob EXCEPT !.status = "fetched",
                                       !.revision = queue[p].revision]
                    ELSE NoJob]]
    /\ pc' = [pc EXCEPT ![w] = "preparing"]
    /\ UNCHANGED <<transcriptVars, queueVars, storeVars, hookPc, warm,
                   lockVars, historyVars>>

FetchNothing(w) ==
    /\ pc[w] = "polling"
    /\ ReadyPaths(queue, Debounced(w)) = {}
    /\ pc' = [pc EXCEPT ![w] = "quiet"]
    /\ UNCHANGED <<transcriptVars, queueVars, storeVars, hookPc, jobs, warm,
                   lockVars, historyVars>>

-----------------------------------------------------------------------------
(* process_jobs(), first loop: prepare_transcript() reads and chunks each  *)
(* file as it is now, which may be newer than the revision.                *)

Prepare(w, p) ==
    /\ pc[w] = "preparing"
    /\ jobs[w][p].status = "fetched"
    /\ file[p] \in Usable
    /\ SetJob(w, p, [jobs[w][p] EXCEPT !.status = "prepared", !.content = file[p]])
    /\ UNCHANGED <<transcriptVars, queueVars, storeVars, hookPc, pc, warm,
                   lockVars, historyVars>>

(* PermanentIngestError: the row is failed at once.                        *)
PreparePermanentFailure(w, p) ==
    /\ pc[w] = "preparing"
    /\ jobs[w][p].status = "fetched"
    /\ file[p] \notin Usable
    /\ dbLock = Nobody
    /\ queue' = UpdatePermanent(queue, p, jobs[w][p].revision)
    /\ SetJob(w, p, NoJob)
    /\ UNCHANGED <<transcriptVars, before, storeVars, hookPc, pc, warm,
                   lockVars, historyVars>>

(* Any other exception joins failed_jobs.                                  *)
PrepareFails(w, p) ==
    /\ pc[w] = "preparing"
    /\ jobs[w][p].status = "fetched"
    /\ SetJob(w, p, [jobs[w][p] EXCEPT !.status = "failed"])
    /\ UNCHANGED <<transcriptVars, queueVars, storeVars, hookPc, pc, warm,
                   lockVars, historyVars>>

AllPrepared(w) == pc[w] = "preparing" /\ With(w, {"fetched"}) = {}

(* `if prepared_jobs:` is false.                                           *)
NothingPrepared(w) ==
    /\ AllPrepared(w)
    /\ With(w, {"prepared"}) = {}
    /\ pc' = [pc EXCEPT ![w] = "settling"]
    /\ UNCHANGED <<transcriptVars, queueVars, storeVars, hookPc, jobs, warm,
                   lockVars, historyVars>>

-----------------------------------------------------------------------------
(* process_jobs(), second part: the stores, under the write lock.          *)

(* The resource factory takes the write lock for itself and lets go of it. *)
(* initialize() writes a BM25 file only when there is none, that is before *)
(* anything was stored: the file it writes holds nothing.                  *)
OpenResources(w) ==
    /\ AllPrepared(w)
    /\ With(w, {"prepared"}) # {}
    /\ ~warm[w]
    /\ writeLock = Nobody
    /\ warm' = [warm EXCEPT ![w] = TRUE]
    /\ UNCHANGED <<transcriptVars, queueVars, storeVars, hookPc, pc, jobs,
                   lockVars, historyVars>>

(* The factory raises before any job is stored: succeeded_jobs is empty    *)
(* and the prepared jobs are in neither list, so nothing settles them.     *)
OpenResourcesFails(w) ==
    /\ ResourcesMayFail
    /\ AllPrepared(w)
    /\ With(w, {"prepared"}) # {}
    /\ ~warm[w]
    /\ pc' = [pc EXCEPT ![w] = "settling"]
    /\ jobs' = [jobs EXCEPT ![w] =
          [p \in Paths |-> IF jobs[w][p].status = "prepared"
                           THEN NoJob ELSE jobs[w][p]]]
    /\ UNCHANGED <<transcriptVars, queueVars, storeVars, hookPc, warm,
                   lockVars, historyVars>>

BeginStore(w) ==
    /\ AllPrepared(w)
    /\ With(w, {"prepared"}) # {}
    /\ warm[w]
    /\ writeLock = Nobody
    /\ writeLock' = w
    /\ pc' = [pc EXCEPT ![w] = "storing"]
    /\ UNCHANGED <<transcriptVars, queueVars, storeVars, hookPc, jobs, warm,
                   workerLock, dbLock, historyVars>>

(* store_prepared_transcript(): the raw spans first, then the chunks; one  *)
(* job after the other.                                                    *)
StoreRaw(w, p) ==
    /\ pc[w] = "storing"
    /\ jobs[w][p].status = "prepared"
    /\ With(w, {"raw"}) = {}
    /\ raw' = [raw EXCEPT ![p] = jobs[w][p].content]
    /\ SetJob(w, p, [jobs[w][p] EXCEPT !.status = "raw"])
    /\ UNCHANGED <<transcriptVars, queueVars, vector, bm25, hookPc, pc, warm,
                   lockVars, historyVars>>

StoreVector(w, p) ==
    /\ pc[w] = "storing"
    /\ jobs[w][p].status = "raw"
    /\ vector' = [vector EXCEPT ![p] = jobs[w][p].content]
    /\ SetJob(w, p, [jobs[w][p] EXCEPT !.status = "stored"])
    /\ UNCHANGED <<transcriptVars, queueVars, raw, bm25, hookPc, pc, warm,
                   lockVars, historyVars>>

(* Either upsert raises.  upsert_session_chunks() deletes stale chunks     *)
(* before it adds the changed ones, so Chroma may be left with neither     *)
(* the old content nor the new.                                            *)
StoreFails(w, p) ==
    /\ pc[w] = "storing"
    /\ \/ jobs[w][p].status = "prepared" /\ With(w, {"raw"}) = {}
          /\ UNCHANGED vector
       \/ jobs[w][p].status = "raw"
          /\ vector' \in {vector, [vector EXCEPT ![p] = 0]}
    /\ SetJob(w, p, [jobs[w][p] EXCEPT !.status = "failed"])
    /\ UNCHANGED <<transcriptVars, queueVars, raw, bm25, hookPc, pc, warm,
                   lockVars, historyVars>>

AllStored(w) == pc[w] = "storing" /\ With(w, {"prepared", "raw"}) = {}

EndStore(w) ==
    /\ writeLock' = Nobody
    /\ pc' = [pc EXCEPT ![w] = "settling"]
    /\ UNCHANGED <<transcriptVars, queueVars, raw, vector, hookPc, warm,
                   workerLock, dbLock, historyVars>>

(* rebuild_index() once for the batch, if anything was stored.             *)
Rebuild(w) ==
    /\ AllStored(w)
    /\ With(w, {"stored"}) # {}
    /\ bm25' = vector
    /\ EndStore(w)
    /\ UNCHANGED jobs

(* Mutant: the failed rebuild is swallowed and the jobs stay succeeded.    *)
RebuildFailureSwallowed(w) ==
    /\ AllStored(w)
    /\ With(w, {"stored"}) # {}
    /\ bm25' \in {bm25, vector}
    /\ EndStore(w)
    /\ UNCHANGED jobs

(* It raises, before or after the rename of the new index: every job that  *)
(* had been stored becomes a failed job.                                   *)
RebuildFails(w) ==
    /\ AllStored(w)
    /\ With(w, {"stored"}) # {}
    /\ bm25' \in {bm25, vector}
    /\ jobs' = [jobs EXCEPT ![w] =
          [p \in Paths |-> IF jobs[w][p].status = "stored"
                           THEN [jobs[w][p] EXCEPT !.status = "failed"]
                           ELSE jobs[w][p]]]
    /\ EndStore(w)

NothingStored(w) ==
    /\ AllStored(w)
    /\ With(w, {"stored"}) = {}
    /\ EndStore(w)
    /\ UNCHANGED <<bm25, jobs>>

-----------------------------------------------------------------------------
(* process_jobs(), last two loops: succeeded jobs are acknowledged, then   *)
(* failed jobs are rescheduled or given up.                                *)

Acknowledge(w, p) ==
    /\ pc[w] = "settling"
    /\ jobs[w][p].status = "stored"
    /\ dbLock = Nobody
    /\ IF Acknowledges(queue, p, jobs[w][p].revision)
       THEN queue' = Delete(queue, p) /\ before' = Forget(before, p)
       ELSE UNCHANGED queueVars
    /\ SetJob(w, p, NoJob)
    /\ UNCHANGED <<transcriptVars, storeVars, hookPc, pc, warm, lockVars,
                   historyVars>>

(* mark_transient_failure(), the SELECT.                                   *)
ReadAttempts(w, p) ==
    /\ pc[w] = "settling"
    /\ jobs[w][p].status = "failed"
    /\ With(w, {"stored", "marking"}) = {}
    /\ SetJob(w, p, IF Matches(queue, p, jobs[w][p].revision)
                    THEN [jobs[w][p] EXCEPT !.status = "marking",
                                            !.attempts = queue[p].attempts + 1]
                    ELSE NoJob)
    /\ UNCHANGED <<transcriptVars, queueVars, storeVars, hookPc, pc, warm,
                   lockVars, historyVars>>

(* mark_transient_failure(), the UPDATE.                                   *)
Reschedule(w, p) ==
    /\ pc[w] = "settling"
    /\ jobs[w][p].status = "marking"
    /\ dbLock = Nobody
    /\ queue' = UpdateTransient(queue, p, jobs[w][p].revision, jobs[w][p].attempts)
    /\ SetJob(w, p, NoJob)
    /\ UNCHANGED <<transcriptVars, before, storeVars, hookPc, pc, warm,
                   lockVars, historyVars>>

EndCycle(w) ==
    /\ pc[w] = "settling"
    /\ jobs[w] = NoJobs
    /\ pc' = [pc EXCEPT ![w] = "polling"]
    /\ UNCHANGED <<transcriptVars, queueVars, storeVars, hookPc, jobs, warm,
                   lockVars, historyVars>>

-----------------------------------------------------------------------------
(* run_worker(), when nothing was ready.                                   *)

Exit(w) ==
    /\ pc' = [pc EXCEPT ![w] = "off"]
    /\ warm' = [warm EXCEPT ![w] = FALSE]

(* `if once: break`: the lock is given up without a last look at the rows. *)
OnceExit(w) ==
    /\ pc[w] = "quiet"
    /\ w \in OnceWorkers
    /\ workerLock' = Nobody
    /\ quit' = (quit \/ HasPending(queue))
    /\ Exit(w)
    /\ UNCHANGED <<transcriptVars, queueVars, storeVars, hookPc, jobs,
                   writeLock, dbLock, killed>>

(* The idle timeout has not passed.                                        *)
Sleep(w) ==
    /\ pc[w] = "quiet"
    /\ w \notin OnceWorkers
    /\ pc' = [pc EXCEPT ![w] = "polling"]
    /\ UNCHANGED <<transcriptVars, queueVars, storeVars, hookPc, jobs, warm,
                   lockVars, historyVars>>

(* Mutant: the final check without BEGIN IMMEDIATE.                        *)
BeginFinalCheckUnlocked(w) ==
    /\ pc[w] = "quiet"
    /\ w \notin OnceWorkers
    /\ pc' = [pc EXCEPT ![w] = "checking"]
    /\ UNCHANGED <<transcriptVars, queueVars, storeVars, hookPc, jobs, warm,
                   lockVars, historyVars>>

(* It has: BEGIN IMMEDIATE keeps enqueues out until the commit.            *)
BeginFinalCheck(w) ==
    /\ pc[w] = "quiet"
    /\ w \notin OnceWorkers
    /\ dbLock = Nobody
    /\ dbLock' = w
    /\ pc' = [pc EXCEPT ![w] = "checking"]
    /\ UNCHANGED <<transcriptVars, queueVars, storeVars, hookPc, jobs, warm,
                   workerLock, writeLock, historyVars>>

FinalCheckFindsWork(w) ==
    /\ pc[w] = "checking"
    /\ HasPending(queue)
    /\ dbLock' = Nobody
    /\ pc' = [pc EXCEPT ![w] = "polling"]
    /\ UNCHANGED <<transcriptVars, queueVars, storeVars, hookPc, jobs, warm,
                   workerLock, writeLock, historyVars>>

FinalCheckFindsNone(w) ==
    /\ pc[w] = "checking"
    /\ ~HasPending(queue)
    /\ pc' = [pc EXCEPT ![w] = "empty"]
    /\ UNCHANGED <<transcriptVars, queueVars, storeVars, hookPc, jobs, warm,
                   lockVars, historyVars>>

(* The worker lock is released inside the transaction ...                  *)
ReleaseWorkerLock(w) ==
    /\ pc[w] = "empty"
    /\ workerLock' = Nobody
    /\ pc' = [pc EXCEPT ![w] = "leaving"]
    /\ UNCHANGED <<transcriptVars, queueVars, storeVars, hookPc, jobs, warm,
                   writeLock, dbLock, historyVars>>

(* ... and the commit lets the enqueues in again.                          *)
Leave(w) ==
    /\ pc[w] = "leaving"
    /\ dbLock' = Nobody
    /\ Exit(w)
    /\ UNCHANGED <<transcriptVars, queueVars, storeVars, hookPc, jobs,
                   workerLock, writeLock, historyVars>>

(* A worker dies, or an exception of a queue statement ends it: the kernel *)
(* releases its flocks, SQLite rolls its transaction back, and a Chroma    *)
(* write it was in the middle of may be half done.                         *)
WorkerDies(w) ==
    /\ w \in Killable
    /\ pc[w] # "off"
    /\ vector' \in {vector} \cup
          { [vector EXCEPT ![p] = 0] : p \in With(w, {"raw"}) }
    /\ jobs' = [jobs EXCEPT ![w] = NoJobs]
    /\ workerLock' = IF workerLock = w THEN Nobody ELSE workerLock
    /\ writeLock' = IF writeLock = w THEN Nobody ELSE writeLock
    /\ dbLock' = IF dbLock = w THEN Nobody ELSE dbLock
    /\ killed' = TRUE
    /\ Exit(w)
    /\ UNCHANGED <<transcriptVars, queueVars, raw, bm25, hookPc, quit>>
-----------------------------------------------------------------------------
HookStep(h) ==
    \/ ProbeFindsOwner(h)
    \/ ProbeTakesLock(h)
    \/ ProbeReleases(h)
    \/ \E w \in Workers : Spawn(h, w)

JobStep(w, p) ==
    \/ Prepare(w, p)
    \/ PreparePermanentFailure(w, p)
    \/ PrepareFails(w, p)
    \/ StoreRaw(w, p)
    \/ StoreVector(w, p)
    \/ StoreFails(w, p)
    \/ Acknowledge(w, p)
    \/ ReadAttempts(w, p)
    \/ Reschedule(w, p)

BatchStep(w) ==
    \/ FetchJobs(w)
    \/ FetchNothing(w)
    \/ NothingPrepared(w)
    \/ OpenResources(w)
    \/ OpenResourcesFails(w)
    \/ BeginStore(w)
    \/ Rebuild(w)
    \/ RebuildFails(w)
    \/ NothingStored(w)
    \/ EndCycle(w)

LifeStep(w) ==
    \/ StartAlone(w)
    \/ AlreadyRunning(w)
    \/ OnceExit(w)
    \/ Sleep(w)
    \/ BeginFinalCheck(w)
    \/ FinalCheckFindsWork(w)
    \/ FinalCheckFindsNone(w)
    \/ ReleaseWorkerLock(w)
    \/ Leave(w)

WorkerStep(w) == BatchStep(w) \/ LifeStep(w) \/ \E p \in Paths : JobStep(w, p)

TimePasses(p) == DebouncePasses(p) \/ BackoffPasses(p)

Next ==
    \/ \E p \in Paths : SessionWrites(p) \/ TimePasses(p)
    \/ \E h \in Hooks, p \in Paths : Enqueue(h, p)
    \/ \E h \in Hooks : HookStep(h) \/ HookDies(h)
    \/ \E w \in Workers : WorkerStep(w) \/ Launch(w) \/ WorkerDies(w)

Spec == Init /\ [][Next]_vars

(* The operating system runs every live process and the clock advances.    *)
(* Nobody has to write, enqueue, launch a worker or die.                   *)
Fairness ==
    /\ \A h \in Hooks : WF_vars(HookStep(h))
    /\ \A w \in Workers : WF_vars(WorkerStep(w))
    /\ \A p \in Paths : WF_vars(DebouncePasses(p)) /\ WF_vars(BackoffPasses(p))

FairSpec == Spec /\ Fairness

-----------------------------------------------------------------------------
(* Properties.                                                             *)

Captured(p) == goal[p] <= raw[p] /\ goal[p] <= vector[p] /\ goal[p] <= bm25[p]

(* Whoever will still look at the table: a hook that has committed and not *)
(* yet returned, a worker on its way to the lock, a worker that owns it.   *)
Responsible ==
    \/ \E h \in Hooks : hookPc[h] # "idle"
    \/ \E w \in Workers : pc[w] \in Running \cup {"starting"}

Stranded == HasPending(queue) /\ ~Responsible

(* A transcript without a row is searchable at least up to the content it  *)
(* had when its last enqueue committed, in all three stores: acknowledge() *)
(* never drops a row for work that a later enqueue, a failed store or a    *)
(* failed rebuild made insufficient, and no crash does either.             *)
NoLostUpdate == \A p \in Paths : ~Present(queue, p) => Captured(p)

(* A pending row never lies in the table with nobody left to process it,   *)
(* unless a process was killed, or a --once worker walked away, since the  *)
(* last enqueue: hooks that probe, workers that race for the lock and the  *)
(* worker that leaves after its final check never each count on another.   *)
NoStrandedJob == Stranded => killed \/ quit

(* A job in hand is backed by its row: the row is there, at the job's      *)
(* revision or a later one, still pending if it is the same, and no second *)
(* worker has a job on it.  The revision therefore identifies the content  *)
(* asked for although a deleted row starts again at revision 1.            *)
JobsAreLive ==
    \A w \in Workers : \A p \in Paths :
        jobs[w][p].status # "none" =>
            /\ Present(queue, p)
            /\ jobs[w][p].revision <= queue[p].revision
            /\ jobs[w][p].revision = queue[p].revision => Pending(queue, p)
            /\ \A v \in Workers \ {w} : jobs[v][p].status = "none"

(* What a worker decides about a row, as opposed to the passing of time.   *)
Verdict(row) == <<row.state, row.revision, row.attempts>>

(* Only an enqueue, or a worker that holds the current revision, changes   *)
(* the verdict on a row: a late acknowledge, reschedule or failure of an   *)
(* older revision leaves the new one pending with all its attempts.        *)
NewerRevisionKept ==
    [][ \A p \in Paths :
          (Present(queue, p) /\ Verdict(queue'[p]) # Verdict(queue[p])) =>
              \/ queue'[p].revision = queue[p].revision + 1
              \/ \E w \in Workers : /\ jobs[w][p].status # "none"
                                    /\ jobs[w][p].revision = queue[p].revision
      ]_vars

(* A worker has the current revision in hand and has still to prepare it.  *)
ToPrepare(p) ==
    \E w \in Workers : /\ jobs[w][p].status = "fetched"
                        /\ jobs[w][p].revision = queue[p].revision

(* Within one revision the attempts are counted and never forgotten, and   *)
(* failed is final; a row is failed with fewer than MaxAttempts attempts   *)
(* only by the worker that was about to prepare it: whoever counts, and    *)
(* however long ago it read the row, a transcript that was not rejected    *)
(* gets every attempt.                                                     *)
AttemptsCounted ==
    [][ \A p \in Paths :
          ( /\ Present(queue, p) /\ Present(queue', p)
            /\ queue'[p].revision = queue[p].revision
            /\ Verdict(queue'[p]) # Verdict(queue[p]) ) =>
              /\ Pending(queue, p)
              /\ queue'[p].attempts = queue[p].attempts + 1
              /\ queue'[p].attempts <= MaxAttempts
              /\ queue'[p].attempts < MaxAttempts =>
                    Pending(queue', p) \/ ToPrepare(p)
              /\ Pending(queue', p) => queue'[p].attempts < MaxAttempts
      ]_vars

(* Every job is eventually resolved: stored and acknowledged, or failed    *)
(* after its attempts.  Oldest-first batches and the backoff keep one      *)
(* transcript from starving another.                                       *)
JobsResolve == \A p \in Paths : Pending(queue, p) ~> ~Pending(queue, p)

(* The parts of the inductive invariant behind these properties.           *)

(* A process holds a lock exactly where its code is between acquire and    *)
(* release.                                                                *)
LocksHeld ==
    /\ \A w \in Workers : workerLock = w <=> pc[w] \in Running
    /\ \A h \in Hooks : workerLock = h <=> hookPc[h] = "probing"
    /\ \A w \in Workers : writeLock = w <=> pc[w] = "storing"
    /\ \A w \in Workers : dbLock = w <=> pc[w] \in {"checking", "empty", "leaving"}

(* How far the jobs of a batch can be in each part of process_jobs().      *)
PhaseStatus(place) ==
    CASE place = "preparing" -> {"none", "fetched", "prepared", "failed"}
      [] place = "storing"   -> {"none", "prepared", "raw", "stored", "failed"}
      [] place = "settling"  -> {"none", "stored", "failed", "marking"}
      [] OTHER               -> {"none"}

JobsInPhase ==
    \A w \in Workers : \A p \in Paths : jobs[w][p].status \in PhaseStatus(pc[w])

(* The final check stays true until the lock is released.                  *)
EmptyStaysEmpty == \A w \in Workers : pc[w] = "empty" => ~HasPending(queue)

(* A job prepared for the current revision has read at least the content   *)
(* that revision asks for, and the stores hold what its status says.       *)
JobContent ==
    \A w \in Workers : \A p \in Paths :
        LET job == jobs[w][p]
        IN  /\ (/\ job.status \in {"prepared", "raw", "stored"}
                /\ job.revision = queue[p].revision) => goal[p] <= job.content
            /\ job.status \in {"raw", "stored"} => raw[p] = job.content
            /\ job.status = "stored" => vector[p] = job.content
            /\ (job.status = "stored" /\ pc[w] = "settling") => bm25[p] = job.content

(* A pending row has an attempt left, and nobody else counts attempts      *)
(* between the SELECT and the UPDATE of mark_transient_failure().          *)
AttemptsRead ==
    /\ \A p \in Paths : Pending(queue, p) => queue[p].attempts < MaxAttempts
    /\ \A w \in Workers : \A p \in Paths :
          (/\ jobs[w][p].status = "marking"
           /\ jobs[w][p].revision = queue[p].revision)
              => jobs[w][p].attempts = queue[p].attempts + 1

GoalWritten == \A p \in Paths : goal[p] <= file[p]

IInv ==
    /\ TypeOK
    /\ LocksHeld
    /\ JobsInPhase
    /\ JobsAreLive
    /\ EmptyStaysEmpty
    /\ NoStrandedJob
    /\ AttemptsRead
    /\ GoalWritten
    /\ JobContent
    /\ NoLostUpdate

(* Refinement: a row is a wish, and a transcript is had as far as every    *)
(* store has it.                                                           *)
Held(p) ==
    IF raw[p] <= vector[p] /\ raw[p] <= bm25[p] THEN raw[p]
    ELSE IF vector[p] <= bm25[p] THEN vector[p] ELSE bm25[p]

Status(p) ==
    CASE queue[p].state = "absent"  -> "done"
      [] queue[p].state = "pending" -> "wanted"
      [] queue[p].state = "failed"  -> "failed"

Capture == INSTANCE TranscriptCapture
           WITH status <- [p \in Paths |-> Status(p)],
                asked  <- goal,
                have   <- [p \in Paths |-> Held(p)]

(* The hooks, workers, locks and stores together do what TranscriptCapture *)
(* promises, step by step.                                                 *)
ImplementsCapture == Capture!Spec
=============================================================================
