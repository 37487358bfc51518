# A verification project for whatwasthat

whatwasthat (`wwt`) keeps the conversations of coding agents in a searchable
memory. Hooks of the agents enqueue transcripts, a detached worker ingests
them into three stores, an MCP server and a remote gateway search them, and a
command line administers it all. These are separate processes that share a
directory and coordinate with two `flock`s and one SQLite table.

This directory holds TLA+ models of that coordination and of the data the
processes share, TLC runs that check them on small instances, and TLAPS proofs
for every value of the constants. Paths below are relative to
`src/src/whatwasthat/`. `PROJECT.json` maps every definition to its lines.

## 1. Inventory

| Component | State | Operations | Hard behaviour | What makes it correct |
|---|---|---|---|---|
| Ingest queue (`ingest_queue.py`) | table `ingest_jobs`: state, revision, attempts, three timestamps per path | enqueue (upsert, revision + 1), ready, acknowledge, mark transient / permanent failure, pending counts | a row is deleted and inserted again with revision 1; attempts are read and written in two statements; LIMITed batches | a verdict on an old revision never touches a new one; attempts count up to 3; no job starves |
| Worker (`worker.py`) | process state, `worker.lock`, the batch in hand, opened stores | start, poll, prepare, store, rebuild, settle, sleep, final empty check, `--once` | racing hooks and workers, deaths, partial failures of a batch | nothing acknowledged that is not in all stores; no pending job without somebody responsible |
| Hook (`wwt enqueue` in `cli/app.py`, `spawn_worker()`) | none of its own | commit the job, probe the lock, spawn a worker | the probe itself owns the lock for a moment | as above |
| Preparation and storing (`pipeline/ingest.py`) | none | parse and chunk, store raw spans then chunks | content read before the lock, stored after it; dying half-way | what is left is what was read |
| Chunker (`pipeline/chunker.py`) | none (pure) | small windows, turn pairs, outline; ids | ids stable while a session grows, short last window | nothing falls between windows; growing keeps ids |
| Raw span store (`storage/raw_store.py`) | SQLite `raw_spans` | upsert, get, neighbours, count access | spans are never deleted; outline spans keep their id | every chunk points to a span |
| Vector store (`storage/vector.py`) | Chroma collection | session upsert (compare, delete, upsert), plain upsert, access counts, hybrid search | read-modify-write of metadata; unlocked writers | no update lost; collection follows the transcript |
| BM25 cache (`storage/vector.py`) | `index.pkl`, `version.txt`, their `.tmp` files, an in-memory copy per process | build, persist, load, reload when the version grew | two files replaced one after the other, read one after the other; shared temporary names; crashes | a reader at version v holds the index of v; whole files only |
| Locks (`storage/locking.py`) | `worker.lock`, `wwt.lock` | acquire (blocking or not), release | kernel releases at death | held exactly where the code is between acquire and release |
| Remote gateway (`server/http_api.py`) and checkpoints (`storage/checkpoints.py`) | `remote_ingest_checkpoints`, the stores | ingest a batch, skip by checkpoint, record | overlapping and repeated requests, failures in the middle of a batch, one rebuild per batch | checkpoints and answers tell the truth |
| Remote client, discovery (`remote/`) | configuration | discover sessions, read their date, then their text; post batches with a timeout | sessions that grow between the reads; time-out while the gateway goes on | one id and date per session; a retry converges |
| MCP server (`server/mcp.py`) | one engine and one raw store per process | search tools, `recall_chunk`, `ingest_session` | recall reads before it locks | what was found can be recalled |
| Search engine (`search/engine.py`) | none (locals of a request) | hits, scores and boosts, penalties for overlaps, grouping by session, routing by score, merging | penalties handed out pair by pair in an unsorted list; a second search merged and cut again | the best chunk of a session keeps its score; a second search hides nothing |
| Setup (`cli/app.py`) | hook scripts, the agents' settings, the stores | install hooks, ingest existing logs, write memory files | runs again, side by side, or dies half-way; users edit the same files; agents go on writing | every hook once and with its script; the user's files keep what is not wwt's; what it promises at its end |
| Manual ingest, init, migrate (`cli/app.py`) | none | one file under the lock; `init`, `migrate` without it | unlocked writers against a worker | pointers stay right; see findings |
| Reset (`cli/app.py`) | removes all stores | takes both locks, deletes | servers with the old files open, hooks meanwhile | planned |
| Usage guide (`usage_guide.py`) | a marked block of a text file | upsert, remove | the block spells out its own markers | idempotence (see findings), the user's text stays |
| Parsers (`pipeline/parser.py`) | none | whose file it is, its turns, its project and date | files that grow between two reads, torn lines, files cut within a character, lines broken by a crash | never another agent's file; no gaps; the first project and date |
| Embedding, time helpers, config, data classes | none | numerical code, formatting, declarations | - | not modelled |

Interactions. Hooks and workers share the table and `worker.lock`; a hook
spawns a worker only if its probe of the lock succeeds. Everything that stores
is meant to hold `wwt.lock` (workers, `wwt ingest`, the gateway,
`ingest_session`, recall's access count); `wwt setup`, `wwt init` and
`wwt migrate` do not. Agents share with wwt the transcripts, which they write
and everybody else reads without a lock, and the settings, from which they
learn the hooks when a session is opened. Searches take no lock: they read Chroma directly and the
BM25 index through their in-memory copy. Raw spans are always written before
the chunks that point to them, and the BM25 index is a snapshot of the chunks.
`PROJECT.json` lists the hazards this gives rise to, each at its line.

## 2. Modules

| Module | Models | Used by |
|---|---|---|
| `IngestQueue` | the statements on `ingest_jobs` as operators on a table | `IngestWorker` |
| `IngestWorker` | hooks, workers, both locks, SQLite's reserved lock, the three stores, failures, deaths | `MCIngestWorker`, proofs |
| `TranscriptCapture` | abstract: what deferred ingestion promises for one transcript | refined by `IngestWorker` |
| `Bm25Cache` | the index files, their temporaries, versions and the caches of all processes | `MCBm25Cache`, proofs |
| `Gateway` | batches, checkpoints, stores, overlapping requests | `MCGateway`, proofs |
| `Chunker` | `chunk_turns()` as pure operators | `SessionStores`, `Search` |
| `SessionStores` | raw spans and chunks of one session with everybody who writes them | `MCSessionStores`, proofs |
| `Search` | a request from its hits through reranking, grouping and routing to its answer, over sessions that grow | `MCSearch`, proofs |
| `Transcript` | `parser.py` as pure operators on a transcript that may be torn or broken | `Setup` |
| `MemoryBlock` | `usage_guide.py` as pure operators on pieces of text | `Setup` |
| `Setup` | `wwt setup` and `remove_memory_block()` with agents, users, hooks, the worker's reads and an upload | `MCSetup`, proofs |
| `IngestWorkerProof` | theorems about `IngestWorker`: its invariants, its rows and its refinement of `TranscriptCapture` | |
| `Bm25CacheProof`, `GatewayProof` | theorems about `Bm25Cache` and `Gateway` | |
| `SessionStoresProof` | theorems about `SessionStores`: what holds without the write lock, and what it gives | |
| `SetupProof`, `SetupTranscripts` | theorems about `Setup`: the user's files, and the transcripts | |
| `SearchProof` | theorems about `Search`, and about the chunks of `Chunker` that it searches | |
| `LeastNumbers` | lemmas about least and greatest elements, which stand in for induction | `SetupProof`, `SearchProof` |
| `MC*` | constants for TLC | the `.cfg` files |

How state and actions correspond to the code:

- **IngestQueue / IngestWorker.** A row is its state, revision and attempts, and
  two Booleans for the comparisons with the clock: `settled` (the debounce since
  `enqueued_at` is over) and `due` (`next_attempt_at` is reached). `before` is
  the order of `enqueued_at`, by which `ready()` sorts. Each SQL statement is
  one operator; an action of a worker is the code between two points where
  another process can notice: one per job and phase of `process_jobs()`
  (`Prepare`, `StoreRaw`, `StoreVector`, `Acknowledge`,
  `ReadAttempts` / `Reschedule`, ...), one per step of a batch and one per step
  of `run_worker()`'s loop. The statements of `mark_transient_failure()` are
  two actions because its `SELECT` is outside the transaction of its `UPDATE`.
  A transcript's content is the number of times it has grown; a store holds a
  content number or 0 when a write broke off in the middle.
- **Bm25Cache.** Chunks in Chroma are a number that grows with every ingest,
  an index the number it was built from. `_persist_bm25()` is one action per
  file operation (`OpenTmp`, `Dump`, `Rename`, `ReadVersion`, `WriteVersion`,
  `PublishVersion`); both temporary files are shared by all processes, and a
  process that holds an open handle writes to the file wherever it was renamed.
  A failing `os.replace()` ends a command; the worker and the servers catch it
  and go on with the index they built (`ReplaceFails`). `EndWithoutRebuild` is
  an ingest that fails, or has nothing to do, and also a `wwt setup` without
  Codex logs, which ends normally before its only rebuild (app.py:156-208).
- **Gateway.** One action per store call in the loop of `ingest_sessions()`.
  A client's time-out is a second request in parallel with the first. A
  transcript has chunks from some content on (`ChunkedFrom`) and an outline from
  some content on (`OutlinedFrom`), because turns are only added. An upload
  from before the first chunk changes neither store, since both upserts return
  at once, and is recorded all the same. `raw[s]` is the set of contents whose
  spans are still there: spans are never deleted, only an outline's is
  overwritten by another outline. `vector[s]` is one content, because
  `upsert_session_chunks()` deletes what it is not given.
- **Chunker.** A turn is its role and the length of its line; a chunk is its
  granularity and its first and last turn. Transcripts only grow (all three
  parsers make one turn of one message, so earlier turns do not change), which
  is why a text is determined by the turns it covers.
- **SessionStores.** `raw` maps span ids to the last turn of the text stored,
  `vector` chunk ids to metadata. `Prepare` reads the transcript, `StoreRaw`
  is `upsert_spans()`, `DeleteStale` and `UpsertChanged` are the two halves of
  `upsert_session_chunks()`, `UpsertBatch` a batch of `wwt setup`,
  `FindSpan` .. `WriteCount` are `recall_chunk()`, `ReadOldMetas` /
  `WriteEpochs` are `migrate`. `BreakOff` is an exception or the death of a
  process at any point.
- **Search.** One action per phase of `search_with_routing()`: `FindHits` is
  `VectorStore.search()` with the filters and the scoring after it, `Compare`
  one turn of the inner loop of `_rerank()` (`left` and `right` are its
  indices plus one), `Group` the rest of `search()`; `AlsoDecisions`, `Widen`,
  `ReturnPrimary` and `Merge` are the routing. A search finds *any* few chunks
  in any order with any of the scores, so what is shown does not depend on the
  embedding, the keywords, recency, importance or the boosts. Scores are in
  percent; the reranking needs of them only their order and the penalty. A
  request that names a mode and scores between the two thresholds is widened
  to all projects (line 507 is reached), as the code does and its docstring
  does not say.

- **Transcript.** A line is what the parsers look at: its type, the keys it has
  a value or an empty value for, whether a turn is made of it, its number among
  the lines that the agent wrote, and its text:
  `json`, `torn` (a line the agent is writing, or died in), `cut` (torn within
  a character, so that decoding the file fails) or `broken` (torn and later
  continued on the same line). A `.json` file of Gemini is the object around the
  messages, then the messages. The operators follow the parsers' order, which
  decides what an error hides: the Gemini parser takes what precedes a bad line
  for everything, the other two raise; the meta data of Claude Code is collected
  from several lines and a repeated key does not replace the first. The turns of a
  file are the set of the lines they are made of; they keep the file's order.
- **MemoryBlock.** A file is a sequence of pieces: the two markers, parts of the
  rules, pieces of the user. `ReplaceBlocks` is the regular expression's
  substitution, not greedy and from left to right. The rules are the section as
  it stands in the source, in which both markers occur once more.
- **Setup.** `PlanOf` is the order of `setup()`; each part is a step of reading
  and, for a file of the user, `Truncate` and `Fill` as `write_text()` does
  it. `Memory` stands for each of the three memory files, which are written one
  after the other in the same way. `DetectSource`, `ReadTurns` and `ReadMeta`
  are the three times a transcript is opened, by a setup as well as by the worker
  (`prepare_transcript()`); between them the agent may write. The agents are
  what the parsers assume of them: `BeginLine` leaves a torn or cut line,
  `EndLine` completes it, `Close` may come in the middle. `EndTurn` is the hook
  script. A parser's exception ends a setup and costs a worker's job an attempt;
  the last one may fail it. `Discover`, `ReadDate`, `UploadText` are the
  upload of a session, with what the gateway parses of its text.
  `StoreBatch` is one step: what happens inside it is in `SessionStores` and
  `Bm25Cache`. `machine` says which agents, processes and kinds of sessions
  there are; it is chosen at the start and never changes. An agent that writes
  sessions is on the machine (`MachinesAssumption`).

### History variables

Some guarantees have exceptions that the code really has. They are recorded,
never assumed away: `killed`, `quit` (a hook or worker was killed, a `--once`
worker left rows behind), `raced`, `unfinished`, `interfered` (an index was
replaced while it was loaded, or not published by its builder, or its version was
published after an unlocked process had written; chunks were stored and not
indexed, by a failure or by a setup without Codex logs; an unlocked process
wrote), `damaged`, `cut` (the content whose store failed after the checkpoint
of its session, a batch that ended without its rebuild), `disturbed`, `overtaken` (an ingest broke off or an
unlocked process wrote; a chunk held by a recall was written without the lock). `boosted`
in `Search` only keeps the scores of before the penalties for comparison. In
`Setup`, `quiet`, `rested` and `late` say which sessions a promise is about (not
changed since its hook ran, closed since before a setup began, opened after a
setup ended), `wrote` counts what the user wrote, and `disturbed` (there) holds the
files that were changed between a setup's read and its write, met half written,
or left empty by a death.
No action is guarded by one of them, except that `wrote` also bounds the user's
edits. Where the exception contradicts what the
documentation says, there is a run without the excuse (section 5).

## 3. Runs

Every run checks deadlock except `session_stores`, `search`, `setup` and
`memory_again`, where nothing has to go on once the sessions have stopped growing,
the setups have ended and the bounds are reached.

| Run | Instance | Shows |
|---|---|---|
| `races` | 1 transcript, 2 hooks, 2 workers (1 with `--once`), all killable | revisions, locks and the final empty check: no lost update, no stranded job, no job in two hands, newer revisions survive, attempts count and none is skipped; refinement of `TranscriptCapture` |
| `liveness` | 2 transcripts, 1 hook, 1 worker, batches of 1, contents the parser rejects, stores that open | every pending job is eventually acknowledged or failed, none starves behind another |
| `resources_fail` | 1 transcript | finding |
| `bm25_rebuilds` | 2 workers, 1 server, all killable, reset | index, version and caches stay together under the lock |
| `bm25_reload`, `bm25_setup` | 1 worker and 1 server / 1 setup | findings |
| `gateway_batches` | 2 sessions that grow 3 and 2 times, with chunks and outline from the second content on, 2 requests, failures and deaths | checkpoints, index and answers are truthful about contents that have chunks |
| `gateway_cut_short` | 2 sessions, 1 request | finding |
| `session_stores` | 2 ingesters, 1 setup, 1 recall, 1 migration, up to 3 turns, windows of 2 | spans and chunks stay together; an ingest leaves what it read; recall loses nothing |
| `search` | 2 sessions of 2 projects, up to 8 and 2 turns of 3 kinds, the program's own chunk sizes (2, 6, 2, 200, 4); requests with and without project and mode, `top_k` 1 and 2, over sessions of 3 or 4 and 2 long turns, up to 3 hits with scores 50, 60, 75 | reranking spares the best chunk and moves overlaps down; routing hides nothing; no long user turn falls between windows; growing keeps ids |
| `setup` | 1 session of each kind and format, of 3 or 4 lines, with 1 setup, the worker or an upload; or 2 setups, a removal and a user at the settings and memory of Claude Code | reading a file that is written stores no gaps and no other agent or session; a quiet session is captured; a finished setup has kept its promise; hooks registered once; setups side by side keep the user's text |
| `memory_again` | 2 setups with `--with-memory` | finding |

Why the bounds are enough. Every race in question is between two holders of a
lock, or one holder and one process without it, over one datum, so two
processes of a kind and one transcript show it; starvation needs a second
transcript and batches that are too small for both, as in `liveness`. That a batch
of several jobs that fails in part acknowledges none too early is not run but
proved, for batches of any size (`LostUpdateFree`). `MaxRevision` 3 lets a row be
re-enqueued while an old revision is in hand, acknowledged and inserted again
with revision 1. `MaxContent` 2 tells old from new. In `gateway_batches` three
contents of one session are one without chunks and two with chunks and an
outline, which is what a delayed request can carry to the other; the second
session, which grows to its first chunk, gives a batch something to fail at
after it has recorded the first. `MaxAttempts` is 2 in the
safety runs, which distinguishes the last attempt from another one; `liveness`
uses the code's 3. In `session_stores`
windows of two turns with an overlap of one and three turns give every kind of
change: a chunk that grows, chunks that appear, an outline that keeps its id,
and, as the older of two ingests may store last, chunks that disappear. In
`search` eight turns cover the full window, the step of 4 and a second window
that is absent, too short or long enough. Three hits are enough for a chunk
that overlaps two others and for a penalty in either direction before the next
comparison (scores 50, 60, 75 with a penalty of 10 include a tie and an
inversion after a penalty); the three scores lie below, between and
above the routing's thresholds; two sessions and `top_k` 1 let one result push
out another. In `setup` a session is of one agent, so one session at a time shows
what two would; three lines are a first line and the two turns of a chunk
(`MinTurns` 2), a fourth lets a turn be lost between two that are kept; one edit
per file tells the user's text from none. The machine with two setups has no
sessions, because setups share with each other only the settings and memory
files (their stores are in other modules). A file that was cut, or a torn `.json`
file, is not resumed by its agent, which could not read it either. Bounds sit in
the guards of the actions that start something (`SessionWrites`, `Enqueue`, `SessionGrows`,
`BeginIngest`, `BeginCount`, ...).

Symmetry is used in runs without liveness, over processes of one kind.

Each property of a passing run has a mutant: an operator just before the
definition it stands in for, marked "Mutant" in its comment, with a plausible
bug that makes the run fail.

### Fairness

`JobsResolve` is checked under `FairSpec`: weak fairness of the steps of each
hook and each worker (the operating system runs a live process; the steps of
one process are never in each other's way, so weak fairness is enough), and of
the passing of debounce and backoff (the clock). Nothing forces a session to
write, a hook to run, a user to launch a worker or a process to die. No
fairness of locks is assumed. The liveness instance has no deaths: a killed
worker is replaced only when another hook comes, which nothing guarantees.

## 4. Proofs

All theorems hold for any number of processes of every kind (hooks, workers,
servers, setups, requests, ...), of transcripts and sessions, of lines and turns,
and for any bounds. The assumptions are those of the modules (`...Assumption`):
kinds of processes are disjoint, nobody is `Nobody`, bounds are numbers, sets of
paths and sessions are finite where they are counted, `MinTurns <= MaxTurns` for
the chunker, and for `Setup` that the agents that write sessions are on the
machine. `PROJECT.json` says which theorem states which property.

- **`IngestWorkerProof`.** `IInv` is the inductive invariant. `NoLostUpdate`
  alone is not inductive: that acknowledging is safe rests on what the job in
  hand has stored (`JobContent`), which rests on nobody else having a job on
  the same row (`JobsAreLive`), which rests on `worker.lock` being held exactly
  between acquire and release (`LocksHeld`) and on jobs existing only in the
  phases of a running worker (`JobsInPhase`). `NoStrandedJob` rests on
  `EmptyStaysEmpty`: the final check stays true until `worker.lock` is free
  because its transaction keeps every enqueue out. Theorems: `TypeCorrect`,
  `InductiveInvariant`, `LostUpdateFree`, `StrandedFree`, `JobsLive`. From the
  same invariant follow the action properties `NewerRevisionKept`
  (`NewerRevisionSafe`) and `AttemptsCounted` (`AttemptsBounded`), and
  `CaptureRefined`: the initial states and every step of `IngestWorker` map to
  `TranscriptCapture`. The mapping takes a row for a wish and the least of the
  three stores for what is had.
- **`SessionStoresProof`.** `RecallAlwaysFindsSpan`: whatever a search can
  return can be recalled, although setups and migrations have no lock and
  anybody may break off anywhere. The strengthening says that also the chunks
  somebody is *about to* upsert, compare or write back point to stored spans
  (`TodoPointed`, `ComparedPointed`, `HeldPointed`); it is inductive because
  spans are written first and never deleted.
  What the lock adds to that: `LockInv` says who owns
  the lock where (`LockOwned`, from which mutual exclusion follows); that the
  spans of an ingest at work are those of what it read (`SpansStored`); that
  what it will not upsert is stored as it would be (`RestStored`), which is
  why writing only what differs leaves everything right (`StoredAsIngested`);
  and that a recall holds metadata only under the lock (`HeldWhileWriting`,
  for `RecallLosesNothing`). `SpanMatchesChunk` is about times when nobody
  stores; `MatchingBetween` extends it to an ingest that has not begun to
  write. It rests on `SpanEnds`: only the outline's span has an id that does
  not tell its last turn.
- **`GatewayProof`.** `CheckpointCovers` is inductive with the lock
  (`LockHeld`) and what is known of the session being stored
  (`CurrentStored`): stored raw when its vectors are written, stored in both
  when its checkpoint is. All of it is about contents that have chunks, wherever
  in its growth a session gets its first chunk and its outline
  (`ContentAssumption`). Where a store has failed, the checkpoint is of another
  content than the one that failed, so that a retry is not skipped. `BehindStored` carries that along the batch until it
  is answered, through the sessions that were skipped for their checkpoints;
  `IndexInHand` says that only a batch at work is ahead of the index. The
  action property `AnsweredIsStored` follows from the last step.
- **`Bm25CacheProof`.** While nobody interferes, the owner of the lock is the
  only one with a handle, and what it writes is the index of all chunks
  (`OwnerWrites`); `IndexCurrent` says of every place of `_persist_bm25()` how
  far the files are, `CacheBehind` and `SeenBehind` that no process is ahead of
  them. `SeenIsHeld` had to be looked at again: after an unlocked process has
  renamed the shared `version.tmp` away, the version can go *back*, and
  later reach with another index a number that a server has seen. The instance
  is too small to show it; such a version now counts as raced
  (`PublishVersion`). Theorems: `IndexFollows`, `IndexIsWhole`,
  `SeenVersionIsHeld`, `CachesOnlyAdvance`.
- **`SetupProof`.** The files of the user. `HooksRegistered` rests on what
  somebody has read and *will* write: it does not have the hook yet
  (`ReadWithoutHook`), and its script is there (`ScriptFirst`). `OthersKept`
  rests on copies having all the user wrote (`OwnIsRead`) and, for memory, on
  an end marker after every start marker and before any text of the user
  (`MemoryIsClosed`), without which the substitution would take that with it. That
  `ReplaceBlocks` keeps the user's pieces (`ReplacedFrom`) holds for files of any
  length. `HookStands` says which hooks a setup has behind it. `OthersKept` is
  about setups and removals side by side, and about settings that are read while
  they are being written (`json.loads` raises). It excuses what the code does
  lose: an edit of the user between a setup's read and its write, a death within
  the write, and a memory file that is read while another process has
  truncated it.
- **`SetupTranscripts`.** `Transcribed` is what agents leave in a file at any
  time: the lines they said, under their numbers, up to the first that is not
  JSON. On it rest the lemmas about the parsers: they detect the agent or
  nobody (`WriterDetected`), what they read is gapless, and what they know of
  the session stays as the file grows (`Identity`, `Settled`). What they know is
  the line that the id, the project and the date come from; where no line gives
  them, the parsers take the name of the file and the time of the reading
  (parser.py:471-474, 605-608), so such a session has another date at every
  upload, and `UploadsAreOfOneSession` does not say otherwise. `ReadsAreTrue`
  and `StoresAreTrue` carry this from a read to the stores, although the file
  grows between the reads. For sessions that rest (`Still`), what a reader
  that began since then has read is what the file gives (`ReadsAreFresh`);
  `RestIsIngested` says where such a session is in a setup: before it, in hand,
  in its batch, or stored. Theorems: `TranscriptsAreOfTheirAgents`,
  `StoredTurnsAreGapless`, `ProjectsStay`, `UploadsAreOfOneSession`,
  `SetupKeepsItsPromise`, `HooksCapture`, `TypeCorrect`.
- **`SearchProof`.** `ItemsInv` is about one reranking: every pair that overlaps
  and has been compared has a chunk that was moved down (`ComparedPenalised`),
  scores only fall (`OnlyMovedDown`), and the best score of a session is the
  one before the penalties. That is kept because the chunk that loses is the one
  that scores *now* no higher than the other (`PenaltySpares`), and clashing is
  mutual and does not look at scores. `ResultsInv` is about the rounds: results
  are one per session, finitely many and at most `top_k` (`OnePerSession`), and
  there are none where none can be. That cutting the sorted results leaves
  exactly `top_k`, or all if there are fewer, and that what is cut is behind
  all that are left (`TopIsCut`), rests on `Outranks` being a strict order of
  a finite set. With it `RoutingHidesNothing` follows at the merge, also for scores
  that tie. `EveryTurnIsFound` has a hypothesis: `MinTurns - 1 <= Overlap`. The
  defaults of `chunk_turns()`, which all its callers in the program use (2 to 6
  turns, 2 of them shared), satisfy it. Without it the turns after the last window that is
  long enough are lost: with 2 to 3 turns and no overlap, the fourth of four turns is
  in no window. `IdsSurvive` needs no hypothesis: a batch never loses turns, text or
  the user when the session grows (`KeptGrows`). It is about ids alone: `setup`
  sets the access counts back to 0 (vector.py:218). Both need the length of
  a text as a sum over a set of turns: that the sum exists, does not depend
  on the order and grows with the set (`SumExists`, `CharsWithout`, `CharsGrow`).

The library's induction theorems take an operator as a parameter and cannot be
used. Where a proof needs induction, over the places of a file or the turns of a
batch, it takes a counterexample that is the least (`LeastNumber` and `LeastSubset`
in `LeastNumbers`, from a theorem of `FiniteSetTheorems` about well-founded sets): so
do the facts about `Min` and `Max`, about the first line of a kind, about the
substitution in a block, about the best of the results and about sums.

Only model-checked, because the prover does not reach it: `JobsResolve`
(liveness under fairness). Every other property of a passing run is a theorem.
Not proved, of course, are the properties that the runs of section 5 refute.

## 5. Findings

Five runs are expected to find a violation of what the repository says:

- `resources_fail` / `JobsResolve`: when the stores cannot be opened, prepared
  jobs are neither retried later nor counted as failed; the worker loops.
- `bm25_reload` / `FreshCache`: the index is loaded before the version is read,
  so an old index can count as the new version until the next ingest.
- `bm25_setup` / `RebuildOnUpsert`: `init` and `setup` persist an index without
  the lock and can overwrite a newer one.
- `gateway_cut_short` / `AnsweredIsSearchable`: a batch that ends with an
  exception after a session was recorded is not rebuilt, and the retry skips
  that session.
- `memory_again` / `MemoryIdempotent`: the rules end with a section that spells
  out both of their markers, so the pattern ends inside the block; `setup
  --with-memory` run again always writes, and leaves the rest of the old block
  behind the new one.

Some exceptions have no run of their own. A `--once` worker, which is started by
hand, leaves without the final check of an idle worker, and a hook that probed the
lock meanwhile starts nobody; its job waits for the next hook. `NoStrandedJob`
excuses this and the death of a process. A `wwt setup` without Codex logs, or with
none that give a chunk, ends without having rebuilt the index: what it stored
is not found by keywords until the next rebuild. `IndexFollowsChroma` excuses
it (`unfinished`), and `SetupPromise` is about the stores, not about the index.
A delayed upload from before a session's first chunk is answered as uploaded and
its checkpoint replaces that of the newer content, whose chunks stay.

`PROJECT.json` quotes the lines.

## 6. What is left out, and why

- A server that keeps Chroma or the index open across `wwt reset`, and the
  worker lock during a declined reset (planned, below).
- Threads of one gateway process sharing one `VectorStore` (planned).
- The clock itself: only comparisons with it (planned: a transcript enqueued
  more often than the debounce never settles; a clock that moves back).
- Crashes inside one Chroma upsert in `SessionStores`; there an upsert of one
  batch is one step. `IngestWorker` and `Gateway` leave the vector store of a
  session incomplete instead when a store call breaks off.
- The text of `version.txt` being written in several steps: one short write.
- `access_count` in SQLite: one atomic `UPDATE` that no other part reads.
- `wwt ingest` of a directory: the loop of `setup` under the lock.
- In `Setup`: the registration of MCP servers by the agents' own commands;
  progress and statistics; two files with the same name in different directories,
  which get the same session id when their meta data gives none; the date and
  project filters of discovery; a Gemini `.json` file that is rewritten during an
  upload, which makes the gateway answer 400 for the batch (`Gateway` has
  batches that end in the middle); whether a chunk has a turn of the user
  and text enough. `setup` does not look for `.jsonl` files of Gemini
  (app.py:555) and ends with an error when a log it reads is torn, before the
  hooks of Gemini and Codex are installed: `SetupPromise` is about the files
  it looks for and the setups that end.
- In `Search`: how a score comes about, the `code` mode's and the date's filter
  (both only remove hits, and any hits may be found), fuzzy project names, ids
  that are gone from the collection (they only take the place of a hit), and
  the order of the chunks that a result lists. A search reads the collection
  in one step; the cache that lags behind it is in `Bm25Cache`.
- Embeddings, formatting, dates, configuration: data and numbers without
  shared state. Of parsing, what makes a text a turn: a Boolean of its line.

## 7. Plan

Done, in order of importance: deferred ingestion (queue, worker, hooks,
abstract specification, proofs); the BM25 cache; the gateway; the chunker and
the session's two stores; the search; setup, parsers and memory blocks, with
the discovery and upload of sessions; the proofs of section 4.

Next:

1. The fields of a `VectorStore` that gateway threads share while a rebuild or
   a reload assigns them one by one; date filters and fuzzy project names.
2. `Reset`: both locks, the queue directory, hooks and workers meanwhile,
   processes that keep the old files, the version counter that starts again.
3. A clock for the debounce, with `JobsResolve` under repeated enqueues.
