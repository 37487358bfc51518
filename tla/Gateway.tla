-------------------------------- MODULE Gateway --------------------------------
(***************************************************************************)
(* The remote gateway: `wwt remote-ingest` sends the sessions of a machine *)
(* as one batch to POST /v1/ingest/sessions (http_api.py), which stores    *)
(* each session that its checkpoint does not cover and rebuilds the        *)
(* keyword index once.  Requests run in threads of one process and take    *)
(* turns by the write lock; a client that times out may send again while   *)
(* its first request still waits.                                          *)
(*                                                                         *)
(* The transcript of a session is a file that grows; content is the number *)
(* of times it has, and its hash is the content itself.  As its chunks are *)
(* those of turns that are only added to, a transcript has chunks from     *)
(* some content on, and an outline from some content on.  A content without*)
(* chunks is recorded like any other, and changes neither store.           *)
(***************************************************************************)
EXTENDS Naturals, FiniteSets

CONSTANTS
    Sessions,      \* (env, source, original_session_id)
    Requests,      \* requests that the gateway can be working on
    Nobody,        \* the owner of the free write lock; no session
    Unsupported,   \* sessions whose transcript no parser detects
    MayCrash,      \* whether the gateway process may die
    ChunkedFrom,   \* the first content that has chunks
    OutlinedFrom,  \* the first content that has an outline
    MaxContent     \* bound: how often the transcript of each session grows

ASSUME SessionsAssumption ==
    /\ IsFiniteSet(Sessions)
    /\ Unsupported \subseteq Sessions
    /\ Nobody \notin Sessions \cup Requests
ASSUME CrashAssumption == MayCrash \in BOOLEAN /\ MaxContent \in [Sessions -> Nat]
ASSUME ContentAssumption ==
    /\ ChunkedFrom \in Nat \ {0} /\ OutlinedFrom \in Nat
    /\ ChunkedFrom <= OutlinedFrom

VARIABLES
    file,        \* file[s]: the transcript on the client
    checkpoint,  \* checkpoint[s]: transcript_hash of its row, 0 without a row
    raw,         \* raw[s]: the contents whose spans RawSpanStore still holds
    vector,      \* vector[s]: the content whose chunks Chroma holds, 0 if the
                 \* chunks it holds are of no content
    bm25,        \* bm25[s]: the content whose chunks the BM25 index holds
    writeLock,   \* the request that owns wwt.lock
    place,       \* where each request is
    batch,       \* batch[r][s]: the content of s in the request, 0 if none
    todo,        \* todo[r]: sessions of the batch still to look at
    current,     \* current[r]: the session being stored, or Nobody
    mutated,     \* mutated[r]: a session was stored and recorded
    failed,      \* failed[r]: a session of the batch has failed
    damaged,     \* history: damaged[s] is the content whose storing failed
                 \* since the last checkpoint of s, 0 if none
    cut          \* history: a batch changed Chroma and did not rebuild

storeVars == <<raw, vector, bm25>>
requestVars == <<batch, todo, current, mutated, failed>>
historyVars == <<damaged, cut>>
vars == <<file, checkpoint, storeVars, writeLock, place, requestVars,
          historyVars>>

Place == {"idle", "opening", "waiting", "batch", "storing", "recording",
          "answered"}

Sent(r) == { s \in Sessions : batch[r][s] # 0 }

(* chunk_turns() makes a chunk of it, so that upsert_spans() and           *)
(* upsert_session_chunks() do not return at once.                          *)
Chunked(content) == content >= ChunkedFrom

Outlined(content) == content >= OutlinedFrom

TypeOK ==
    /\ file \in [Sessions -> Nat]
    /\ checkpoint \in [Sessions -> Nat]
    /\ raw \in [Sessions -> SUBSET Nat]
    /\ vector \in [Sessions -> Nat]
    /\ bm25 \in [Sessions -> Nat]
    /\ writeLock \in Requests \cup {Nobody}
    /\ place \in [Requests -> Place]
    /\ batch \in [Requests -> [Sessions -> Nat]]
    /\ todo \in [Requests -> SUBSET Sessions]
    /\ current \in [Requests -> Sessions \cup {Nobody}]
    /\ mutated \in [Requests -> BOOLEAN]
    /\ failed \in [Requests -> BOOLEAN]
    /\ damaged \in [Sessions -> Nat]
    /\ cut \in BOOLEAN
    /\ \A r \in Requests : todo[r] \subseteq Sent(r)

Init ==
    /\ file = [s \in Sessions |-> 0]
    /\ checkpoint = [s \in Sessions |-> 0]
    /\ raw = [s \in Sessions |-> {}]
    /\ vector = [s \in Sessions |-> 0]
    /\ bm25 = [s \in Sessions |-> 0]
    /\ writeLock = Nobody
    /\ place = [r \in Requests |-> "idle"]
    /\ batch = [r \in Requests |-> [s \in Sessions |-> 0]]
    /\ todo = [r \in Requests |-> {}]
    /\ current = [r \in Requests |-> Nobody]
    /\ mutated = [r \in Requests |-> FALSE]
    /\ failed = [r \in Requests |-> FALSE]
    /\ damaged = [s \in Sessions |-> 0]
    /\ cut = FALSE

Goto(r, to) == place' = [place EXCEPT ![r] = to]

(* The request is over: its local variables are gone.                      *)
Forgotten(r, to) ==
    /\ Goto(r, to)
    /\ todo' = [todo EXCEPT ![r] = {}]
    /\ current' = [current EXCEPT ![r] = Nobody]
    /\ mutated' = [mutated EXCEPT ![r] = FALSE]

-----------------------------------------------------------------------------
(* The client.                                                             *)

SessionGrows(s) ==
    /\ file[s] < MaxContent[s]
    /\ file' = [file EXCEPT ![s] = @ + 1]
    /\ UNCHANGED <<checkpoint, storeVars, writeLock, place, requestVars,
                   historyVars>>

(* Mutant: the batch names sessions that have no transcript.               *)
UploadEverything(r) ==
    /\ place[r] = "idle"
    /\ todo' = [todo EXCEPT ![r] = Sessions]
    /\ batch' = [batch EXCEPT ![r] = file]
    /\ failed' = [failed EXCEPT ![r] = FALSE]
    /\ Goto(r, "opening")
    /\ UNCHANGED <<file, checkpoint, storeVars, writeLock, current, mutated,
                   historyVars>>

(* discovery reads the transcripts it finds, all of them or those of a     *)
(* date, source or project, and upload_sessions() posts them as one batch. *)
Upload(r) ==
    /\ place[r] = "idle"
    /\ \E S \in SUBSET { s \in Sessions : file[s] > 0 } :
          /\ S # {}
          /\ todo' = [todo EXCEPT ![r] = S]
          /\ batch' = [batch EXCEPT ![r] =
                          [s \in Sessions |-> IF s \in S THEN file[s] ELSE 0]]
    /\ failed' = [failed EXCEPT ![r] = FALSE]
    /\ Goto(r, "opening")
    /\ UNCHANGED <<file, checkpoint, storeVars, writeLock, current, mutated,
                   historyVars>>

(* The summary reaches the client, or nobody waits for it any more.        *)
Answer(r) ==
    /\ place[r] = "answered"
    /\ batch' = [batch EXCEPT ![r] = [s \in Sessions |-> 0]]
    /\ failed' = [failed EXCEPT ![r] = FALSE]
    /\ Forgotten(r, "idle")
    /\ UNCHANGED <<file, checkpoint, storeVars, writeLock, historyVars>>

-----------------------------------------------------------------------------
(* ingest_sessions(): open the stores, take the write lock, go through the *)
(* batch, rebuild.                                                         *)

Release(r) == writeLock' = IF writeLock = r THEN Nobody ELSE writeLock

(* An exception leaves the handler: status 400 or 500, no summary.         *)
Raise(r) ==
    /\ Release(r)
    /\ batch' = [batch EXCEPT ![r] = [s \in Sessions |-> 0]]
    /\ failed' = [failed EXCEPT ![r] = FALSE]
    /\ Forgotten(r, "idle")

(* _default_stores() holds the write lock while it initializes the stores. *)
OpenStores(r) ==
    /\ place[r] = "opening"
    /\ writeLock = Nobody
    /\ Goto(r, "waiting")
    /\ UNCHANGED <<file, checkpoint, storeVars, writeLock, requestVars,
                   historyVars>>

OpenStoresFails(r) ==
    /\ place[r] = "opening"
    /\ Raise(r)
    /\ UNCHANGED <<file, checkpoint, storeVars, historyVars>>

(* Mutant: the batch does not wait for the write lock.                     *)
BeginBatchUnlocked(r) ==
    /\ place[r] = "waiting"
    /\ writeLock' = r
    /\ Goto(r, "batch")
    /\ UNCHANGED <<file, checkpoint, storeVars, requestVars, historyVars>>

BeginBatch(r) ==
    /\ place[r] = "waiting"
    /\ writeLock = Nobody
    /\ writeLock' = r
    /\ Goto(r, "batch")
    /\ UNCHANGED <<file, checkpoint, storeVars, requestVars, historyVars>>

(* Mutant: should_skip() without comparing the hash.                       *)
CoversAnyContent(r, s) == checkpoint[s] # 0

(* should_skip(): the checkpoint has the hash of this transcript.          *)
Covers(r, s) == checkpoint[s] = batch[r][s]

Skip(r, s) ==
    /\ place[r] = "batch"
    /\ s \in todo[r]
    /\ Covers(r, s)
    /\ todo' = [todo EXCEPT ![r] = @ \ {s}]
    /\ UNCHANGED <<file, checkpoint, storeVars, writeLock, place, batch, current,
                   mutated, failed, historyVars>>

(* should_skip() raises, or no parser is found and the HTTPException is    *)
(* raised again: the batch ends here, without rebuild_index().             *)
CutShort(r, s) ==
    /\ place[r] = "batch"
    /\ s \in todo[r]
    /\ cut' = (cut \/ mutated[r])
    /\ Raise(r)
    /\ UNCHANGED <<file, checkpoint, storeVars, damaged>>

(* upsert_spans(): spans are inserted, or overwritten by their id, and     *)
(* never deleted.  Only the outline has the same id in two contents.       *)
Upserted(held, content) ==
    IF Chunked(content)
    THEN {content} \cup { c \in held : ~Outlined(c) \/ ~Outlined(content) }
    ELSE held

(* The transcript is parsed and chunked and its raw spans are stored.      *)
StoreRaw(r, s) ==
    /\ place[r] = "batch"
    /\ s \in todo[r] \ Unsupported
    /\ ~Covers(r, s)
    /\ current' = [current EXCEPT ![r] = s]
    /\ todo' = [todo EXCEPT ![r] = @ \ {s}]
    /\ raw' = [raw EXCEPT ![s] = Upserted(@, batch[r][s])]
    /\ Goto(r, "storing")
    /\ UNCHANGED <<file, checkpoint, vector, bm25, writeLock, batch, mutated,
                   failed, historyVars>>

(* The content of the session being stored.                                *)
Content(r) == batch[r][current[r]]

(* upsert_session_chunks(): Chroma holds exactly the chunks it is given;   *)
(* `if not chunks: return 0` leaves those that it holds.                   *)
StoreVector(r) ==
    /\ place[r] = "storing"
    /\ vector' = [vector EXCEPT ![current[r]] =
                      IF Chunked(Content(r)) THEN Content(r) ELSE @]
    /\ Goto(r, "recording")
    /\ UNCHANGED <<file, checkpoint, raw, bm25, writeLock, requestVars,
                   historyVars>>

(* Mutant: a session is recorded without `mutated = True`.                 *)
RecordUnnoticed(r) ==
    /\ place[r] = "recording"
    /\ checkpoint' = [checkpoint EXCEPT ![current[r]] = Content(r)]
    /\ damaged' = [damaged EXCEPT ![current[r]] = 0]
    /\ current' = [current EXCEPT ![r] = Nobody]
    /\ Goto(r, "batch")
    /\ UNCHANGED <<file, storeVars, writeLock, batch, todo, mutated, failed, cut>>

Record(r) ==
    /\ place[r] = "recording"
    /\ checkpoint' = [checkpoint EXCEPT ![current[r]] = Content(r)]
    /\ damaged' = [damaged EXCEPT ![current[r]] = 0]
    /\ mutated' = [mutated EXCEPT ![r] = TRUE]
    /\ current' = [current EXCEPT ![r] = Nobody]
    /\ Goto(r, "batch")
    /\ UNCHANGED <<file, storeVars, writeLock, batch, todo, failed, cut>>

(* Parsing or the raw spans raise: nothing of the session has changed.     *)
ParseFails(r, s) ==
    /\ place[r] = "batch"
    /\ s \in todo[r] \ Unsupported
    /\ ~Covers(r, s)
    /\ todo' = [todo EXCEPT ![r] = @ \ {s}]
    /\ failed' = [failed EXCEPT ![r] = TRUE]
    /\ UNCHANGED <<file, checkpoint, storeVars, writeLock, place, batch, current,
                   mutated, historyVars>>

(* Chroma or the checkpoint raises: `except Exception: failed += 1`.       *)
StoreFails(r) ==
    /\ \/ place[r] = "storing" /\ Chunked(Content(r))
          /\ vector' \in {vector, [vector EXCEPT ![current[r]] = 0]}
       \/ place[r] = "recording" /\ UNCHANGED vector
    /\ IF Chunked(Content(r))
       THEN /\ damaged' = [damaged EXCEPT ![current[r]] = Content(r)]
            /\ cut' = TRUE
       ELSE UNCHANGED <<damaged, cut>>
    /\ failed' = [failed EXCEPT ![r] = TRUE]
    /\ current' = [current EXCEPT ![r] = Nobody]
    /\ Goto(r, "batch")
    /\ UNCHANGED <<file, checkpoint, raw, bm25, writeLock, batch, todo, mutated>>

Rebuild(r) ==
    /\ place[r] = "batch" /\ todo[r] = {}
    /\ mutated[r]
    /\ bm25' = vector
    /\ cut' = FALSE
    /\ Release(r)
    /\ Forgotten(r, "answered")
    /\ UNCHANGED <<file, checkpoint, raw, vector, batch, failed, damaged>>

(* It raises, before or after the rename of the new index.                 *)
RebuildFails(r) ==
    /\ place[r] = "batch" /\ todo[r] = {}
    /\ mutated[r]
    /\ bm25' \in {bm25, vector}
    /\ cut' = TRUE
    /\ Raise(r)
    /\ UNCHANGED <<file, checkpoint, raw, vector, damaged>>

(* `if mutated:` is false.                                                 *)
NothingMutated(r) ==
    /\ place[r] = "batch" /\ todo[r] = {}
    /\ ~mutated[r]
    /\ Release(r)
    /\ Forgotten(r, "answered")
    /\ UNCHANGED <<file, checkpoint, storeVars, batch, failed, historyVars>>

(* The gateway dies with every request it was working on.                  *)
GatewayDies ==
    /\ MayCrash
    /\ \E r \in Requests : place[r] # "idle"
    /\ LET owner == { r \in Requests :
                        current[r] # Nobody /\ Chunked(Content(r)) }
           half == { r \in owner : place[r] = "storing" }
       IN  /\ vector' \in {vector} \cup
                            { [vector EXCEPT ![current[r]] = 0] : r \in half }
           /\ damaged' = [s \in Sessions |->
                  IF \E r \in owner : current[r] = s
                  THEN Content(CHOOSE r \in owner : current[r] = s)
                  ELSE damaged[s]]
           /\ cut' = (cut \/ owner # {} \/ \E r \in Requests : mutated[r])
    /\ writeLock' = Nobody
    /\ place' = [r \in Requests |-> "idle"]
    /\ batch' = [r \in Requests |-> [s \in Sessions |-> 0]]
    /\ todo' = [r \in Requests |-> {}]
    /\ current' = [r \in Requests |-> Nobody]
    /\ mutated' = [r \in Requests |-> FALSE]
    /\ failed' = [r \in Requests |-> FALSE]
    /\ UNCHANGED <<file, checkpoint, raw, bm25>>

-----------------------------------------------------------------------------
RequestStep(r) ==
    \/ OpenStores(r)
    \/ OpenStoresFails(r)
    \/ BeginBatch(r)
    \/ \E s \in Sessions :
          Skip(r, s) \/ CutShort(r, s) \/ StoreRaw(r, s) \/ ParseFails(r, s)
    \/ StoreVector(r)
    \/ Record(r)
    \/ StoreFails(r)
    \/ Rebuild(r)
    \/ RebuildFails(r)
    \/ NothingMutated(r)
    \/ Answer(r)

Next ==
    \/ \E s \in Sessions : SessionGrows(s)
    \/ \E r \in Requests : Upload(r) \/ RequestStep(r)
    \/ GatewayDies

Spec == Init /\ [][Next]_vars

-----------------------------------------------------------------------------
(* Properties.                                                             *)

BeingStored(s) ==
    \E r \in Requests : current[r] = s /\ Chunked(Content(r))

(* A checkpoint covers what is stored: as long as nobody is storing chunks *)
(* of the session, and no store of it has failed since, both stores hold   *)
(* the chunks and spans of the content whose next upload will be skipped;  *)
(* and where one has failed, the upload of what failed is not skipped.     *)
(* (The checkpoint of a content without chunks covers nothing: a late copy *)
(* from before the first chunk leaves what a newer one stored.)            *)
CheckpointCovers ==
    \A s \in Sessions : ~BeingStored(s) =>
        /\ Chunked(checkpoint[s]) /\ damaged[s] = 0 =>
              checkpoint[s] \in raw[s] /\ vector[s] = checkpoint[s]
        /\ damaged[s] # 0 => checkpoint[s] # damaged[s]

Answers(r) == place[r] # "answered" /\ place'[r] = "answered"

(* A summary without failures is true: whatever other requests, crashes    *)
(* and retries did before, the stores hold what the batch has chunks of as *)
(* it was sent when it is answered, unless a store of the session had      *)
(* failed since the checkpoint for which it was skipped.                   *)
AnsweredIsStored ==
    [][ \A r \in Requests : Answers(r) /\ ~failed[r] =>
          \A s \in Sent(r) : Chunked(batch[r][s]) =>
              damaged[s] # 0
              \/ (batch[r][s] \in raw[s] /\ vector[s] = batch[r][s]) ]_vars

(* When no batch is at work, the keyword index is that of the chunks,      *)
(* unless a batch was cut short after it had changed them.                 *)
IndexFollows == writeLock = Nobody /\ ~cut => bm25 = vector

(* ARCHITECTURE.md: "Stale Index: Automatic rebuild on upsert (atomic)".   *)
(* A batch that is answered without failures is in the keyword index.      *)
AnsweredIsSearchable ==
    [][ \A r \in Requests : Answers(r) /\ ~failed[r] =>
          \A s \in Sent(r) : Chunked(batch[r][s]) =>
              damaged[s] # 0 \/ bm25'[s] = batch[r][s] ]_vars
=============================================================================
