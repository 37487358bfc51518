----------------------------- MODULE SessionStores -----------------------------
(***************************************************************************)
(* One session in the two stores: its raw spans in SQLite (raw_store.py)   *)
(* and its chunks in Chroma (vector.py), and everybody who writes them.    *)
(*                                                                         *)
(* Ingesters (the worker, `wwt ingest`, the MCP tool ingest_session) read  *)
(* the transcript first and store it under the write lock later.  Setups   *)
(* (`wwt setup`) store it without the lock.  Recallers (the MCP tool       *)
(* recall_chunk) count accesses under the lock.  Migrators (`wwt migrate`) *)
(* write metadata back without the lock.                                   *)
(*                                                                         *)
(* A chunk in Chroma is stored under the key of its id.  Chunks of older   *)
(* versions of the program have neither a span nor an epoch.               *)
(***************************************************************************)
EXTENDS Chunker

CONSTANTS
    Ingesters, Setups, Recallers, Migrators,
    Nobody,       \* the owner of the free write lock
    TurnKinds,    \* the turns that a session may add
    MaxLength,    \* bound: turns of the session
    OldLength,    \* bound: turns stored by an older version
    MaxRecalls    \* bound: recalls of chunks that are stored

Processes == Ingesters \cup Setups \cup Recallers \cup Migrators

ASSUME ProcessAssumption ==
    /\ Ingesters \cap (Setups \cup Recallers \cup Migrators) = {}
    /\ Setups \cap (Recallers \cup Migrators) = {}
    /\ Recallers \cap Migrators = {}
    /\ Nobody \notin Processes
ASSUME TurnAssumption == TurnKinds \subseteq Turn
ASSUME BoundAssumption ==
    MaxLength \in Nat /\ OldLength \in Nat /\ MaxRecalls \in Nat

VARIABLES
    turns,      \* the turns of the transcript
    raw,        \* raw_spans: the last turn of each span stored
    vector,     \* the Chroma collection: a record for each chunk id stored
    writeLock,  \* owner of wwt.lock
    pc,         \* where each process is
    prepared,   \* prepared[p]: how many turns p has read
    todo,       \* todo[p]: chunks p has still to upsert
    target,     \* target[p]: the ids of the chunks p updates
    held,       \* held[p]: the chunk metadata p has read
    overtaken,  \* history: held chunks that somebody wrote without the lock
    disturbed   \* history: an ingest broke off, or somebody had no lock

processVars == <<pc, prepared, todo, target, held>>
historyVars == <<overtaken, disturbed>>
vars == <<turns, raw, vector, writeLock, processVars, historyVars>>

-----------------------------------------------------------------------------
Granularities == {"small-window", "turn-pair", "session-outline"}

ChunkRecord == [granularity : Granularities, start : Nat, end : Nat]

Key == Granularities \X Nat

SpanKey == Key \cup (Granularities \X Nat \X Nat)

(* The metadata of a chunk that the model needs.                           *)
Meta == [end : Nat, spanned : BOOLEAN, epoch : BOOLEAN, access : Nat]

Empty == [id \in {} |-> 0]

Pc == {"idle", "prepared", "storing", "comparing", "upserting", "counting",
       "reading", "writing"}

TypeOK ==
    /\ turns \in Seq(Turn)
    /\ DOMAIN raw \subseteq SpanKey
    /\ \A s \in DOMAIN raw : raw[s] \in Nat
    /\ DOMAIN vector \subseteq Key
    /\ \A id \in DOMAIN vector : vector[id] \in Meta
    /\ writeLock \in Processes \cup {Nobody}
    /\ pc \in [Processes -> Pc]
    /\ prepared \in [Processes -> 0 .. Len(turns)]
    /\ todo \in [Processes -> SUBSET ChunkRecord]
    /\ target \in [Processes -> SUBSET Key]
    /\ DOMAIN held = Processes
    /\ \A p \in Processes :
          DOMAIN held[p] \subseteq Key /\ \A id \in DOMAIN held[p] : held[p][id] \in Meta
    /\ overtaken \subseteq Key
    /\ disturbed \in {"no", "repairing", "yes"}

Prefix(n) == SubSeq(turns, 1, n)

(* A store of an older version: windows without span, hash and epoch.      *)
OldChunks(t) ==
    [ id \in { IdOf(c) : c \in SmallWindows(t) } |->
        [end |-> LastTurn(t, id[2], MaxTurns),
         spanned |-> FALSE, epoch |-> FALSE, access |-> 0] ]

Init ==
    /\ \E n \in {0, OldLength} : turns \in [1 .. n -> TurnKinds]
    /\ raw = Empty
    /\ vector \in {Empty, OldChunks(turns)}
    /\ writeLock = Nobody
    /\ pc = [p \in Processes |-> "idle"]
    /\ prepared = [p \in Processes |-> 0]
    /\ todo = [p \in Processes |-> {}]
    /\ target = [p \in Processes |-> {}]
    /\ held = [p \in Processes |-> Empty]
    /\ overtaken = {}
    /\ disturbed = "no"

Goto(p, place) == pc' = [pc EXCEPT ![p] = place]

(* The process is done, or it raises or dies: locals and flock are gone.   *)
Leave(p) ==
    /\ Goto(p, "idle")
    /\ prepared' = [prepared EXCEPT ![p] = 0]
    /\ todo' = [todo EXCEPT ![p] = {}]
    /\ target' = [target EXCEPT ![p] = {}]
    /\ held' = [held EXCEPT ![p] = Empty]
    /\ writeLock' = IF writeLock = p THEN Nobody ELSE writeLock

(* f, with the keys of g taken from g.                                     *)
Overlay(f, g) ==
    [ x \in DOMAIN f \cup DOMAIN g |-> IF x \in DOMAIN g THEN g[x] ELSE f[x] ]

Without(f, S) == [ x \in DOMAIN f \ S |-> f[x] ]

Disturb == disturbed' = "yes"

-----------------------------------------------------------------------------
(* The agent appends a turn to the transcript.                             *)
SessionGrows ==
    /\ Len(turns) < MaxLength
    /\ \E turn \in TurnKinds : turns' = Append(turns, turn)
    /\ UNCHANGED <<raw, vector, writeLock, processVars, historyVars>>

(* Mutant: the last turn is still being written when it is counted.        *)
PrepareUnwritten(p) ==
    /\ p \in Ingesters \cup Setups
    /\ pc[p] = "idle"
    /\ Chunks(turns) # {}
    /\ prepared' = [prepared EXCEPT ![p] = Len(turns) + 1]
    /\ Goto(p, IF p \in Setups THEN "storing" ELSE "prepared")
    /\ UNCHANGED <<turns, raw, vector, writeLock, todo, target, held,
                   historyVars>>

(* prepare_transcript(): a transcript without chunks is rejected.          *)
Prepare(p) ==
    /\ p \in Ingesters \cup Setups
    /\ pc[p] = "idle"
    /\ Chunks(turns) # {}
    /\ prepared' = [prepared EXCEPT ![p] = Len(turns)]
    /\ Goto(p, IF p \in Setups THEN "storing" ELSE "prepared")
    /\ UNCHANGED <<turns, raw, vector, writeLock, todo, target, held,
                   historyVars>>

(* `with write_lock(...)`.  An ingest that starts while nobody works       *)
(* without the lock repairs what was disturbed before.                     *)
BeginStore(p) ==
    /\ pc[p] = "prepared"
    /\ writeLock = Nobody
    /\ writeLock' = p
    /\ disturbed' = IF disturbed = "yes"
                       /\ \A q \in Setups \cup Migrators : pc[q] = "idle"
                    THEN "repairing" ELSE disturbed
    /\ Goto(p, "storing")
    /\ UNCHANGED <<turns, raw, vector, prepared, todo, target, held,
                   overtaken>>

Spans(p) ==
    LET new == Chunks(Prefix(prepared[p]))
    IN  [ s \in { SpanOf(c) : c \in new } |->
            (CHOOSE c \in new : SpanOf(c) = s).end ]

AfterRaw(p) ==
    /\ pc[p] = "storing"
    /\ IF p \in Setups
       THEN /\ todo' = [todo EXCEPT ![p] = Chunks(Prefix(prepared[p]))]
            /\ Goto(p, "upserting")
            /\ Disturb
       ELSE Goto(p, "comparing") /\ UNCHANGED <<todo, disturbed>>
    /\ UNCHANGED <<turns, vector, writeLock, prepared, target, held,
                   overtaken>>

(* Mutant: ON CONFLICT(id) DO NOTHING.                                     *)
StoreRawOnce(p) ==
    /\ raw' = Overlay(Spans(p), raw)
    /\ AfterRaw(p)

(* Mutant: the spans of the session are replaced as a whole.               *)
StoreRawAnew(p) ==
    /\ raw' = Spans(p)
    /\ AfterRaw(p)

(* upsert_spans(): spans are never removed.                                *)
StoreRaw(p) ==
    /\ raw' = Overlay(raw, Spans(p))
    /\ AfterRaw(p)

(* What upsert_session_chunks() compares of a stored and a new chunk.      *)
SameShape(meta, chunk) == meta.spanned /\ meta.end = chunk.end

(* Mutant: chunks of other ids are left in the collection.                 *)
KeepStale(p) ==
    /\ pc[p] = "comparing"
    /\ todo' = [todo EXCEPT ![p] =
            { c \in Chunks(Prefix(prepared[p])) :
                ~(IdOf(c) \in DOMAIN vector /\ SameShape(vector[IdOf(c)], c)) }]
    /\ Goto(p, "upserting")
    /\ UNCHANGED <<turns, raw, vector, writeLock, prepared, target, held,
                   historyVars>>

(* The first half of upsert_session_chunks(): read the metadata of the     *)
(* session, delete the chunks of other ids, keep those that changed.       *)
DeleteStale(p) ==
    LET new == Chunks(Prefix(prepared[p]))
        stale == DOMAIN vector \ { IdOf(c) : c \in new }
    IN  /\ pc[p] = "comparing"
        /\ vector' = Without(vector, stale)
        /\ todo' = [todo EXCEPT ![p] =
               { c \in new : ~(/\ IdOf(c) \in DOMAIN vector
                               /\ SameShape(vector[IdOf(c)], c)) }]
        /\ Goto(p, "upserting")
        /\ UNCHANGED <<turns, raw, writeLock, prepared, target, held,
                       historyVars>>

(* upsert_chunks(): documents and metadata, with access_count 0.           *)
Stored(chunks) ==
    [ id \in { IdOf(c) : c \in chunks } |->
        [end |-> (CHOOSE c \in chunks : IdOf(c) = id).end,
         spanned |-> TRUE, epoch |-> TRUE, access |-> 0] ]

(* Its second half, and the lock is left.                                  *)
UpsertChanged(p) ==
    /\ p \in Ingesters
    /\ pc[p] = "upserting"
    /\ vector' = Overlay(vector, Stored(todo[p]))
    /\ disturbed' = IF disturbed = "repairing" THEN "no" ELSE disturbed
    /\ Leave(p)
    /\ UNCHANGED <<turns, raw, overtaken>>

Overtake(ids) ==
    overtaken' = overtaken \cup
        (ids \cap UNION { DOMAIN held[q] : q \in Recallers })

(* The order in which chunk_turns() lists the chunks of a session.         *)
Before(c, d) ==
    LET rank == [g \in Granularities |->
                   CASE g = "small-window" -> 1
                     [] g = "turn-pair"    -> 2
                     [] OTHER              -> 3]
    IN  \/ rank[c.granularity] < rank[d.granularity]
        \/ c.granularity = d.granularity /\ c.start < d.start

(* _bulk_ingest_directory(): batches of 64 chunks of all sessions, one of  *)
(* which may end anywhere between those of this session.                   *)
UpsertBatch(p) ==
    /\ p \in Setups
    /\ pc[p] = "upserting"
    /\ \E batch \in SUBSET todo[p] :
          /\ batch # {}
          /\ \A c \in batch, d \in todo[p] \ batch : Before(c, d)
          /\ vector' = Overlay(vector, Stored(batch))
          /\ Overtake({ IdOf(c) : c \in batch })
          /\ IF batch = todo[p]
             THEN Leave(p)
             ELSE /\ todo' = [todo EXCEPT ![p] = @ \ batch]
                  /\ UNCHANGED <<writeLock, pc, prepared, target, held>>
    /\ Disturb
    /\ UNCHANGED <<turns, raw>>

-----------------------------------------------------------------------------
(* recall_chunk()                                                          *)

(* The chunk's metadata and its span are read, without the lock.           *)
FindSpan(p) ==
    /\ p \in Recallers
    /\ pc[p] = "idle"
    /\ \E id \in DOMAIN vector :
          /\ vector[id].spanned
          /\ SpanId(id[1], id[2], vector[id].end) \in DOMAIN raw
          /\ target' = [target EXCEPT ![p] = {id}]
    /\ Goto(p, "counting")
    /\ UNCHANGED <<turns, raw, vector, writeLock, prepared, todo, held,
                   historyVars>>

(* Mutant: the access is counted without the lock.                         *)
BeginCountUnlocked(p) ==
    /\ pc[p] = "counting"
    /\ \A id \in DOMAIN vector : vector[id].access < MaxRecalls
    /\ Goto(p, "reading")
    /\ UNCHANGED <<turns, raw, vector, writeLock, prepared, todo, target, held,
                   historyVars>>

(* `with _write_lock()`; the count in SQLite is one UPDATE.                *)
BeginCount(p) ==
    /\ pc[p] = "counting"
    /\ writeLock = Nobody
    /\ \A id \in DOMAIN vector : vector[id].access < MaxRecalls
    /\ writeLock' = p
    /\ Goto(p, "reading")
    /\ UNCHANGED <<turns, raw, vector, prepared, todo, target, held,
                   historyVars>>

(* increment_access_counts() gets the metadata ...                         *)
ReadMeta(p) ==
    /\ p \in Recallers
    /\ pc[p] = "reading"
    /\ held' = [held EXCEPT ![p] =
                   [ id \in target[p] \cap DOMAIN vector |-> vector[id] ]]
    /\ Goto(p, "writing")
    /\ UNCHANGED <<turns, raw, vector, writeLock, prepared, todo, target,
                   historyVars>>

(* collection.update() skips ids that are gone.                            *)
Updated(metas) ==
    [ id \in DOMAIN vector |->
        IF id \in DOMAIN metas THEN metas[id] ELSE vector[id] ]

(* ... and writes all of it back with the new access_count.                *)
WriteCount(p) ==
    /\ p \in Recallers
    /\ pc[p] = "writing"
    /\ vector' = Updated([ id \in DOMAIN held[p] |->
                             [held[p][id] EXCEPT !.access = @ + 1] ])
    /\ overtaken' = overtaken \ DOMAIN held[p]
    /\ Leave(p)
    /\ UNCHANGED <<turns, raw, disturbed>>

-----------------------------------------------------------------------------
(* migrate()                                                               *)

ReadOldMetas(p) ==
    /\ p \in Migrators
    /\ pc[p] = "idle"
    /\ LET old == { id \in DOMAIN vector : ~vector[id].epoch }
       IN  /\ old # {}
           /\ held' = [held EXCEPT ![p] = [ id \in old |-> vector[id] ]]
    /\ Goto(p, "writing")
    /\ UNCHANGED <<turns, raw, vector, writeLock, prepared, todo, target,
                   historyVars>>

WriteEpochs(p) ==
    /\ p \in Migrators
    /\ pc[p] = "writing"
    /\ vector' = Updated([ id \in DOMAIN held[p] |->
                             [held[p][id] EXCEPT !.epoch = TRUE] ])
    /\ Overtake(DOMAIN held[p])
    /\ Disturb
    /\ Leave(p)
    /\ UNCHANGED <<turns, raw>>

-----------------------------------------------------------------------------
(* An exception, or the death of the process.                              *)
BreakOff(p) ==
    /\ pc[p] # "idle"
    /\ disturbed' = IF p \in Ingesters /\ pc[p] \in {"comparing", "upserting"}
                    THEN "yes" ELSE disturbed
    /\ overtaken' = IF p \in Recallers THEN overtaken \ DOMAIN held[p]
                                       ELSE overtaken
    /\ Leave(p)
    /\ UNCHANGED <<turns, raw, vector>>

ProcessStep(p) ==
    \/ Prepare(p)
    \/ BeginStore(p)
    \/ StoreRaw(p)
    \/ DeleteStale(p)
    \/ UpsertChanged(p)
    \/ UpsertBatch(p)
    \/ FindSpan(p)
    \/ BeginCount(p)
    \/ ReadMeta(p)
    \/ WriteCount(p)
    \/ ReadOldMetas(p)
    \/ WriteEpochs(p)
    \/ BreakOff(p)

Next == SessionGrows \/ \E p \in Processes : ProcessStep(p)

Spec == Init /\ [][Next]_vars

-----------------------------------------------------------------------------
(* Properties.                                                             *)

Storing(p) == p \in Ingesters /\ pc[p] \in {"storing", "comparing", "upserting"}

Settled == disturbed = "no" /\ \A p \in Ingesters : ~Storing(p)

(* Every chunk that a search can return can be recalled: the span that it  *)
(* points to is in SQLite, whoever stores, breaks off or has no lock.      *)
RecallFindsSpan ==
    \A id \in DOMAIN vector : vector[id].spanned =>
        SpanId(id[1], id[2], vector[id].end) \in DOMAIN raw

(* The text that recall shows is the text that was found: the outline's    *)
(* span, which keeps its id, is never of another ingest than its chunk.    *)
SpanMatchesChunk ==
    Settled => \A id \in DOMAIN vector : vector[id].spanned =>
                   raw[SpanId(id[1], id[2], vector[id].end)] = vector[id].end

(* When an ingest ends the collection holds the chunks of the turns it had *)
(* read, no more and none of another length, although it wrote only those  *)
(* that differ and other ingests had read more or fewer turns before it.   *)
IngestEnds(p) ==
    pc[p] = "upserting" /\ pc'[p] = "idle" /\ disturbed' = "no"

StoredAsIngested ==
    [][ \A p \in Ingesters : IngestEnds(p) =>
          LET chunks == Chunks(Prefix(prepared[p]))
          IN  /\ DOMAIN vector' = { IdOf(c) : c \in chunks }
              /\ \A c \in chunks : /\ vector'[IdOf(c)].spanned
                                    /\ vector'[IdOf(c)].end = c.end
      ]_vars

(* No update is lost to a recall: the metadata that it writes back with a  *)
(* new access_count is still what is stored, no other access was counted   *)
(* and no ingest stored the chunk in between, unless without the lock.     *)
RecallLosesNothing ==
    \A p \in Recallers : pc[p] = "writing" =>
        \A id \in DOMAIN held[p] \ overtaken :
            id \in DOMAIN vector /\ vector[id] = held[p][id]
=============================================================================
