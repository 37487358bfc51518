-------------------------- MODULE SessionStoresProof --------------------------
(***************************************************************************)
(* Proofs about SessionStores, for any number of processes, any session    *)
(* and any sizes of the chunker: its type invariant, that whatever a       *)
(* search can return can be recalled, and what the write lock gives.       *)
(***************************************************************************)
EXTENDS SessionStores, TLAPS

(* chunk_turns() makes proper chunks: every batch has a last turn.         *)
LEMMA ChunksType ==
  ASSUME NEW t \in Seq(Turn)
  PROVE  /\ \A i \in 0 .. Len(t) - 1, n \in Nat \ {0} : LastTurn(t, i, n) \in Nat
         /\ Chunks(t) \subseteq ChunkRecord
  <1>1. \A i \in 0 .. Len(t) - 1, n \in Nat \ {0} : LastTurn(t, i, n) \in Nat
    BY DEF LastTurn
  <1>2. SmallWindows(t) \subseteq ChunkRecord
    <2>1. WindowStarts(t) \subseteq 0 .. Len(t) - 1 /\ MaxTurns \in Nat \ {0}
      BY WindowAssumption DEF WindowStarts
    <2>2. ASSUME NEW i \in WindowStarts(t)
          PROVE  i \in Nat /\ LastTurn(t, i, MaxTurns) \in Nat
      <3>1. i \in 0 .. Len(t) - 1
        BY <2>1
      <3>2. LastTurn(t, i, MaxTurns) \in Nat
        BY <1>1, <2>1, <3>1
      <3> QED
        BY <3>1, <3>2
    <2> QED
      BY <2>2 DEF SmallWindows, BatchChunks, Chunk, ChunkRecord, Granularities
  <1>3. TurnPairs(t) \subseteq ChunkRecord
    <2>1. PairStarts(t) \subseteq 0 .. Len(t) - 1
      BY DEF PairStarts
    <2>2. \A i \in PairStarts(t) : i \in Nat /\ LastTurn(t, i, 2) \in Nat
      BY <1>1, <2>1
    <2> QED
      BY <2>2 DEF TurnPairs, BatchChunks, Chunk, ChunkRecord, Granularities
  <1>4. Outline(t) \subseteq ChunkRecord
    BY LimitAssumption DEF Outline, Chunk, ChunkRecord, Granularities
  <1> QED
    BY <1>1, <1>2, <1>3, <1>4 DEF Chunks

(* A chunk's id and last turn determine its span.                          *)
LEMMA ChunkSpan ==
  ASSUME NEW c \in ChunkRecord
  PROVE  /\ IdOf(c) \in Key
         /\ SpanOf(c) \in SpanKey
         /\ SpanId(IdOf(c)[1], IdOf(c)[2], c.end) = SpanOf(c)
  BY DEF ChunkRecord, IdOf, ChunkId, SpanOf, SpanId, Key, SpanKey

-----------------------------------------------------------------------------
(* A chunk on its way into the collection has its span in SQLite: those a  *)
(* process has still to upsert, those it is about to compare, and those    *)
(* whose metadata it will write back.                                      *)
Pointed(id, meta) ==
    meta.spanned => SpanId(id[1], id[2], meta.end) \in DOMAIN raw

TodoPointed ==
    \A p \in Processes : \A c \in todo[p] : SpanOf(c) \in DOMAIN raw

ComparedPointed ==
    \A p \in Processes : pc[p] = "comparing" =>
        \A c \in Chunks(Prefix(prepared[p])) : SpanOf(c) \in DOMAIN raw

HeldPointed ==
    \A p \in Processes : \A id \in DOMAIN held[p] : Pointed(id, held[p][id])

IInv ==
    /\ TypeOK
    /\ RecallFindsSpan
    /\ TodoPointed
    /\ ComparedPointed
    /\ HeldPointed

-----------------------------------------------------------------------------
LEMMA InitIInv == Init => IInv
  <1> SUFFICES ASSUME Init PROVE IInv
    OBVIOUS
  <1> USE DEF Init
  <1>1. turns \in Seq(Turn)
    BY TurnAssumption, BoundAssumption
  <1>2. /\ DOMAIN vector \subseteq Key
        /\ \A id \in DOMAIN vector : vector[id] \in Meta /\ ~vector[id].spanned
    <2>1. CASE vector = Empty
      BY <2>1 DEF Empty
    <2>2. CASE vector = OldChunks(turns)
      <3>1. ASSUME NEW c \in SmallWindows(turns)
            PROVE  /\ IdOf(c) \in Key
                   /\ LastTurn(turns, IdOf(c)[2], MaxTurns) \in Nat
        <4>1. PICK i \in WindowStarts(turns) :
                 c = Chunk("small-window", i, LastTurn(turns, i, MaxTurns))
          BY DEF SmallWindows, BatchChunks
        <4>2. i \in 0 .. Len(turns) - 1
          BY DEF WindowStarts
        <4>3. IdOf(c) = <<"small-window", i>>
          BY <4>1 DEF IdOf, ChunkId, Chunk
        <4>4. LastTurn(turns, i, MaxTurns) \in Nat
          BY <1>1, <4>2, ChunksType, WindowAssumption
        <4> QED
          BY <4>2, <4>3, <4>4 DEF Key, Granularities
      <3> QED
        BY <2>2, <3>1 DEF OldChunks, Meta
    <2> QED
      BY <2>1, <2>2
  <1>3. TypeOK
    BY <1>1, <1>2 DEF TypeOK, Empty, Pc
  <1> QED
    BY <1>2, <1>3 DEF IInv, RecallFindsSpan, TodoPointed, ComparedPointed,
                      HeldPointed, Empty

(* What Leave() does to the locals of a process.                           *)
LEMMA LeaveKeeps ==
  ASSUME IInv, NEW p \in Processes, Leave(p), UNCHANGED turns,
         DOMAIN raw \subseteq DOMAIN raw'
  PROVE  /\ writeLock' \in Processes \cup {Nobody}
         /\ pc' \in [Processes -> Pc]
         /\ prepared' \in [Processes -> 0 .. Len(turns)]
         /\ todo' \in [Processes -> SUBSET ChunkRecord]
         /\ target' \in [Processes -> SUBSET Key]
         /\ DOMAIN held' = Processes
         /\ \A q \in Processes : /\ DOMAIN held'[q] \subseteq Key
                                 /\ \A id \in DOMAIN held'[q] : held'[q][id] \in Meta
         /\ TodoPointed' /\ ComparedPointed' /\ HeldPointed'
  <1> USE DEF IInv, TypeOK, Leave, Goto
  <1>1. \A q \in Processes : prepared'[q] \in 0 .. Len(turns)
    OBVIOUS
  <1>2. \A q \in Processes : held'[q] = IF q = p THEN Empty ELSE held[q]
    OBVIOUS
  <1>3. TodoPointed'
    BY DEF TodoPointed
  <1>4. ComparedPointed'
    <2> SUFFICES ASSUME NEW q \in Processes, pc'[q] = "comparing",
                        NEW c \in Chunks(Prefix(prepared[q]))
                 PROVE  q # p /\ SpanOf(c) \in DOMAIN raw
      BY DEF ComparedPointed, Prefix
    <2> QED
      BY DEF ComparedPointed
  <1>5. HeldPointed'
    BY <1>2 DEF HeldPointed, Pointed, Empty
  <1> QED
    BY <1>1, <1>2, <1>3, <1>4, <1>5 DEF Pc, Empty

(* The steps that change neither the stores nor what is to be stored.      *)
LEMMA QuietSteps ==
  ASSUME IInv, NEW p \in Processes,
         \/ Prepare(p) \/ BeginStore(p) \/ FindSpan(p) \/ BeginCount(p)
         \/ ReadMeta(p) \/ ReadOldMetas(p) \/ BreakOff(p)
  PROVE  IInv'
  <1> USE DEF IInv
  <1>1. CASE Prepare(p)
    <2>1. TypeOK'
      BY <1>1 DEF TypeOK, Prepare, Goto, Pc, historyVars
    <2>2. ComparedPointed'
      <3> SUFFICES ASSUME NEW q \in Processes, pc'[q] = "comparing",
                          NEW c \in Chunks(Prefix(prepared'[q]))
                   PROVE  SpanOf(c) \in DOMAIN raw
        BY <1>1 DEF ComparedPointed, Prepare, Prefix
      <3>1. q # p /\ pc[q] = "comparing" /\ prepared'[q] = prepared[q]
        BY <1>1 DEF Prepare, Goto, TypeOK
      <3> QED
        BY <3>1 DEF ComparedPointed
    <2> QED
      BY <1>1, <2>1, <2>2 DEF Prepare, RecallFindsSpan, TodoPointed, HeldPointed,
                              Pointed
  <1>2. CASE BeginStore(p)
    BY <1>2 DEF BeginStore, Goto, TypeOK, Pc, RecallFindsSpan, TodoPointed,
                ComparedPointed, HeldPointed, Pointed, Prefix
  <1>3. CASE FindSpan(p)
    <2>1. PICK id \in DOMAIN vector : target' = [target EXCEPT ![p] = {id}]
      BY <1>3 DEF FindSpan
    <2> QED
      BY <1>3, <2>1 DEF FindSpan, Goto, TypeOK, Pc, RecallFindsSpan, TodoPointed,
                        ComparedPointed, HeldPointed, Pointed, Prefix,
                        historyVars
  <1>4. CASE BeginCount(p)
    BY <1>4 DEF BeginCount, Goto, TypeOK, Pc, RecallFindsSpan, TodoPointed,
                ComparedPointed, HeldPointed, Pointed, Prefix, historyVars
  <1>5. ASSUME NEW S \in SUBSET DOMAIN vector,
               held' = [held EXCEPT ![p] = [ id \in S |-> vector[id] ]],
               Goto(p, "writing"),
               UNCHANGED <<turns, raw, vector, writeLock, prepared, todo, target,
                           historyVars>>
        PROVE  IInv'
    <2>1. \A q \in Processes : held'[q] = IF q = p THEN [ id \in S |-> vector[id] ]
                                                 ELSE held[q]
      BY <1>5 DEF TypeOK
    <2>2. TypeOK'
      BY <1>5, <2>1 DEF TypeOK, Goto, Pc, historyVars
    <2>3. HeldPointed'
      BY <1>5, <2>1 DEF HeldPointed, Pointed, RecallFindsSpan
    <2> QED
      BY <1>5, <2>2, <2>3 DEF RecallFindsSpan, TodoPointed, ComparedPointed, Goto,
                              Prefix, TypeOK
  <1>6. CASE ReadMeta(p)
    BY <1>5, <1>6 DEF ReadMeta
  <1>7. CASE ReadOldMetas(p)
    BY <1>5, <1>7 DEF ReadOldMetas
  <1>8. CASE BreakOff(p)
    <2>1. UNCHANGED <<turns, raw, vector>> /\ Leave(p)
      BY <1>8 DEF BreakOff
    <2>2. TypeOK'
      BY <1>8, <2>1, LeaveKeeps DEF BreakOff, TypeOK
    <2> QED
      BY <2>1, <2>2, LeaveKeeps DEF RecallFindsSpan
  <1> QED
    BY <1>1, <1>2, <1>3, <1>4, <1>6, <1>7, <1>8

(* Spans are only ever added to those that are stored.                     *)
LEMMA StoreRawStep ==
  ASSUME IInv, NEW p \in Processes, StoreRaw(p)
  PROVE  IInv'
  <1> USE DEF IInv
  <1> DEFINE new == Chunks(Prefix(prepared[p]))
  <1>1. new \subseteq ChunkRecord
    <2>1. Prefix(prepared[p]) \in Seq(Turn)
      BY DEF TypeOK, Prefix
    <2> QED
      BY <2>1, ChunksType
  <1>2. /\ DOMAIN Spans(p) = { SpanOf(c) : c \in new }
        /\ \A s \in DOMAIN Spans(p) : Spans(p)[s] \in Nat
    <2>1. DOMAIN Spans(p) = { SpanOf(c) : c \in new }
      BY DEF Spans
    <2>2. ASSUME NEW s \in DOMAIN Spans(p)
          PROVE  Spans(p)[s] \in Nat
      <3>1. \E c \in new : SpanOf(c) = s
        BY <2>1
      <3>2. Spans(p)[s] = (CHOOSE c \in new : SpanOf(c) = s).end
        BY <2>1 DEF Spans
      <3> QED
        BY <1>1, <3>1, <3>2 DEF ChunkRecord
    <2> QED
      BY <2>1, <2>2
  <1>3. /\ DOMAIN raw' = DOMAIN raw \cup DOMAIN Spans(p)
        /\ \A s \in DOMAIN raw' : raw'[s] \in Nat
    BY <1>2 DEF StoreRaw, Overlay, TypeOK
  <1>4. DOMAIN raw' \subseteq SpanKey
    BY <1>1, <1>2, <1>3, ChunkSpan DEF TypeOK
  <1>5. UNCHANGED <<turns, vector, writeLock, prepared, target, held, overtaken>>
    BY DEF StoreRaw, AfterRaw
  <1>6. \A c \in new : SpanOf(c) \in DOMAIN raw'
    BY <1>2, <1>3
  <1>7. RecallFindsSpan' /\ HeldPointed'
    BY <1>3, <1>5 DEF RecallFindsSpan, HeldPointed, Pointed
  <1>8. CASE p \in Setups
    <2>1. /\ todo' = [todo EXCEPT ![p] = new]
          /\ pc' = [pc EXCEPT ![p] = "upserting"]
          /\ disturbed' = "yes"
      BY <1>8 DEF StoreRaw, AfterRaw, Goto, Disturb
    <2>2. TypeOK'
      BY <1>1, <1>3, <1>4, <1>5, <2>1 DEF TypeOK, Pc
    <2>3. TodoPointed'
      BY <1>3, <1>6, <2>1 DEF TodoPointed, TypeOK
    <2>4. ComparedPointed'
      BY <1>3, <1>5, <2>1 DEF ComparedPointed, TypeOK, Prefix
    <2> QED
      BY <1>7, <2>2, <2>3, <2>4
  <1>9. CASE p \notin Setups
    <2>1. /\ pc' = [pc EXCEPT ![p] = "comparing"]
          /\ UNCHANGED <<todo, disturbed>>
      BY <1>9 DEF StoreRaw, AfterRaw, Goto
    <2>2. TypeOK'
      BY <1>3, <1>4, <1>5, <2>1 DEF TypeOK, Pc
    <2>3. TodoPointed'
      BY <1>3, <2>1 DEF TodoPointed
    <2>4. ComparedPointed'
      BY <1>3, <1>5, <1>6, <2>1 DEF ComparedPointed, TypeOK, Prefix
    <2> QED
      BY <1>7, <2>2, <2>3, <2>4
  <1> QED
    BY <1>8, <1>9

(* The steps that change the collection: chunks are upserted once their    *)
(* spans are stored, and metadata is written back that was read from it.   *)
LEMMA VectorSteps ==
  ASSUME IInv, NEW p \in Processes,
         \/ DeleteStale(p) \/ UpsertChanged(p) \/ UpsertBatch(p)
         \/ WriteCount(p) \/ WriteEpochs(p)
  PROVE  IInv'
  <1> USE DEF IInv
  <1> DEFINE VectorFine ==
        /\ DOMAIN vector' \subseteq Key
        /\ \A id \in DOMAIN vector' : vector'[id] \in Meta
        /\ RecallFindsSpan'
  <1>1. ASSUME NEW S \in SUBSET ChunkRecord,
               \A c \in S : SpanOf(c) \in DOMAIN raw,
               vector' = Overlay(vector, Stored(S)), UNCHANGED raw
        PROVE  VectorFine
    <2>1. ASSUME NEW id \in DOMAIN Stored(S)
          PROVE  /\ id \in Key
                 /\ Stored(S)[id] \in Meta
                 /\ SpanId(id[1], id[2], Stored(S)[id].end) \in DOMAIN raw
      <3> DEFINE d == CHOOSE c \in S : IdOf(c) = id
      <3>1. DOMAIN Stored(S) = { IdOf(c) : c \in S }
        BY DEF Stored
      <3>2. \E c \in S : IdOf(c) = id
        BY <3>1
      <3>3. d \in S /\ IdOf(d) = id
        BY <3>2
      <3>4. Stored(S)[id] = [end |-> d.end, spanned |-> TRUE, epoch |-> TRUE,
                             access |-> 0]
        BY <3>1 DEF Stored
      <3>5. d \in ChunkRecord /\ d.end \in Nat
        BY <3>3 DEF ChunkRecord
      <3>6. /\ IdOf(d) \in Key
            /\ SpanId(IdOf(d)[1], IdOf(d)[2], d.end) = SpanOf(d)
        BY <3>5, ChunkSpan
      <3>7. SpanOf(d) \in DOMAIN raw
        BY <1>1, <3>3
      <3> HIDE DEF d
      <3> QED
        BY <3>3, <3>4, <3>5, <3>6, <3>7 DEF Meta
    <2>2. /\ DOMAIN vector' = DOMAIN vector \cup DOMAIN Stored(S)
          /\ \A id \in DOMAIN vector' :
                vector'[id] = IF id \in DOMAIN Stored(S) THEN Stored(S)[id]
                                                         ELSE vector[id]
      BY <1>1 DEF Overlay
    <2>3. \A id \in DOMAIN vector' : id \in Key /\ vector'[id] \in Meta
      BY <2>1, <2>2 DEF TypeOK
    <2>4. RecallFindsSpan'
      BY <1>1, <2>1, <2>2 DEF RecallFindsSpan
    <2> QED
      BY <2>3, <2>4
  <1>2. ASSUME NEW metas, UNCHANGED raw, vector' = Updated(metas),
               \A id \in DOMAIN metas : metas[id] \in Meta /\ Pointed(id, metas[id])
        PROVE  VectorFine
    <2>1. /\ DOMAIN vector' = DOMAIN vector
          /\ \A id \in DOMAIN vector :
                vector'[id] = IF id \in DOMAIN metas THEN metas[id] ELSE vector[id]
      BY <1>2 DEF Updated
    <2>2. \A id \in DOMAIN vector' : vector'[id] \in Meta
      BY <1>2, <2>1 DEF TypeOK
    <2>3. RecallFindsSpan'
      BY <1>2, <2>1 DEF RecallFindsSpan, Pointed
    <2> QED
      BY <2>1, <2>2, <2>3 DEF TypeOK
  <1>3. todo[p] \in SUBSET ChunkRecord /\ \A c \in todo[p] : SpanOf(c) \in DOMAIN raw
    BY DEF TypeOK, TodoPointed
  <1>4. \A S : Overtake(S) => overtaken' \subseteq Key
    <2>1. \A q \in Recallers : DOMAIN held[q] \subseteq Key
      BY DEF TypeOK, Processes
    <2> QED
      BY <2>1 DEF Overtake, TypeOK
  <1>5. CASE DeleteStale(p)
    <2> DEFINE new == Chunks(Prefix(prepared[p]))
    <2>1. new \subseteq ChunkRecord
      <3>1. Prefix(prepared[p]) \in Seq(Turn)
        BY DEF TypeOK, Prefix
      <3> QED
        BY <3>1, ChunksType
    <2>2. \A c \in new : SpanOf(c) \in DOMAIN raw
      BY <1>5 DEF ComparedPointed, DeleteStale
    <2>3. /\ UNCHANGED <<turns, raw, writeLock, prepared, target, held, historyVars>>
          /\ pc' = [pc EXCEPT ![p] = "upserting"]
      BY <1>5 DEF DeleteStale, Goto
    <2>4. PICK S \in SUBSET new : todo' = [todo EXCEPT ![p] = S]
      <3>1. { c \in new : ~(/\ IdOf(c) \in DOMAIN vector
                            /\ SameShape(vector[IdOf(c)], c)) } \in SUBSET new
        OBVIOUS
      <3> QED
        BY <1>5, <3>1 DEF DeleteStale
    <2>5. PICK stale : vector' = Without(vector, stale)
      BY <1>5 DEF DeleteStale
    <2> HIDE DEF new
    <2>6. VectorFine
      BY <2>3, <2>5 DEF Without, TypeOK, RecallFindsSpan
    <2>7. TypeOK'
      BY <2>1, <2>3, <2>4, <2>6 DEF TypeOK, Pc, historyVars
    <2>8. TodoPointed' /\ ComparedPointed' /\ HeldPointed'
      BY <2>2, <2>3, <2>4 DEF TypeOK, TodoPointed, ComparedPointed, HeldPointed,
                              Pointed, Prefix
    <2> QED
      BY <2>6, <2>7, <2>8
  <1>6. CASE UpsertChanged(p)
    <2>1. VectorFine
      BY <1>1, <1>3, <1>6 DEF UpsertChanged
    <2>2. Leave(p) /\ UNCHANGED <<turns, raw, overtaken>>
          /\ disturbed' \in {"no", "repairing", "yes"}
      BY <1>6 DEF UpsertChanged, TypeOK
    <2> QED
      BY <2>1, <2>2, LeaveKeeps DEF TypeOK
  <1>7. CASE UpsertBatch(p)
    <2>1. PICK batch \in SUBSET todo[p] :
             /\ vector' = Overlay(vector, Stored(batch))
             /\ Overtake({ IdOf(c) : c \in batch })
             /\ IF batch = todo[p]
                THEN Leave(p)
                ELSE /\ todo' = [todo EXCEPT ![p] = @ \ batch]
                     /\ UNCHANGED <<writeLock, pc, prepared, target, held>>
      BY <1>7 DEF UpsertBatch
    <2>2. UNCHANGED <<turns, raw>> /\ disturbed' = "yes"
      BY <1>7 DEF UpsertBatch, Disturb
    <2>3. VectorFine
      BY <1>1, <1>3, <2>1, <2>2
    <2>4. overtaken' \subseteq Key
      BY <1>4, <2>1
    <2>5. CASE batch = todo[p]
      BY <2>1, <2>2, <2>3, <2>4, <2>5, LeaveKeeps DEF TypeOK
    <2>6. CASE batch # todo[p]
      <3>1. /\ todo' = [todo EXCEPT ![p] = @ \ batch]
            /\ UNCHANGED <<writeLock, pc, prepared, target, held>>
        BY <2>1, <2>6
      <3>2. TypeOK'
        BY <2>2, <2>3, <2>4, <3>1 DEF TypeOK
      <3>3. TodoPointed' /\ ComparedPointed' /\ HeldPointed'
        BY <2>2, <3>1 DEF TypeOK, TodoPointed, ComparedPointed, HeldPointed,
                          Pointed, Prefix
      <3> QED
        BY <2>3, <3>2, <3>3
    <2> QED
      BY <2>5, <2>6
  <1>8. CASE WriteCount(p)
    <2> DEFINE metas == [ id \in DOMAIN held[p] |->
                            [held[p][id] EXCEPT !.access = @ + 1] ]
    <2>1. ASSUME NEW id \in DOMAIN metas
          PROVE  metas[id] \in Meta /\ Pointed(id, metas[id])
      <3>1. held[p][id] \in Meta /\ Pointed(id, held[p][id])
        BY DEF TypeOK, HeldPointed
      <3>2. metas[id] = [held[p][id] EXCEPT !.access = @ + 1]
        OBVIOUS
      <3> HIDE DEF metas
      <3> QED
        BY <3>1, <3>2 DEF Pointed, Meta
    <2>2. /\ vector' = Updated(metas) /\ UNCHANGED <<turns, raw, disturbed>>
          /\ Leave(p) /\ overtaken' \subseteq Key
      BY <1>8 DEF WriteCount, TypeOK
    <2> HIDE DEF metas
    <2>3. VectorFine
      BY <1>2, <2>1, <2>2
    <2> QED
      BY <2>2, <2>3, LeaveKeeps DEF TypeOK
  <1>9. CASE WriteEpochs(p)
    <2> DEFINE metas == [ id \in DOMAIN held[p] |->
                            [held[p][id] EXCEPT !.epoch = TRUE] ]
    <2>1. ASSUME NEW id \in DOMAIN metas
          PROVE  metas[id] \in Meta /\ Pointed(id, metas[id])
      <3>1. held[p][id] \in Meta /\ Pointed(id, held[p][id])
        BY DEF TypeOK, HeldPointed
      <3>2. metas[id] = [held[p][id] EXCEPT !.epoch = TRUE]
        OBVIOUS
      <3> HIDE DEF metas
      <3> QED
        BY <3>1, <3>2 DEF Pointed, Meta
    <2>2. /\ vector' = Updated(metas) /\ UNCHANGED <<turns, raw>>
          /\ Leave(p) /\ overtaken' \subseteq Key /\ disturbed' = "yes"
      BY <1>4, <1>9 DEF WriteEpochs, Disturb
    <2> HIDE DEF metas
    <2>3. VectorFine
      BY <1>2, <2>1, <2>2
    <2> QED
      BY <2>2, <2>3, LeaveKeeps DEF TypeOK
  <1> QED
    BY <1>5, <1>6, <1>7, <1>8, <1>9

-----------------------------------------------------------------------------
(* Whatever is on its way into the collection has its span in SQLite, in   *)
(* every reachable state and for any number of processes and turns.        *)
THEOREM InductiveInvariant == Spec => []IInv
  <1>1. Init => IInv
    BY InitIInv
  <1>2. IInv /\ [Next]_vars => IInv'
    <2> SUFFICES ASSUME IInv, [Next]_vars PROVE IInv'
      OBVIOUS
    <2>1. CASE SessionGrows
      <3> USE DEF IInv
      <3>1. PICK x \in TurnKinds : turns' = Append(turns, x)
        BY <2>1 DEF SessionGrows
      <3>2. x \in Turn /\ turns \in Seq(Turn)
        BY TurnAssumption DEF TypeOK
      <3>3. /\ turns' \in Seq(Turn) /\ Len(turns') = Len(turns) + 1
            /\ \A n \in 0 .. Len(turns) : SubSeq(turns', 1, n) = SubSeq(turns, 1, n)
        BY <3>1, <3>2
      <3>4. UNCHANGED <<raw, vector, writeLock, processVars, historyVars>>
        BY <2>1 DEF SessionGrows
      <3>5. TypeOK'
        BY <3>3, <3>4 DEF TypeOK, processVars, historyVars
      <3>6. ComparedPointed'
        <4> SUFFICES ASSUME NEW q \in Processes, pc'[q] = "comparing"
                     PROVE  \A c \in Chunks(SubSeq(turns', 1, prepared'[q])) :
                               SpanOf(c) \in DOMAIN raw
          BY <3>4 DEF ComparedPointed, Prefix
        <4>1. prepared'[q] = prepared[q] /\ prepared[q] \in 0 .. Len(turns)
              /\ pc[q] = "comparing"
          BY <3>4 DEF TypeOK, processVars
        <4>2. SubSeq(turns', 1, prepared'[q]) = Prefix(prepared[q])
          BY <3>3, <4>1 DEF Prefix
        <4> QED
          BY <4>1, <4>2 DEF ComparedPointed
      <3> QED
        BY <3>4, <3>5, <3>6 DEF processVars, RecallFindsSpan, TodoPointed,
                                HeldPointed, Pointed
    <2>2. CASE \E p \in Processes : ProcessStep(p)
      <3> SUFFICES ASSUME NEW p \in Processes, ProcessStep(p) PROVE IInv'
        BY <2>2
      <3> QED
        BY QuietSteps, StoreRawStep, VectorSteps DEF ProcessStep
    <2>3. CASE UNCHANGED vars
      BY <2>3 DEF vars, processVars, historyVars, IInv, TypeOK, RecallFindsSpan,
                  TodoPointed, ComparedPointed, HeldPointed, Pointed, Prefix
    <2> QED
      BY <2>1, <2>2, <2>3 DEF Next
  <1> QED
    BY <1>1, <1>2, PTL DEF Spec

(* The stores and the locals of their writers keep their types.            *)
THEOREM TypeCorrect == Spec => []TypeOK
  <1>1. IInv => TypeOK
    BY DEF IInv
  <1> QED
    BY <1>1, InductiveInvariant, PTL

(* recall_chunk() finds the span of every chunk that a search can return,  *)
(* whatever breaks off where, and although setups have no lock.            *)
THEOREM RecallAlwaysFindsSpan == Spec => []RecallFindsSpan
  <1>1. IInv => RecallFindsSpan
    BY DEF IInv
  <1> QED
    BY <1>1, InductiveInvariant, PTL

-----------------------------------------------------------------------------
(* What the write lock gives: an ingest ends with the chunks of the turns  *)
(* it has read, spans and chunks are those of the same ingest, and a       *)
(* recall writes back what is still stored.                                *)

(* What the process has read, as chunks.                                   *)
Ingested(p) == Chunks(Prefix(prepared[p]))

Changing == {"comparing", "upserting"}

(* Which kinds of process come where, and who owns the write lock there.   *)
PlaceOfKind ==
    \A p \in Processes :
        /\ pc[p] \in {"prepared", "comparing"} => p \in Ingesters
        /\ pc[p] \in {"storing", "upserting"} => p \in Ingesters \cup Setups
        /\ pc[p] \in {"counting", "reading"} => p \in Recallers
        /\ pc[p] = "writing" => p \in Recallers \cup Migrators

LockOwned ==
    \A p \in Processes :
        Storing(p) \/ (p \in Recallers /\ pc[p] \in {"reading", "writing"})
            => writeLock = p

(* A recall holds metadata only while it has the lock, and what others     *)
(* have overtaken of it is forgotten with it.                              *)
HeldWhileWriting ==
    \A p \in Recallers : pc[p] # "writing" => DOMAIN held[p] = {}

OvertakenIsHeld ==
    /\ \A id \in overtaken : \E p \in Recallers : id \in DOMAIN held[p]
    /\ disturbed # "yes" => overtaken = {}

(* A span whose id has its last turn is the span of that turn.             *)
SpanEnds ==
    \A s \in DOMAIN raw : s \notin Key => raw[s] = s[3]

(* The spans of an ingest that goes on are those of what it has read.      *)
SpansStored ==
    disturbed # "yes" =>
        \A p \in Ingesters : pc[p] \in Changing =>
            \A c \in Ingested(p) : raw[SpanOf(c)] = c.end

(* What an ingest will not upsert is stored as it would be.                *)
RestOf(p) ==
    /\ \A id \in DOMAIN vector : \E c \in Ingested(p) : IdOf(c) = id
    /\ todo[p] \subseteq Ingested(p)
    /\ \A c \in Ingested(p) \ todo[p] :
          IdOf(c) \in DOMAIN vector /\ SameShape(vector[IdOf(c)], c)

RestStored ==
    disturbed # "yes" =>
        \A p \in Ingesters : pc[p] = "upserting" => RestOf(p)

(* SpanMatchesChunk, also while an ingest waits to store its spans.        *)
Matching ==
    \A id \in DOMAIN vector : vector[id].spanned =>
        raw[SpanId(id[1], id[2], vector[id].end)] = vector[id].end

MatchingBetween ==
    disturbed = "no" /\ (\A p \in Ingesters : pc[p] \notin Changing) => Matching

LockInv ==
    /\ PlaceOfKind
    /\ LockOwned
    /\ HeldWhileWriting
    /\ OvertakenIsHeld
    /\ SpanEnds
    /\ SpansStored
    /\ RestStored
    /\ MatchingBetween
    /\ RecallLosesNothing

-----------------------------------------------------------------------------
(* A chunk's granularity and first turn determine its last turn.           *)
LEMMA ChunkEnds ==
  ASSUME NEW t, NEW c \in Chunks(t)
  PROVE  \/ c.granularity = "small-window" /\ c.end = LastTurn(t, c.start, MaxTurns)
         \/ c.granularity = "turn-pair" /\ c.end = LastTurn(t, c.start, 2)
         \/ c.granularity = "session-outline" /\ c.start = 0 /\ c.end = Len(t) - 1
  BY DEF Chunks, SmallWindows, TurnPairs, Outline, BatchChunks, Chunk

(* No two chunks of a session share an id, or a span and not its end.      *)
LEMMA ChunksDiffer ==
  ASSUME NEW t \in Seq(Turn), NEW c \in Chunks(t), NEW d \in Chunks(t)
  PROVE  /\ IdOf(c) = IdOf(d) => c = d
         /\ SpanOf(c) = SpanOf(d) => c = d
  <1>1. c \in ChunkRecord /\ d \in ChunkRecord
    BY ChunksType
  <1>2. c.granularity = d.granularity /\ c.start = d.start => c = d
    <2>1. c.granularity = d.granularity /\ c.start = d.start => c.end = d.end
      BY ChunkEnds
    <2> QED
      BY <1>1, <2>1 DEF ChunkRecord
  <1>3. IdOf(c) = IdOf(d) => c.granularity = d.granularity /\ c.start = d.start
    BY DEF IdOf, ChunkId
  <1>4. SpanOf(c) = SpanOf(d) => c.granularity = d.granularity /\ c.start = d.start
    BY DEF SpanOf, SpanId
  <1> QED
    BY <1>2, <1>3, <1>4

(* What a process has read stays as it is while it works on it.            *)
LEMMA IngestedSame ==
  ASSUME NEW q, UNCHANGED turns, prepared'[q] = prepared[q]
  PROVE  Ingested(q)' = Ingested(q)
  BY DEF Ingested, Prefix

(* What a process has read are proper chunks.                              *)
LEMMA IngestedType ==
  ASSUME IInv, NEW p \in Processes
  PROVE  Prefix(prepared[p]) \in Seq(Turn) /\ Ingested(p) \subseteq ChunkRecord
  <1>1. Prefix(prepared[p]) \in Seq(Turn)
    BY DEF IInv, TypeOK, Prefix
  <1> QED
    BY <1>1, ChunksType DEF Ingested

-----------------------------------------------------------------------------
(* A transcript is read: nothing is stored yet.                            *)
LEMMA PrepareLocked ==
  ASSUME IInv, LockInv, NEW p \in Processes, Prepare(p)
  PROVE  LockInv'
  <1> USE ProcessAssumption DEF IInv, LockInv, TypeOK, Prepare, Goto,
        processVars, historyVars, Processes
  <1>0. \A q \in Processes : pc'[q] \in Changing =>
           pc'[q] = pc[q] /\ Ingested(q)' = Ingested(q)
    BY IngestedSame DEF Changing
  <1>1. PlaceOfKind'
    BY DEF PlaceOfKind, Pc
  <1>2. LockOwned'
    BY DEF LockOwned, Storing
  <1>3. HeldWhileWriting'
    BY DEF HeldWhileWriting, Empty
  <1>4. OvertakenIsHeld'
    BY DEF OvertakenIsHeld
  <1>5. SpanEnds'
    BY DEF SpanEnds
  <1>6. SpansStored'
    BY <1>0 DEF SpansStored, Changing, Storing
  <1>7. RestStored'
    BY <1>0 DEF RestStored, RestOf, Changing
  <1>8. MatchingBetween'
    BY DEF MatchingBetween, Matching, Changing
  <1>9. RecallLosesNothing'
    BY DEF RecallLosesNothing, Storing
  <1> QED
    BY <1>1, <1>2, <1>3, <1>4, <1>5, <1>6, <1>7, <1>8, <1>9

(* An ingest begins to store: nobody else with the lock is at work.        *)
LEMMA BeginStoreLocked ==
  ASSUME IInv, LockInv, NEW p \in Processes, BeginStore(p)
  PROVE  LockInv'
  <1> USE ProcessAssumption DEF IInv, LockInv, TypeOK, BeginStore, Goto,
        processVars, historyVars, Processes
  <1>0. \A q \in Processes : pc'[q] \in Changing =>
           pc'[q] = pc[q] /\ Ingested(q)' = Ingested(q)
    BY IngestedSame DEF Changing
  <1>1. PlaceOfKind'
    BY DEF PlaceOfKind, Pc
  <1>2. LockOwned'
    BY DEF LockOwned, Storing
  <1>3. HeldWhileWriting'
    BY DEF HeldWhileWriting, Empty
  <1>4. OvertakenIsHeld'
    BY DEF OvertakenIsHeld, LockOwned, HeldWhileWriting
  <1>5. SpanEnds'
    BY DEF SpanEnds
  <1>6. SpansStored'
    BY <1>0 DEF SpansStored, Changing, LockOwned, Storing
  <1>7. RestStored'
    BY <1>0 DEF RestStored, LockOwned, Storing
  <1>8. MatchingBetween'
    BY DEF MatchingBetween, Matching, Changing
  <1>9. RecallLosesNothing'
    BY DEF RecallLosesNothing, Storing
  <1> QED
    BY <1>1, <1>2, <1>3, <1>4, <1>5, <1>6, <1>7, <1>8, <1>9

(* The spans of an ingest replace those of its outline, the one span that  *)
(* keeps its id; from here on its chunks do not match.                     *)
LEMMA StoreRawLocked ==
  ASSUME IInv, LockInv, NEW p \in Processes, StoreRaw(p)
  PROVE  LockInv'
  <1> USE ProcessAssumption DEF IInv, LockInv, TypeOK, StoreRaw, Goto,
        processVars, historyVars, Processes, AfterRaw, Disturb
  <1>0. /\ \A q \in Processes : Ingested(q)' = Ingested(q)
        /\ \A q \in Processes \ {p} : pc'[q] = pc[q]
    BY IngestedSame DEF AfterRaw
  <1>10. /\ raw' = Overlay(raw, Spans(p))
         /\ DOMAIN raw' = DOMAIN raw \cup DOMAIN Spans(p)
         /\ DOMAIN Spans(p) = { SpanOf(c) : c \in Ingested(p) }
    BY DEF Overlay, Spans, Ingested
  <1>11. \A c \in Ingested(p) : raw'[SpanOf(c)] = c.end
    <2> SUFFICES ASSUME NEW c \in Ingested(p) PROVE raw'[SpanOf(c)] = c.end
      OBVIOUS
    <2> DEFINE d == CHOOSE e \in Ingested(p) : SpanOf(e) = SpanOf(c)
    <2>1. d \in Ingested(p) /\ SpanOf(d) = SpanOf(c)
      OBVIOUS
    <2>2. d = c
      <3> HIDE DEF d
      <3> QED
        BY <2>1, IngestedType, ChunksDiffer DEF Ingested
    <2>3. SpanOf(c) \in DOMAIN Spans(p) /\ Spans(p)[SpanOf(c)] = d.end
      BY <1>10 DEF Spans, Ingested
    <2> HIDE DEF d
    <2>4. raw'[SpanOf(c)] = Spans(p)[SpanOf(c)]
      BY <1>10, <2>3 DEF Overlay
    <2> QED
      BY <2>2, <2>3, <2>4
  <1>1. PlaceOfKind'
    BY DEF PlaceOfKind, Pc
  <1>2. LockOwned'
    BY DEF LockOwned, Storing
  <1>3. HeldWhileWriting'
    BY DEF HeldWhileWriting, Empty
  <1>4. OvertakenIsHeld'
    BY DEF OvertakenIsHeld
  <1>5. SpanEnds'
    <2> SUFFICES ASSUME NEW s \in DOMAIN raw', s \notin Key PROVE raw'[s] = s[3]
      BY DEF SpanEnds
    <2>1. ASSUME NEW c \in Ingested(p), s = SpanOf(c) PROVE raw'[s] = s[3]
      <3>1. c \in ChunkRecord
        BY IngestedType
      <3>2. s = <<c.granularity, c.start, c.end>>
        BY <2>1, <3>1 DEF SpanOf, SpanId, Key, ChunkRecord
      <3>3. s[3] = c.end
        BY <3>2
      <3> QED
        BY <1>11, <2>1, <3>3
    <2>2. CASE s \notin DOMAIN Spans(p)
      BY <1>10, <2>2 DEF SpanEnds, Overlay
    <2> QED
      BY <1>10, <2>1, <2>2
  <1>6. SpansStored'
    <2> SUFFICES ASSUME disturbed' # "yes", NEW q \in Ingesters, pc'[q] \in Changing,
                        NEW c \in Ingested(q)
                 PROVE  raw'[SpanOf(c)] = c.end
      BY <1>0 DEF SpansStored
    <2>1. p \in Ingesters
      BY DEF AfterRaw, Disturb, PlaceOfKind
    <2>2. q = p
      BY <1>0, <2>1 DEF Changing, LockOwned, Storing, AfterRaw
    <2> QED
      BY <1>11, <2>2
  <1>7. RestStored'
    BY <1>0 DEF RestStored, RestOf
  <1>8. MatchingBetween'
    BY DEF MatchingBetween, Changing, PlaceOfKind
  <1>9. RecallLosesNothing'
    BY DEF RecallLosesNothing, Storing
  <1> QED
    BY <1>1, <1>2, <1>3, <1>4, <1>5, <1>6, <1>7, <1>8, <1>9

(* What is left in the collection is of ids that the ingest has, and       *)
(* what it will not upsert is the same.                                    *)
LEMMA DeleteStaleLocked ==
  ASSUME IInv, LockInv, NEW p \in Processes, DeleteStale(p)
  PROVE  LockInv'
  <1> USE ProcessAssumption DEF IInv, LockInv, TypeOK, DeleteStale, Goto,
        processVars, historyVars, Processes
  <1>0. /\ \A q \in Processes : Ingested(q)' = Ingested(q)
        /\ \A q \in Processes \ {p} : pc'[q] = pc[q]
    BY IngestedSame DEF DeleteStale
  <1>1. PlaceOfKind'
    BY DEF PlaceOfKind, Pc
  <1>2. LockOwned'
    BY DEF LockOwned, Storing
  <1>3. HeldWhileWriting'
    BY DEF HeldWhileWriting, Empty
  <1>4. OvertakenIsHeld'
    BY DEF OvertakenIsHeld
  <1>5. SpanEnds'
    BY DEF SpanEnds
  <1>6. SpansStored'
    BY <1>0 DEF SpansStored, Changing, Storing
  <1>7. RestStored'
    <2> SUFFICES ASSUME NEW q \in Ingesters, pc'[q] = "upserting" PROVE RestOf(q)'
      BY DEF RestStored
    <2>1. p \in Ingesters
      BY DEF PlaceOfKind
    <2>2. q = p
      BY <1>0, <2>1 DEF LockOwned, Storing
    <2>3. /\ DOMAIN vector' =
                { id \in DOMAIN vector : id \in { IdOf(c) : c \in Ingested(p) } }
          /\ \A id \in DOMAIN vector' : vector'[id] = vector[id]
      BY DEF Without, Ingested
    <2>4. todo'[p] = { c \in Ingested(p) : ~(IdOf(c) \in DOMAIN vector
                                             /\ SameShape(vector[IdOf(c)], c)) }
      BY DEF Ingested
    <2>5. Ingested(p)' = Ingested(p)
      BY <1>0
    <2>6. \A id \in DOMAIN vector' : \E c \in Ingested(p) : IdOf(c) = id
      BY <2>3
    <2>7. todo'[p] \subseteq Ingested(p)
      BY <2>4
    <2>8. \A c \in Ingested(p) \ todo'[p] :
             IdOf(c) \in DOMAIN vector' /\ vector'[IdOf(c)].spanned
                                      /\ vector'[IdOf(c)].end = c.end
      BY <2>3, <2>4 DEF SameShape
    <2>9. RestOf(p)'
      BY <2>5, <2>6, <2>7, <2>8 DEF RestOf, SameShape
    <2> QED
      BY <2>2, <2>9
  <1>8. MatchingBetween'
    BY DEF MatchingBetween, Changing, PlaceOfKind
  <1>9. RecallLosesNothing'
    BY DEF RecallLosesNothing, LockOwned, Storing, PlaceOfKind
  <1> QED
    BY <1>1, <1>2, <1>3, <1>4, <1>5, <1>6, <1>7, <1>8, <1>9

(* When an ingest has upserted what differed, the collection holds the     *)
(* chunks of what it had read and nothing else.                            *)
LEMMA UpsertedIsIngested ==
  ASSUME IInv, LockInv, NEW p \in Ingesters, UpsertChanged(p), disturbed # "yes"
  PROVE  /\ DOMAIN vector' = { IdOf(c) : c \in Ingested(p) }
         /\ \A c \in Ingested(p) : vector'[IdOf(c)].spanned /\ vector'[IdOf(c)].end = c.end
  <1>1. /\ \A id \in DOMAIN vector : \E c \in Ingested(p) : IdOf(c) = id
        /\ todo[p] \subseteq Ingested(p)
        /\ \A c \in Ingested(p) \ todo[p] :
              IdOf(c) \in DOMAIN vector /\ SameShape(vector[IdOf(c)], c)
    BY DEF LockInv, RestStored, RestOf, UpsertChanged
  <1>2. vector' = Overlay(vector, Stored(todo[p]))
    BY DEF UpsertChanged
  <1>3. DOMAIN Stored(todo[p]) = { IdOf(c) : c \in todo[p] }
    BY DEF Stored
  <1>4. DOMAIN vector' = { IdOf(c) : c \in Ingested(p) }
    BY <1>1, <1>2, <1>3 DEF Overlay
  <1>5. \A c, d \in Ingested(p) : IdOf(c) = IdOf(d) => c = d
    BY IngestedType, ChunksDiffer DEF Ingested, Processes
  <1>6. ASSUME NEW c \in todo[p]
        PROVE  vector'[IdOf(c)].spanned /\ vector'[IdOf(c)].end = c.end
    <2> DEFINE d == CHOOSE e \in todo[p] : IdOf(e) = IdOf(c)
    <2>1. d \in todo[p] /\ IdOf(d) = IdOf(c)
      OBVIOUS
    <2>2. d = c
      <3> HIDE DEF d
      <3> QED
        BY <1>1, <1>5, <2>1
    <2>3. Stored(todo[p])[IdOf(c)] = [end |-> d.end, spanned |-> TRUE, epoch |-> TRUE,
                                      access |-> 0]
      BY <1>3 DEF Stored
    <2> HIDE DEF d
    <2>4. vector'[IdOf(c)] = Stored(todo[p])[IdOf(c)]
      BY <1>2, <1>3 DEF Overlay
    <2> QED
      BY <2>2, <2>3, <2>4
  <1>7. ASSUME NEW c \in Ingested(p) \ todo[p]
        PROVE  vector'[IdOf(c)].spanned /\ vector'[IdOf(c)].end = c.end
    <2>1. IdOf(c) \notin DOMAIN Stored(todo[p])
      BY <1>1, <1>3, <1>5
    <2>2. vector'[IdOf(c)] = vector[IdOf(c)]
      BY <1>1, <1>2, <2>1 DEF Overlay
    <2> QED
      BY <1>1, <2>2 DEF SameShape
  <1> QED
    BY <1>4, <1>6, <1>7

(* The chunks that an ingest ends with match its spans.                    *)
LEMMA UpsertChangedLocked ==
  ASSUME IInv, LockInv, NEW p \in Processes, UpsertChanged(p)
  PROVE  LockInv'
  <1> USE ProcessAssumption DEF IInv, LockInv, TypeOK, UpsertChanged, Goto,
        Leave, processVars, historyVars, Processes
  <1>0. \A q \in Processes : pc'[q] \in Changing =>
           pc'[q] = pc[q] /\ Ingested(q)' = Ingested(q)
    BY IngestedSame DEF Changing
  <1>1. PlaceOfKind'
    BY DEF PlaceOfKind, Pc
  <1>2. LockOwned'
    BY DEF LockOwned, Storing
  <1>3. HeldWhileWriting'
    BY DEF HeldWhileWriting, Empty
  <1>4. OvertakenIsHeld'
    BY DEF OvertakenIsHeld
  <1>5. SpanEnds'
    BY DEF SpanEnds
  <1>6. SpansStored'
    BY <1>0 DEF SpansStored, Changing, Storing
  <1>7. RestStored'
    BY <1>0 DEF RestStored, LockOwned, Storing
  <1>8. MatchingBetween'
    <2> SUFFICES ASSUME disturbed' = "no", NEW id \in DOMAIN vector'
                 PROVE  raw[SpanId(id[1], id[2], vector'[id].end)] = vector'[id].end
      BY DEF MatchingBetween, Matching
    <2>1. disturbed # "yes"
      OBVIOUS
    <2>0. \A c \in Ingested(p) : vector'[IdOf(c)].end = c.end
      BY <2>1, UpsertedIsIngested
    <2>2. PICK c \in Ingested(p) : id = IdOf(c) /\ vector'[id].end = c.end
      <3>1. DOMAIN vector' = { IdOf(c) : c \in Ingested(p) }
        BY <2>1, UpsertedIsIngested
      <3>2. PICK c \in Ingested(p) : id = IdOf(c)
        BY <3>1
      <3> QED
        BY <2>0, <3>2
    <2>3. c \in ChunkRecord /\ SpanId(id[1], id[2], c.end) = SpanOf(c)
      BY <2>2, IngestedType, ChunkSpan
    <2> QED
      BY <2>1, <2>2, <2>3 DEF SpansStored, Changing
  <1>9. RecallLosesNothing'
    BY DEF RecallLosesNothing, LockOwned, Storing
  <1> QED
    BY <1>1, <1>2, <1>3, <1>4, <1>5, <1>6, <1>7, <1>8, <1>9

(* A setup without the lock: what it writes is overtaken where it is held. *)
LEMMA UpsertBatchLocked ==
  ASSUME IInv, LockInv, NEW p \in Processes, UpsertBatch(p)
  PROVE  LockInv'
  <1> USE ProcessAssumption DEF IInv, LockInv, TypeOK, UpsertBatch, Goto,
        Leave, processVars, historyVars, Processes, Disturb
  <1>10. PICK batch \in SUBSET todo[p] :
            /\ vector' = Overlay(vector, Stored(batch))
            /\ Overtake({ IdOf(c) : c \in batch })
    OBVIOUS
  <1>0. \A q \in Processes : pc'[q] \in Changing =>
           pc'[q] = pc[q] /\ Ingested(q)' = Ingested(q)
    BY IngestedSame DEF Changing
  <1>1. PlaceOfKind'
    BY DEF PlaceOfKind, Pc
  <1>2. LockOwned'
    BY DEF LockOwned, Storing
  <1>3. HeldWhileWriting'
    BY DEF HeldWhileWriting, Empty
  <1>4. OvertakenIsHeld'
    <2>1. \A q \in Recallers : held'[q] = held[q]
      OBVIOUS
    <2> QED
      BY <1>10, <2>1 DEF OvertakenIsHeld, Overtake
  <1>5. SpanEnds'
    BY DEF SpanEnds
  <1>6. SpansStored'
    BY <1>0 DEF SpansStored, Changing, Storing
  <1>7. RestStored'
    BY <1>0 DEF RestStored, Changing, Storing
  <1>8. MatchingBetween'
    BY DEF MatchingBetween, Changing, Storing
  <1>9. RecallLosesNothing'
    <2> SUFFICES ASSUME NEW q \in Recallers, pc'[q] = "writing",
                        NEW id \in DOMAIN held'[q] \ overtaken'
                 PROVE  id \in DOMAIN vector' /\ vector'[id] = held'[q][id]
      BY DEF RecallLosesNothing
    <2>1. q # p /\ pc[q] = "writing" /\ held'[q] = held[q]
      OBVIOUS
    <2>2. /\ id \notin overtaken /\ vector'[id] = vector[id]
          /\ DOMAIN vector \subseteq DOMAIN vector'
      <3>1. id \notin { IdOf(c) : c \in batch }
        BY <1>10, <2>1 DEF Overtake
      <3> QED
        BY <1>10, <2>1, <3>1 DEF Overtake, Overlay, Stored, RecallLosesNothing
    <2> QED
      BY <2>1, <2>2 DEF RecallLosesNothing
  <1> QED
    BY <1>1, <1>2, <1>3, <1>4, <1>5, <1>6, <1>7, <1>8, <1>9

(* A recall finds its span.                                                *)
LEMMA FindSpanLocked ==
  ASSUME IInv, LockInv, NEW p \in Processes, FindSpan(p)
  PROVE  LockInv'
  <1> USE ProcessAssumption DEF IInv, LockInv, TypeOK, FindSpan, Goto,
        processVars, historyVars, Processes
  <1>0. \A q \in Processes : pc'[q] \in Changing =>
           pc'[q] = pc[q] /\ Ingested(q)' = Ingested(q)
    BY IngestedSame DEF Changing
  <1>1. PlaceOfKind'
    BY DEF PlaceOfKind, Pc
  <1>2. LockOwned'
    BY DEF LockOwned, Storing
  <1>3. HeldWhileWriting'
    BY DEF HeldWhileWriting, Empty
  <1>4. OvertakenIsHeld'
    BY DEF OvertakenIsHeld
  <1>5. SpanEnds'
    BY DEF SpanEnds
  <1>6. SpansStored'
    BY <1>0 DEF SpansStored, Changing, Storing
  <1>7. RestStored'
    BY <1>0 DEF RestStored, RestOf, Changing
  <1>8. MatchingBetween'
    BY DEF MatchingBetween, Matching
  <1>9. RecallLosesNothing'
    BY DEF RecallLosesNothing, Storing
  <1> QED
    BY <1>1, <1>2, <1>3, <1>4, <1>5, <1>6, <1>7, <1>8, <1>9

(* A recall begins to count: nobody else with the lock is at work.         *)
LEMMA BeginCountLocked ==
  ASSUME IInv, LockInv, NEW p \in Processes, BeginCount(p)
  PROVE  LockInv'
  <1> USE ProcessAssumption DEF IInv, LockInv, TypeOK, BeginCount, Goto,
        processVars, historyVars, Processes
  <1>0. \A q \in Processes : pc'[q] \in Changing =>
           pc'[q] = pc[q] /\ Ingested(q)' = Ingested(q)
    BY IngestedSame DEF Changing
  <1>1. PlaceOfKind'
    BY DEF PlaceOfKind, Pc
  <1>2. LockOwned'
    BY DEF LockOwned, Storing
  <1>3. HeldWhileWriting'
    BY DEF HeldWhileWriting, Empty
  <1>4. OvertakenIsHeld'
    BY DEF OvertakenIsHeld
  <1>5. SpanEnds'
    BY DEF SpanEnds
  <1>6. SpansStored'
    BY <1>0 DEF SpansStored, Changing, Storing
  <1>7. RestStored'
    BY <1>0 DEF RestStored, LockOwned, Storing
  <1>8. MatchingBetween'
    BY DEF MatchingBetween, Matching, PlaceOfKind
  <1>9. RecallLosesNothing'
    BY DEF RecallLosesNothing, Storing
  <1> QED
    BY <1>1, <1>2, <1>3, <1>4, <1>5, <1>6, <1>7, <1>8, <1>9

(* What a recall reads is what is stored.                                  *)
LEMMA ReadMetaLocked ==
  ASSUME IInv, LockInv, NEW p \in Processes, ReadMeta(p)
  PROVE  LockInv'
  <1> USE ProcessAssumption DEF IInv, LockInv, TypeOK, ReadMeta, Goto,
        processVars, historyVars, Processes
  <1>0. \A q \in Processes : pc'[q] \in Changing =>
           pc'[q] = pc[q] /\ Ingested(q)' = Ingested(q)
    BY IngestedSame DEF Changing
  <1>1. PlaceOfKind'
    BY DEF PlaceOfKind, Pc
  <1>2. LockOwned'
    BY DEF LockOwned, Storing
  <1>3. HeldWhileWriting'
    BY DEF HeldWhileWriting, Empty
  <1>4. OvertakenIsHeld'
    BY DEF OvertakenIsHeld, HeldWhileWriting
  <1>5. SpanEnds'
    BY DEF SpanEnds
  <1>6. SpansStored'
    BY <1>0 DEF SpansStored, Changing, Storing
  <1>7. RestStored'
    BY <1>0 DEF RestStored, LockOwned, Storing
  <1>8. MatchingBetween'
    BY DEF MatchingBetween, Matching
  <1>9. RecallLosesNothing'
    BY DEF RecallLosesNothing, Storing
  <1> QED
    BY <1>1, <1>2, <1>3, <1>4, <1>5, <1>6, <1>7, <1>8, <1>9

(* What a recall writes back differs in nothing but the accesses.          *)
LEMMA WriteCountLocked ==
  ASSUME IInv, LockInv, NEW p \in Processes, WriteCount(p)
  PROVE  LockInv'
  <1> USE ProcessAssumption DEF IInv, LockInv, TypeOK, WriteCount, Goto, Leave,
        processVars, historyVars, Processes
  <1>0. \A q \in Processes : pc'[q] \in Changing =>
           pc'[q] = pc[q] /\ Ingested(q)' = Ingested(q)
    BY IngestedSame DEF Changing
  <1>1. PlaceOfKind'
    BY DEF PlaceOfKind, Pc
  <1>2. LockOwned'
    BY DEF LockOwned, Storing
  <1>3. HeldWhileWriting'
    BY DEF HeldWhileWriting, Empty
  <1>4. OvertakenIsHeld'
    BY DEF OvertakenIsHeld
  <1>5. SpanEnds'
    BY DEF SpanEnds
  <1>6. SpansStored'
    BY <1>0 DEF SpansStored, Changing, Storing
  <1>7. RestStored'
    BY <1>0 DEF RestStored, LockOwned, Storing
  <1>8. MatchingBetween'
    <2> SUFFICES ASSUME disturbed = "no", \A q \in Ingesters : pc[q] \notin Changing
                 PROVE  Matching'
      BY DEF MatchingBetween, Changing
    <2>1. \A id \in DOMAIN held[p] : vector[id] = held[p][id] /\ vector[id] \in Meta
      BY DEF OvertakenIsHeld, RecallLosesNothing
    <2>2. \A id \in DOMAIN vector : vector'[id].end = vector[id].end
                                     /\ vector'[id].spanned = vector[id].spanned
      BY <2>1 DEF Updated, Meta
    <2>3. DOMAIN vector' = DOMAIN vector
      BY DEF Updated
    <2> QED
      BY <2>2, <2>3 DEF MatchingBetween, Matching
  <1>9. RecallLosesNothing'
    BY DEF RecallLosesNothing, LockOwned
  <1> QED
    BY <1>1, <1>2, <1>3, <1>4, <1>5, <1>6, <1>7, <1>8, <1>9

(* A migration reads without the lock.                                     *)
LEMMA ReadOldMetasLocked ==
  ASSUME IInv, LockInv, NEW p \in Processes, ReadOldMetas(p)
  PROVE  LockInv'
  <1> USE ProcessAssumption DEF IInv, LockInv, TypeOK, ReadOldMetas, Goto,
        processVars, historyVars, Processes
  <1>0. \A q \in Processes : pc'[q] \in Changing =>
           pc'[q] = pc[q] /\ Ingested(q)' = Ingested(q)
    BY IngestedSame DEF Changing
  <1>1. PlaceOfKind'
    BY DEF PlaceOfKind, Pc
  <1>2. LockOwned'
    BY DEF LockOwned, Storing
  <1>3. HeldWhileWriting'
    BY DEF HeldWhileWriting, Empty
  <1>4. OvertakenIsHeld'
    BY DEF OvertakenIsHeld
  <1>5. SpanEnds'
    BY DEF SpanEnds
  <1>6. SpansStored'
    BY <1>0 DEF SpansStored, Changing, Storing
  <1>7. RestStored'
    BY <1>0 DEF RestStored, RestOf, Changing
  <1>8. MatchingBetween'
    BY DEF MatchingBetween, Matching
  <1>9. RecallLosesNothing'
    BY DEF RecallLosesNothing, Storing
  <1> QED
    BY <1>1, <1>2, <1>3, <1>4, <1>5, <1>6, <1>7, <1>8, <1>9

(* A migration writes without the lock: it overtakes what is held.         *)
LEMMA WriteEpochsLocked ==
  ASSUME IInv, LockInv, NEW p \in Processes, WriteEpochs(p)
  PROVE  LockInv'
  <1> USE ProcessAssumption DEF IInv, LockInv, TypeOK, WriteEpochs, Goto,
        Leave, processVars, historyVars, Processes, Disturb
  <1>0. \A q \in Processes : pc'[q] \in Changing =>
           pc'[q] = pc[q] /\ Ingested(q)' = Ingested(q)
    BY IngestedSame DEF Changing
  <1>1. PlaceOfKind'
    BY DEF PlaceOfKind, Pc
  <1>2. LockOwned'
    BY DEF LockOwned, Storing
  <1>3. HeldWhileWriting'
    BY DEF HeldWhileWriting, Empty
  <1>4. OvertakenIsHeld'
    <2>1. \A q \in Recallers : held'[q] = held[q]
      OBVIOUS
    <2> QED
      BY <2>1 DEF OvertakenIsHeld, Overtake
  <1>5. SpanEnds'
    BY DEF SpanEnds
  <1>6. SpansStored'
    BY <1>0 DEF SpansStored, Changing, Storing
  <1>7. RestStored'
    BY <1>0 DEF RestStored, Changing, Storing
  <1>8. MatchingBetween'
    BY DEF MatchingBetween, Changing, Storing
  <1>9. RecallLosesNothing'
    <2> SUFFICES ASSUME NEW q \in Recallers, pc'[q] = "writing",
                        NEW id \in DOMAIN held'[q] \ overtaken'
                 PROVE  id \in DOMAIN vector' /\ vector'[id] = held'[q][id]
      BY DEF RecallLosesNothing
    <2>1. q # p /\ pc[q] = "writing" /\ held'[q] = held[q]
      OBVIOUS
    <2>2. /\ id \notin overtaken /\ vector'[id] = vector[id]
          /\ DOMAIN vector \subseteq DOMAIN vector'
      <3>1. id \notin DOMAIN held[p]
        BY <2>1 DEF Overtake
      <3> QED
        BY <2>1, <3>1 DEF Overtake, Updated, RecallLosesNothing
    <2> QED
      BY <2>1, <2>2 DEF RecallLosesNothing
  <1> QED
    BY <1>1, <1>2, <1>3, <1>4, <1>5, <1>6, <1>7, <1>8, <1>9

(* Who breaks off while the collection changes leaves it disturbed.        *)
LEMMA BreakOffLocked ==
  ASSUME IInv, LockInv, NEW p \in Processes, BreakOff(p)
  PROVE  LockInv'
  <1> USE ProcessAssumption DEF IInv, LockInv, TypeOK, BreakOff, Goto, Leave,
        processVars, historyVars, Processes
  <1>0. \A q \in Processes : pc'[q] \in Changing =>
           pc'[q] = pc[q] /\ Ingested(q)' = Ingested(q)
    BY IngestedSame DEF Changing
  <1>1. PlaceOfKind'
    BY DEF PlaceOfKind, Pc
  <1>2. LockOwned'
    BY DEF LockOwned, Storing
  <1>3. HeldWhileWriting'
    BY DEF HeldWhileWriting, Empty
  <1>4. OvertakenIsHeld'
    BY DEF OvertakenIsHeld
  <1>5. SpanEnds'
    BY DEF SpanEnds
  <1>6. SpansStored'
    BY <1>0 DEF SpansStored, Changing, Storing
  <1>7. RestStored'
    BY <1>0 DEF RestStored, RestOf, Changing
  <1>8. MatchingBetween'
    BY DEF MatchingBetween, Matching, Changing
  <1>9. RecallLosesNothing'
    <2> SUFFICES ASSUME NEW q \in Recallers, pc'[q] = "writing"
                 PROVE  held'[q] = held[q] /\ overtaken' = overtaken /\ pc[q] = "writing"
      BY DEF RecallLosesNothing
    <2>1. q # p /\ pc[q] = "writing"
      OBVIOUS
    <2>2. p \in Recallers => DOMAIN held[p] = {}
      BY <2>1 DEF LockOwned, HeldWhileWriting
    <2> QED
      BY <2>1, <2>2
  <1> QED
    BY <1>1, <1>2, <1>3, <1>4, <1>5, <1>6, <1>7, <1>8, <1>9

(* The session goes on: what has been read of it stays as it is.           *)
LEMMA SessionGrowsLocked ==
  ASSUME IInv, LockInv, SessionGrows
  PROVE  LockInv'
  <1>1. UNCHANGED <<raw, vector, writeLock, processVars, historyVars>>
    BY DEF SessionGrows
  <1>2. \A q \in Processes : Ingested(q)' = Ingested(q)
    <2> SUFFICES ASSUME NEW q \in Processes PROVE Ingested(q)' = Ingested(q)
      OBVIOUS
    <2>1. PICK x \in TurnKinds : turns' = Append(turns, x)
      BY DEF SessionGrows
    <2>2. x \in Turn /\ turns \in Seq(Turn) /\ prepared[q] \in 0 .. Len(turns)
      BY TurnAssumption DEF IInv, TypeOK
    <2>3. SubSeq(turns', 1, prepared[q]) = SubSeq(turns, 1, prepared[q])
      BY <2>1, <2>2
    <2> QED
      BY <1>1, <2>3 DEF Ingested, Prefix, processVars
  <1> QED
    BY <1>1, <1>2 DEF LockInv, PlaceOfKind, LockOwned, Storing,
                      HeldWhileWriting, OvertakenIsHeld, SpanEnds,
                      SpansStored, RestStored, RestOf, MatchingBetween,
                      Matching, RecallLosesNothing, processVars, historyVars,
                      Processes

-----------------------------------------------------------------------------
(* Before anybody has come, nothing is spanned, held or overtaken.         *)
LEMMA InitLocked == Init => LockInv
  <1> SUFFICES ASSUME Init PROVE LockInv
    OBVIOUS
  <1> USE DEF Init
  <1>1. \A id \in DOMAIN vector : ~vector[id].spanned
    BY DEF OldChunks, Empty
  <1>2. PlaceOfKind /\ LockOwned /\ HeldWhileWriting /\ OvertakenIsHeld
    BY DEF PlaceOfKind, LockOwned, Storing, HeldWhileWriting, OvertakenIsHeld,
           Empty, Processes
  <1>3. SpanEnds /\ SpansStored /\ RestStored /\ RecallLosesNothing
    BY DEF SpanEnds, SpansStored, RestStored, RecallLosesNothing, Changing,
           Empty, Processes
  <1>4. MatchingBetween
    BY <1>1 DEF MatchingBetween, Matching
  <1> QED
    BY <1>2, <1>3, <1>4 DEF LockInv

(* Every step of every process keeps what the lock gives.                  *)
LEMMA NextLocked == IInv /\ LockInv /\ [Next]_vars => LockInv'
  <1> SUFFICES ASSUME IInv, LockInv, [Next]_vars PROVE LockInv'
    OBVIOUS
  <1>1. CASE UNCHANGED vars
    BY <1>1 DEF vars, processVars, historyVars, LockInv, PlaceOfKind,
                LockOwned, Storing, HeldWhileWriting, OvertakenIsHeld,
                SpanEnds, SpansStored, RestStored, RestOf, MatchingBetween,
                Matching, RecallLosesNothing, Ingested, Prefix
  <1>2. ASSUME NEW p \in Processes, ProcessStep(p) PROVE LockInv'
    <2>1. CASE Prepare(p) \/ BeginStore(p) \/ StoreRaw(p) \/ DeleteStale(p)
               \/ UpsertChanged(p) \/ UpsertBatch(p)
      BY <2>1, PrepareLocked, BeginStoreLocked, StoreRawLocked, DeleteStaleLocked,
         UpsertChangedLocked, UpsertBatchLocked
    <2>2. CASE FindSpan(p) \/ BeginCount(p) \/ ReadMeta(p) \/ WriteCount(p)
               \/ ReadOldMetas(p) \/ WriteEpochs(p) \/ BreakOff(p)
      BY <2>2, FindSpanLocked, BeginCountLocked, ReadMetaLocked, WriteCountLocked,
         ReadOldMetasLocked, WriteEpochsLocked, BreakOffLocked
    <2> QED
      BY <1>2, <2>1, <2>2 DEF ProcessStep
  <1> QED
    BY <1>1, <1>2, SessionGrowsLocked DEF Next

(* The inductive invariant of the write lock: an ingest or a recall that   *)
(* owns it has the stores to itself, but for those who have no lock.       *)
THEOREM LockInvariant == Spec => []LockInv
  BY InitLocked, NextLocked, InductiveInvariant, PTL DEF Spec

(* The text that recall shows is the text that was found: the outline's    *)
(* span, which keeps its id as the session grows, is never of another      *)
(* ingest than its chunk, once a disturbed store has been ingested again.  *)
THEOREM SpansMatchChunks == Spec => []SpanMatchesChunk
  <1>1. LockInv => SpanMatchesChunk
    BY DEF LockInv, MatchingBetween, Matching, SpanMatchesChunk, Settled,
           Storing,
           Changing
  <1> QED
    BY <1>1, LockInvariant, PTL

(* No update is lost to a recall: what increment_access_counts() writes    *)
(* back is still what is stored, unless somebody wrote without the lock.   *)
THEOREM RecallsLoseNothing == Spec => []RecallLosesNothing
  <1>1. LockInv => RecallLosesNothing
    BY DEF LockInv
  <1> QED
    BY <1>1, LockInvariant, PTL

-----------------------------------------------------------------------------
(* Only its own last step ends an ingest without a disturbance.            *)
LEMMA UpsertEnds ==
  ASSUME IInv, LockInv, [Next]_vars, NEW p \in Ingesters, IngestEnds(p)
  PROVE  UpsertChanged(p) /\ disturbed # "yes"
  <1> USE DEF IngestEnds, IInv, TypeOK
  <1> p \in Processes
    BY DEF Processes
  <1>1. pc' # pc
    OBVIOUS
  <1>2. ~UNCHANGED vars /\ ~SessionGrows
    BY <1>1 DEF vars, SessionGrows, processVars
  <1>3. PICK q \in Processes : ProcessStep(q)
    BY <1>2 DEF Next
  <1>4. q = p
    <2>1. \E place : Goto(q, place) \/ UNCHANGED pc
      BY <1>3 DEF ProcessStep, Prepare, BeginStore, StoreRaw, AfterRaw,
                  DeleteStale,
                  UpsertChanged, UpsertBatch, FindSpan, BeginCount, ReadMeta,
                  WriteCount, ReadOldMetas, WriteEpochs, BreakOff, Leave
    <2> QED
      BY <1>1, <2>1 DEF Goto
  <1>5. ~BreakOff(p) /\ ~UpsertBatch(p)
    BY ProcessAssumption DEF BreakOff, UpsertBatch, Disturb
  <1>6. UpsertChanged(p)
    BY <1>3, <1>4, <1>5 DEF ProcessStep, Prepare, BeginStore, StoreRaw,
                            AfterRaw,
         DeleteStale, FindSpan, BeginCount, ReadMeta, WriteCount, ReadOldMetas,
         WriteEpochs
  <1> QED
    BY <1>6 DEF UpsertChanged

(* When an ingest ends the collection holds the chunks of the turns it had *)
(* read, no more and none of another length, although it wrote only those  *)
(* that differ (upsert_session_chunks()).                                  *)
THEOREM IngestsStoreWhatTheyRead == Spec => StoredAsIngested
  <1>1. ASSUME IInv, LockInv, [Next]_vars, NEW p \in Ingesters, IngestEnds(p)
        PROVE  LET chunks == Chunks(Prefix(prepared[p]))
               IN  /\ DOMAIN vector' = { IdOf(c) : c \in chunks }
                   /\ \A c \in chunks : /\ vector'[IdOf(c)].spanned
                                         /\ vector'[IdOf(c)].end = c.end
    BY <1>1, UpsertEnds, UpsertedIsIngested DEF Ingested
  <1>2. IInv /\ LockInv /\ [Next]_vars =>
          [ \A p \in Ingesters : IngestEnds(p) =>
              LET chunks == Chunks(Prefix(prepared[p]))
              IN  /\ DOMAIN vector' = { IdOf(c) : c \in chunks }
                  /\ \A c \in chunks : /\ vector'[IdOf(c)].spanned
                                        /\ vector'[IdOf(c)].end = c.end
          ]_vars
    BY <1>1
  <1> QED
    BY <1>2, InductiveInvariant, LockInvariant, PTL DEF Spec, StoredAsIngested
=============================================================================
