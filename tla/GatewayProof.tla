----------------------------- MODULE GatewayProof -----------------------------
(***************************************************************************)
(* Proofs about Gateway, for any number of sessions and requests: its type *)
(* invariant, that checkpoints and the keyword index follow the stores,    *)
(* and that a summary without failures is true.                            *)
(***************************************************************************)
EXTENDS Gateway, TLAPS

AtWork == {"batch", "storing", "recording"}

(* The write lock is owned exactly between `with write_lock(...)` and its  *)
(* end, and the locals of a batch have values only there.                  *)
LockHeld ==
    \A r \in Requests :
        /\ place[r] \in AtWork <=> writeLock = r
        /\ current[r] # Nobody <=> place[r] \in {"storing", "recording"}
        /\ mutated[r] => place[r] \in AtWork

(* The session being stored belongs to the batch, is not covered by its    *)
(* checkpoint, and has been stored as far as the place of the request says *)
(* if it has chunks.                                                       *)
CurrentStored ==
    \A r \in Requests : current[r] # Nobody =>
        /\ current[r] \in Sent(r) \ todo[r]
        /\ checkpoint[current[r]] # Content(r)
        /\ Chunked(Content(r)) => Content(r) \in raw[current[r]]
        /\ Chunked(Content(r)) /\ place[r] = "recording" =>
              vector[current[r]] = Content(r)

(* Before a batch has begun, all of it is still to be looked at; when it   *)
(* is answered, nothing of it.                                             *)
TodoOfPlace ==
    \A r \in Requests :
        /\ place[r] \in {"opening", "waiting"} => todo[r] = Sent(r)
        /\ place[r] \in {"idle", "answered"} => todo[r] = {}

(* What a batch without failures has behind it is in the stores.           *)
Held(r, s) == batch[r][s] \in raw[s] /\ vector[s] = batch[r][s]

BehindStored ==
    \A r \in Requests : place[r] \in AtWork /\ ~failed[r] =>
        \A s \in Sent(r) \ todo[r] : Chunked(batch[r][s]) =>
            s = current[r] \/ damaged[s] # 0 \/ Held(r, s)

(* The keyword index is behind Chroma only while a batch at work has       *)
(* changed Chroma, or after one that was cut short.                        *)
IndexInHand ==
    ~cut => bm25 = vector
            \/ \E r \in Requests :
                  mutated[r] \/ (place[r] = "recording" /\ Chunked(Content(r)))

IInv ==
    /\ TypeOK
    /\ LockHeld
    /\ CurrentStored
    /\ TodoOfPlace
    /\ CheckpointCovers
    /\ BehindStored
    /\ IndexInHand

-----------------------------------------------------------------------------
(* What RawSpanStore holds after a store: contents, and the one stored if  *)
(* it has chunks.                                                          *)
LEMMA UpsertedHolds ==
  ASSUME NEW held \in SUBSET Nat, NEW content \in Nat
  PROVE  /\ Upserted(held, content) \in SUBSET Nat
         /\ Chunked(content) => content \in Upserted(held, content)
  BY DEF Upserted

(* The session being stored has a content.                                 *)
LEMMA ContentType ==
  ASSUME TypeOK, NEW r \in Requests, current[r] # Nobody
  PROVE  current[r] \in Sessions /\ Content(r) \in Nat
  BY DEF TypeOK, Content

(* A session goes on: no request is touched.                               *)
LEMMA SessionGrowsKeeps ==
  ASSUME IInv, NEW s \in Sessions, SessionGrows(s)
  PROVE  IInv'
  <1> USE SessionsAssumption DEF IInv, TypeOK, Content, SessionGrows, Goto, storeVars,
        requestVars, historyVars, Sent
  <1>1. TypeOK'
    BY DEF Place
  <1>2. LockHeld'
    BY DEF LockHeld, AtWork
  <1>3. CurrentStored'
    BY DEF CurrentStored
  <1>4. TodoOfPlace'
    BY DEF TodoOfPlace
  <1>5. CheckpointCovers'
    BY DEF CheckpointCovers, BeingStored
  <1>6. BehindStored'
    BY DEF BehindStored, Held, AtWork
  <1>7. IndexInHand'
    BY DEF IndexInHand
  <1> QED
    BY <1>1, <1>2, <1>3, <1>4, <1>5, <1>6, <1>7

(* A batch that is sent is all still to be looked at.                      *)
LEMMA UploadKeeps ==
  ASSUME IInv, NEW r \in Requests, Upload(r)
  PROVE  IInv'
  <1> USE SessionsAssumption DEF IInv, TypeOK, Content, Upload, Goto, storeVars,
        requestVars, historyVars, Sent
  <1>1. TypeOK'
    BY DEF Place
  <1>2. LockHeld'
    BY DEF LockHeld, AtWork
  <1>3. CurrentStored'
    BY DEF CurrentStored, LockHeld
  <1>4. TodoOfPlace'
    BY DEF TodoOfPlace
  <1>5. CheckpointCovers'
    <2>1. current[r] = Nobody
      BY DEF LockHeld, AtWork
    <2>2. \A s \in Sessions : BeingStored(s) => BeingStored(s)'
      BY <2>1 DEF BeingStored
    <2> QED
      BY <2>2 DEF CheckpointCovers
  <1>6. BehindStored'
    BY DEF BehindStored, Held, AtWork
  <1>7. IndexInHand'
    BY DEF IndexInHand
  <1> QED
    BY <1>1, <1>2, <1>3, <1>4, <1>5, <1>6, <1>7

(* The stores are open, the batch waits for the write lock.                *)
LEMMA OpenStoresKeeps ==
  ASSUME IInv, NEW r \in Requests, OpenStores(r)
  PROVE  IInv'
  <1> USE SessionsAssumption DEF IInv, TypeOK, Content, OpenStores, Goto, storeVars,
        requestVars, historyVars, Sent
  <1>1. TypeOK'
    BY DEF Place
  <1>2. LockHeld'
    BY DEF LockHeld, AtWork
  <1>3. CurrentStored'
    BY DEF CurrentStored, LockHeld
  <1>4. TodoOfPlace'
    BY DEF TodoOfPlace
  <1>5. CheckpointCovers'
    BY DEF CheckpointCovers, BeingStored
  <1>6. BehindStored'
    BY DEF BehindStored, Held, AtWork
  <1>7. IndexInHand'
    BY DEF IndexInHand
  <1> QED
    BY <1>1, <1>2, <1>3, <1>4, <1>5, <1>6, <1>7

(* The stores do not open: the request is forgotten.                       *)
LEMMA OpenStoresFailsKeeps ==
  ASSUME IInv, NEW r \in Requests, OpenStoresFails(r)
  PROVE  IInv'
  <1> USE SessionsAssumption DEF IInv, TypeOK, Content, OpenStoresFails, Goto,
        storeVars, requestVars, historyVars, Sent, Raise, Release, Forgotten
  <1>1. TypeOK'
    BY DEF Place
  <1>2. LockHeld'
    BY DEF LockHeld, AtWork
  <1>3. CurrentStored'
    BY DEF CurrentStored, LockHeld
  <1>4. TodoOfPlace'
    BY DEF TodoOfPlace
  <1>5. CheckpointCovers'
    <2>1. current[r] = Nobody
      BY DEF LockHeld, AtWork
    <2>2. \A s \in Sessions : BeingStored(s) => BeingStored(s)'
      BY <2>1 DEF BeingStored
    <2> QED
      BY <2>2 DEF CheckpointCovers
  <1>6. BehindStored'
    BY DEF BehindStored, Held, AtWork
  <1>7. IndexInHand'
    BY DEF IndexInHand, LockHeld, AtWork
  <1> QED
    BY <1>1, <1>2, <1>3, <1>4, <1>5, <1>6, <1>7

(* A batch begins with all of it to be looked at, and none behind it.      *)
LEMMA BeginBatchKeeps ==
  ASSUME IInv, NEW r \in Requests, BeginBatch(r)
  PROVE  IInv'
  <1> USE SessionsAssumption DEF IInv, TypeOK, Content, BeginBatch, Goto, storeVars,
        requestVars, historyVars, Sent
  <1>1. TypeOK'
    BY DEF Place
  <1>2. LockHeld'
    BY DEF LockHeld, AtWork
  <1>3. CurrentStored'
    BY DEF CurrentStored
  <1>4. TodoOfPlace'
    BY DEF TodoOfPlace
  <1>5. CheckpointCovers'
    BY DEF CheckpointCovers, BeingStored
  <1>6. BehindStored'
    BY DEF BehindStored, Held, AtWork, TodoOfPlace
  <1>7. IndexInHand'
    BY DEF IndexInHand
  <1> QED
    BY <1>1, <1>2, <1>3, <1>4, <1>5, <1>6, <1>7

(* What is skipped is in the stores: its checkpoint covers it, and only    *)
(* the owner of the write lock, who is here, stores anything.              *)
LEMMA SkipKeeps ==
  ASSUME IInv, NEW r \in Requests, NEW s \in Sessions, Skip(r, s)
  PROVE  IInv'
  <1> USE SessionsAssumption DEF IInv, TypeOK, Content, Skip, Goto, storeVars,
        requestVars, historyVars, Sent, Covers
  <1>1. TypeOK'
    BY DEF Place
  <1>2. LockHeld'
    BY DEF LockHeld, AtWork
  <1>3. CurrentStored'
    BY DEF CurrentStored
  <1>4. TodoOfPlace'
    BY DEF TodoOfPlace
  <1>5. CheckpointCovers'
    BY DEF CheckpointCovers, BeingStored
  <1>6. BehindStored'
    <2>1. \A q \in Requests : current[q] = Nobody
      BY DEF LockHeld, AtWork
    <2>2. Chunked(batch[r][s]) => damaged[s] # 0 \/ Held(r, s)
      BY <2>1 DEF CheckpointCovers, BeingStored, Held
    <2>3. \A q \in Requests : place[q] \in AtWork => q = r
      BY DEF LockHeld, AtWork
    <2>4. Sent(r)' \ todo'[r] = (Sent(r) \ todo[r]) \cup {s}
      OBVIOUS
    <2> QED
      BY <2>2, <2>3, <2>4 DEF BehindStored, Held
  <1>7. IndexInHand'
    BY DEF IndexInHand
  <1> QED
    BY <1>1, <1>2, <1>3, <1>4, <1>5, <1>6, <1>7

(* A batch that is cut short after a change leaves the index cut.          *)
LEMMA CutShortKeeps ==
  ASSUME IInv, NEW r \in Requests, NEW s \in Sessions, CutShort(r, s)
  PROVE  IInv'
  <1> USE SessionsAssumption DEF IInv, TypeOK, Content, CutShort, Goto, storeVars,
        requestVars, historyVars, Sent, Raise, Release, Forgotten
  <1>1. TypeOK'
    BY DEF Place
  <1>2. LockHeld'
    BY DEF LockHeld, AtWork
  <1>3. CurrentStored'
    BY DEF CurrentStored, LockHeld
  <1>4. TodoOfPlace'
    BY DEF TodoOfPlace
  <1>5. CheckpointCovers'
    <2>1. current[r] = Nobody
      BY DEF LockHeld, AtWork
    <2>2. \A q \in Sessions : BeingStored(q) => BeingStored(q)'
      BY <2>1 DEF BeingStored
    <2> QED
      BY <2>2 DEF CheckpointCovers
  <1>6. BehindStored'
    BY DEF BehindStored, Held, AtWork
  <1>7. IndexInHand'
    BY DEF IndexInHand, LockHeld, AtWork
  <1> QED
    BY <1>1, <1>2, <1>3, <1>4, <1>5, <1>6, <1>7

(* The session taken up is the one being stored.                           *)
LEMMA StoreRawKeeps ==
  ASSUME IInv, NEW r \in Requests, NEW s \in Sessions, StoreRaw(r, s)
  PROVE  IInv'
  <1> USE SessionsAssumption DEF IInv, TypeOK, Content, StoreRaw, Goto, storeVars,
        requestVars, historyVars, Sent, Covers
  <1>0. /\ batch[r][s] \in Nat
        /\ raw'[s] \in SUBSET Nat
        /\ Chunked(batch[r][s]) => batch[r][s] \in raw'[s]
    BY UpsertedHolds
  <1>1. TypeOK'
    BY <1>0 DEF Place
  <1>2. LockHeld'
    BY DEF LockHeld, AtWork
  <1>3. CurrentStored'
    <2>1. \A q \in Requests : current'[q] # Nobody => q = r
      BY DEF LockHeld, AtWork
    <2>2. s # Nobody /\ current'[r] = s /\ place'[r] = "storing"
      OBVIOUS
    <2>3. s \in Sent(r)' \ todo'[r] /\ checkpoint'[s] # batch'[r][s]
      BY DEF LockHeld
    <2> QED
      BY <1>0, <2>1, <2>2, <2>3 DEF CurrentStored, Chunked
  <1>4. TodoOfPlace'
    BY DEF TodoOfPlace
  <1>5. CheckpointCovers'
    <2>1. current[r] = Nobody /\ s # Nobody
      BY DEF LockHeld
    <2>2. \A q \in Sessions : BeingStored(q) => BeingStored(q)'
      BY <2>1 DEF BeingStored
    <2>3. CASE Chunked(batch[r][s])
      <3>1. BeingStored(s)'
        BY <2>3 DEF BeingStored
      <3>2. \A q \in Sessions \ {s} : raw'[q] = raw[q]
        OBVIOUS
      <3> QED
        BY <2>2, <3>1, <3>2 DEF CheckpointCovers
    <2>4. CASE ~Chunked(batch[r][s])
      <3>1. raw' = raw
        BY <2>4 DEF Upserted
      <3> QED
        BY <2>2, <3>1 DEF CheckpointCovers
    <2> QED
      BY <2>3, <2>4
  <1>6. BehindStored'
    BY DEF BehindStored, Held, AtWork, LockHeld
  <1>7. IndexInHand'
    BY DEF IndexInHand
  <1> QED
    BY <1>1, <1>2, <1>3, <1>4, <1>5, <1>6, <1>7

(* What fails to parse is behind a batch that has failed.                  *)
LEMMA ParseFailsKeeps ==
  ASSUME IInv, NEW r \in Requests, NEW s \in Sessions, ParseFails(r, s)
  PROVE  IInv'
  <1> USE SessionsAssumption DEF IInv, TypeOK, Content, ParseFails, Goto, storeVars,
        requestVars, historyVars, Sent, Covers
  <1>1. TypeOK'
    BY DEF Place
  <1>2. LockHeld'
    BY DEF LockHeld, AtWork
  <1>3. CurrentStored'
    BY DEF CurrentStored, LockHeld
  <1>4. TodoOfPlace'
    BY DEF TodoOfPlace
  <1>5. CheckpointCovers'
    BY DEF CheckpointCovers, BeingStored
  <1>6. BehindStored'
    BY DEF BehindStored, Held, AtWork
  <1>7. IndexInHand'
    BY DEF IndexInHand
  <1> QED
    BY <1>1, <1>2, <1>3, <1>4, <1>5, <1>6, <1>7

(* The chunks of the session being stored are those of the batch.          *)
LEMMA StoreVectorKeeps ==
  ASSUME IInv, NEW r \in Requests, StoreVector(r)
  PROVE  IInv'
  <1> USE SessionsAssumption DEF IInv, TypeOK, Content, StoreVector, Goto, storeVars,
        requestVars, historyVars, Sent
  <1>1. TypeOK'
    BY DEF Place, LockHeld
  <1>2. LockHeld'
    BY DEF LockHeld, AtWork
  <1>3. CurrentStored'
    <2>1. current[r] # Nobody /\ current[r] \in Sessions
      BY DEF LockHeld
    <2>2. \A q \in Requests : current[q] # Nobody => q = r
      BY DEF LockHeld, AtWork
    <2>3. Chunked(batch[r][current[r]]) =>
            vector'[current[r]] = batch[r][current[r]]
      BY <2>1
    <2> QED
      BY <2>1, <2>2, <2>3 DEF CurrentStored, Chunked
  <1>4. TodoOfPlace'
    BY DEF TodoOfPlace
  <1>5. CheckpointCovers'
    BY DEF CheckpointCovers, BeingStored, LockHeld
  <1>6. BehindStored'
    BY DEF BehindStored, Held, AtWork, LockHeld
  <1>7. IndexInHand'
    BY DEF IndexInHand
  <1> QED
    BY <1>1, <1>2, <1>3, <1>4, <1>5, <1>6, <1>7

(* The session recorded is in both stores, and the index is in hand.       *)
LEMMA RecordKeeps ==
  ASSUME IInv, NEW r \in Requests, Record(r)
  PROVE  IInv'
  <1> USE SessionsAssumption DEF IInv, TypeOK, Content, Record, Goto, storeVars,
        requestVars, historyVars, Sent
  <1>1. TypeOK'
    BY DEF Place, LockHeld
  <1>2. LockHeld'
    BY DEF LockHeld, AtWork
  <1>3. CurrentStored'
    <2>1. \A q \in Requests : current'[q] = Nobody
      BY DEF LockHeld, AtWork
    <2> QED
      BY <2>1 DEF CurrentStored
  <1>4. TodoOfPlace'
    BY DEF TodoOfPlace
  <1>5. CheckpointCovers'
    BY DEF CheckpointCovers, BeingStored, CurrentStored, LockHeld
  <1>6. BehindStored'
    BY DEF BehindStored, Held, AtWork, CurrentStored, LockHeld
  <1>7. IndexInHand'
    BY DEF IndexInHand
  <1> QED
    BY <1>1, <1>2, <1>3, <1>4, <1>5, <1>6, <1>7

(* What fails to be stored is damaged, and the batch has failed.           *)
LEMMA StoreFailsKeeps ==
  ASSUME IInv, NEW r \in Requests, StoreFails(r)
  PROVE  IInv'
  <1> USE SessionsAssumption DEF IInv, TypeOK, Goto, storeVars,
        requestVars, historyVars, Sent
  <1> DEFINE s == current[r]
  <1>1. /\ place[r] \in {"storing", "recording"}
        /\ s # Nobody /\ s \in Sessions /\ Content(r) \in Nat /\ writeLock = r
    BY ContentType DEF StoreFails, LockHeld, AtWork
  <1>2. /\ file' = file /\ checkpoint' = checkpoint /\ raw' = raw
        /\ bm25' = bm25 /\ writeLock' = writeLock /\ batch' = batch
        /\ todo' = todo /\ mutated' = mutated
        /\ failed' = [failed EXCEPT ![r] = TRUE]
        /\ current' = [current EXCEPT ![r] = Nobody]
        /\ place' = [place EXCEPT ![r] = "batch"]
    BY DEF StoreFails
  <1>3. /\ vector' \in {vector, [vector EXCEPT ![s] = 0]}
        /\ Chunked(Content(r)) =>
              damaged' = [damaged EXCEPT ![s] = Content(r)] /\ cut' = TRUE
        /\ ~Chunked(Content(r)) =>
              damaged' = damaged /\ cut' = cut /\ vector' = vector
    BY DEF StoreFails
  <1>4. vector' \in [Sessions -> Nat] /\ damaged' \in [Sessions -> Nat]
    <2>1. vector' \in [Sessions -> Nat]
      BY <1>3
    <2>2. damaged' \in [Sessions -> Nat]
      BY <1>1, <1>3
    <2> QED
      BY <2>1, <2>2
  <1>5. \A q \in Sessions \ {s} :
          vector'[q] = vector[q] /\ damaged'[q] = damaged[q]
    BY <1>1, <1>3
  <1>6. \A q \in Requests : current[q] # Nobody => q = r
    BY <1>1 DEF LockHeld, AtWork
  <1>7. \A q \in Requests : current'[q] = Nobody
    BY <1>2, <1>6
  <1>8. TypeOK'
    BY <1>2, <1>3, <1>4 DEF Place
  <1>9. LockHeld' /\ CurrentStored' /\ TodoOfPlace'
    BY <1>1, <1>2, <1>7 DEF LockHeld, CurrentStored, TodoOfPlace, AtWork
  <1>10. CheckpointCovers'
    <2> SUFFICES ASSUME NEW q \in Sessions
                 PROVE  /\ Chunked(checkpoint[q]) /\ damaged'[q] = 0 =>
                             checkpoint[q] \in raw[q]
                             /\ vector'[q] = checkpoint[q]
                        /\ damaged'[q] # 0 => checkpoint[q] # damaged'[q]
      BY <1>2 DEF CheckpointCovers, Chunked
    <2>1. CASE q # s
      BY <1>1, <1>5, <1>6, <2>1 DEF CheckpointCovers, BeingStored
    <2>2. CASE q = s /\ Chunked(Content(r))
      <3>1. damaged'[q] = Content(r) /\ Content(r) # 0
        BY <1>1, <1>3, <2>2, ContentAssumption DEF Chunked
      <3> QED
        BY <1>1, <2>2, <3>1 DEF CurrentStored
    <2>3. CASE q = s /\ ~Chunked(Content(r))
      BY <1>1, <1>3, <1>6, <2>3 DEF CheckpointCovers, BeingStored
    <2> QED
      BY <2>1, <2>2, <2>3
  <1>11. BehindStored'
    <2>1. \A q \in Requests : place'[q] \in AtWork => q = r
      BY <1>1, <1>2 DEF LockHeld, AtWork
    <2>2. failed'[r]
      BY <1>2
    <2> QED
      BY <2>1, <2>2 DEF BehindStored
  <1>12. IndexInHand'
    <2>1. CASE Chunked(Content(r))
      BY <1>3, <2>1 DEF IndexInHand
    <2>2. CASE ~Chunked(Content(r))
      <3>1. \A q \in Requests : place[q] = "recording" => q = r
        BY <1>1 DEF LockHeld, AtWork
      <3> QED
        <4>1. vector' = vector /\ bm25' = bm25 /\ mutated' = mutated /\ cut' = cut
          BY <1>2, <1>3, <2>2
        <4>2. \A q \in Requests :
                ~(place[q] = "recording" /\ Chunked(Content(q)))
          BY <2>2, <3>1
        <4> QED
          BY <4>1, <4>2 DEF IndexInHand
    <2> QED
      BY <2>1, <2>2
  <1> QED
    BY <1>8, <1>9, <1>10, <1>11, <1>12

(* The rebuild gives the index the chunks, and the lock is free.           *)
LEMMA RebuildKeeps ==
  ASSUME IInv, NEW r \in Requests, Rebuild(r)
  PROVE  IInv'
  <1> USE SessionsAssumption DEF IInv, TypeOK, Content, Rebuild, Goto, storeVars,
        requestVars, historyVars, Sent, Release, Forgotten
  <1>1. TypeOK'
    BY DEF Place
  <1>2. LockHeld'
    BY DEF LockHeld, AtWork
  <1>3. CurrentStored'
    BY DEF CurrentStored, LockHeld
  <1>4. TodoOfPlace'
    BY DEF TodoOfPlace
  <1>5. CheckpointCovers'
    BY DEF CheckpointCovers, BeingStored, LockHeld
  <1>6. BehindStored'
    BY DEF BehindStored, Held, AtWork
  <1>7. IndexInHand'
    BY DEF IndexInHand
  <1> QED
    BY <1>1, <1>2, <1>3, <1>4, <1>5, <1>6, <1>7

(* A rebuild that fails leaves the index cut.                              *)
LEMMA RebuildFailsKeeps ==
  ASSUME IInv, NEW r \in Requests, RebuildFails(r)
  PROVE  IInv'
  <1> USE SessionsAssumption DEF IInv, TypeOK, Content, RebuildFails, Goto, storeVars,
        requestVars, historyVars, Sent, Raise, Release, Forgotten
  <1>1. TypeOK'
    BY DEF Place
  <1>2. LockHeld'
    BY DEF LockHeld, AtWork
  <1>3. CurrentStored'
    BY DEF CurrentStored, LockHeld
  <1>4. TodoOfPlace'
    BY DEF TodoOfPlace
  <1>5. CheckpointCovers'
    <2>1. current[r] = Nobody
      BY DEF LockHeld, AtWork
    <2>2. \A s \in Sessions : BeingStored(s) => BeingStored(s)'
      BY <2>1 DEF BeingStored
    <2> QED
      BY <2>2 DEF CheckpointCovers
  <1>6. BehindStored'
    BY DEF BehindStored, Held, AtWork
  <1>7. IndexInHand'
    BY DEF IndexInHand
  <1> QED
    BY <1>1, <1>2, <1>3, <1>4, <1>5, <1>6, <1>7

(* A batch that stored nothing leaves the index as it was.                 *)
LEMMA NothingMutatedKeeps ==
  ASSUME IInv, NEW r \in Requests, NothingMutated(r)
  PROVE  IInv'
  <1> USE SessionsAssumption DEF IInv, TypeOK, Content, NothingMutated, Goto,
        storeVars, requestVars, historyVars, Sent, Release, Forgotten
  <1>1. TypeOK'
    BY DEF Place
  <1>2. LockHeld'
    BY DEF LockHeld, AtWork
  <1>3. CurrentStored'
    BY DEF CurrentStored, LockHeld
  <1>4. TodoOfPlace'
    BY DEF TodoOfPlace
  <1>5. CheckpointCovers'
    BY DEF CheckpointCovers, BeingStored, LockHeld
  <1>6. BehindStored'
    BY DEF BehindStored, Held, AtWork
  <1>7. IndexInHand'
    BY DEF IndexInHand, LockHeld, AtWork
  <1> QED
    BY <1>1, <1>2, <1>3, <1>4, <1>5, <1>6, <1>7

(* An answered request is forgotten.                                       *)
LEMMA AnswerKeeps ==
  ASSUME IInv, NEW r \in Requests, Answer(r)
  PROVE  IInv'
  <1> USE SessionsAssumption DEF IInv, TypeOK, Content, Answer, Goto, storeVars,
        requestVars, historyVars, Sent, Forgotten
  <1>1. TypeOK'
    BY DEF Place
  <1>2. LockHeld'
    BY DEF LockHeld, AtWork
  <1>3. CurrentStored'
    BY DEF CurrentStored, LockHeld
  <1>4. TodoOfPlace'
    BY DEF TodoOfPlace
  <1>5. CheckpointCovers'
    <2>1. current[r] = Nobody
      BY DEF LockHeld, AtWork
    <2>2. \A s \in Sessions : BeingStored(s) => BeingStored(s)'
      BY <2>1 DEF BeingStored
    <2> QED
      BY <2>2 DEF CheckpointCovers
  <1>6. BehindStored'
    BY DEF BehindStored, Held, AtWork
  <1>7. IndexInHand'
    BY DEF IndexInHand, LockHeld, AtWork
  <1> QED
    BY <1>1, <1>2, <1>3, <1>4, <1>5, <1>6, <1>7

(* A death leaves what was being stored damaged and the index cut.         *)
LEMMA GatewayDiesKeeps ==
  ASSUME IInv, GatewayDies
  PROVE  IInv'
  <1> DEFINE owner == { r \in Requests :
                          current[r] # Nobody /\ Chunked(Content(r)) }
  <1> USE SessionsAssumption DEF IInv, TypeOK
  <1>1. /\ checkpoint' = checkpoint /\ raw' = raw /\ bm25' = bm25 /\ file' = file
        /\ \A r \in Requests : place'[r] = "idle" /\ current'[r] = Nobody
                               /\ todo'[r] = {} /\ ~mutated'[r]
        /\ writeLock' = Nobody
        /\ damaged' = [s \in Sessions |->
                         IF \E r \in owner : current[r] = s
                         THEN Content(CHOOSE r \in owner : current[r] = s)
                         ELSE damaged[s]]
        /\ cut' = (cut \/ owner # {} \/ \E r \in Requests : mutated[r])
    BY DEF GatewayDies
  <1>2. vector' \in {vector} \cup { [vector EXCEPT ![current[r]] = 0] :
            r \in { q \in owner : place[q] = "storing" } }
    BY DEF GatewayDies
  <1>3. vector' \in [Sessions -> Nat]
    BY <1>2
  <1>4. \A s \in Sessions :
          vector'[s] = vector[s] \/ \E r \in owner : current[r] = s
    BY <1>2
  <1>5. owner = {} => vector' = vector
    BY <1>2
  <1>6. ASSUME NEW s \in Sessions, NEW q \in owner, current[q] = s
        PROVE  damaged'[s] \in Nat \ {0} /\ checkpoint[s] # damaged'[s]
    <2> DEFINE r == CHOOSE p \in owner : current[p] = s
    <2>1. r \in owner /\ current[r] = s
      BY <1>6
    <2>2. damaged'[s] = Content(r)
      BY <1>1, <1>6
    <2>3. r \in Requests /\ current[r] # Nobody /\ Chunked(Content(r))
      BY <2>1
    <2>4. Content(r) \in Nat \ {0}
      BY <2>3, ContentType, ContentAssumption DEF Chunked
    <2>5. checkpoint[current[r]] # Content(r)
      BY <2>3 DEF CurrentStored
    <2> HIDE DEF r
    <2> QED
      BY <2>1, <2>2, <2>4, <2>5
  <1>7. ASSUME NEW s \in Sessions, ~\E r \in owner : current[r] = s
        PROVE  damaged'[s] = damaged[s] /\ vector'[s] = vector[s]
    BY <1>1, <1>4, <1>7
  <1>8. damaged' \in [Sessions -> Nat]
    <2>1. damaged' = [s \in Sessions |-> damaged'[s]]
      BY <1>1
    <2>2. \A s \in Sessions : damaged'[s] \in Nat
      BY <1>6, <1>7
    <2> QED
      BY <2>1, <2>2
  <1>9. TypeOK'
    <2>1. /\ batch' \in [Requests -> [Sessions -> Nat]]
          /\ todo' \in [Requests -> SUBSET Sessions]
          /\ current' \in [Requests -> Sessions \cup {Nobody}]
          /\ mutated' \in [Requests -> BOOLEAN]
          /\ failed' \in [Requests -> BOOLEAN]
          /\ place' \in [Requests -> Place]
      BY DEF GatewayDies, Place
    <2>2. cut' \in BOOLEAN
      BY <1>1
    <2> QED
      BY <1>1, <1>3, <1>8, <2>1, <2>2
  <1>10. LockHeld'
    BY <1>1 DEF LockHeld, AtWork
  <1>11. CurrentStored' /\ TodoOfPlace' /\ BehindStored'
    BY <1>1 DEF CurrentStored, TodoOfPlace, BehindStored, AtWork
  <1>12. CheckpointCovers'
    <2> SUFFICES ASSUME NEW s \in Sessions
                 PROVE  /\ Chunked(checkpoint[s]) /\ damaged'[s] = 0 =>
                             checkpoint[s] \in raw[s]
                             /\ vector'[s] = checkpoint[s]
                        /\ damaged'[s] # 0 => checkpoint[s] # damaged'[s]
      BY <1>1 DEF CheckpointCovers, Chunked
    <2>1. CASE \E r \in owner : current[r] = s
      BY <1>6, <2>1
    <2>2. CASE ~\E r \in owner : current[r] = s
      <3>1. ~BeingStored(s)
        BY <2>2 DEF BeingStored
      <3> QED
        BY <1>7, <2>2, <3>1 DEF CheckpointCovers
    <2> QED
      BY <2>1, <2>2
  <1>13. IndexInHand'
    BY <1>1, <1>5 DEF IndexInHand, LockHeld
  <1> QED
    BY <1>9, <1>10, <1>11, <1>12, <1>13

-----------------------------------------------------------------------------
(* The invariant holds before the first request.                           *)
LEMMA InitIInv == Init => IInv
  <1> USE SessionsAssumption DEF Init, IInv
  <1>1. Init => TypeOK
    <2> SUFFICES ASSUME Init PROVE TypeOK
      OBVIOUS
    <2>1. batch \in [Requests -> [Sessions -> Nat]]
      OBVIOUS
    <2>2. /\ place \in [Requests -> Place]
          /\ todo \in [Requests -> SUBSET Sessions]
          /\ current \in [Requests -> Sessions \cup {Nobody}]
          /\ mutated \in [Requests -> BOOLEAN]
          /\ failed \in [Requests -> BOOLEAN]
          /\ damaged \in [Sessions -> Nat]
      BY DEF Place
    <2> QED
      BY <2>1, <2>2 DEF TypeOK
  <1>2. Init => LockHeld /\ CurrentStored /\ TodoOfPlace /\ BehindStored
    BY DEF LockHeld, CurrentStored, TodoOfPlace, BehindStored, AtWork
  <1>3. Init => CheckpointCovers /\ IndexInHand
    BY ContentAssumption DEF CheckpointCovers, IndexInHand, Chunked
  <1> QED
    BY <1>1, <1>2, <1>3

(* Every step of the gateway and its clients keeps it.                     *)
LEMMA NextKeepsIInv == IInv /\ [Next]_vars => IInv'
  <1> SUFFICES ASSUME IInv, [Next]_vars PROVE IInv'
    OBVIOUS
  <1>1. CASE UNCHANGED vars
    BY <1>1 DEF vars, storeVars, requestVars, historyVars, IInv, TypeOK, Sent,
                LockHeld, CurrentStored, TodoOfPlace, CheckpointCovers,
                BeingStored, BehindStored, Held, IndexInHand, Content,
                Chunked
  <1>2. ASSUME NEW s \in Sessions, SessionGrows(s) PROVE IInv'
    BY <1>2, SessionGrowsKeeps
  <1>3. ASSUME NEW r \in Requests, RequestStep(r) PROVE IInv'
    <2>1. ASSUME NEW s \in Sessions,
                 Skip(r, s) \/ CutShort(r, s) \/ StoreRaw(r, s) \/ ParseFails(r, s)
          PROVE  IInv'
      BY <2>1, SkipKeeps, CutShortKeeps, StoreRawKeeps, ParseFailsKeeps
    <2>2. CASE OpenStores(r) \/ OpenStoresFails(r) \/ BeginBatch(r)
      BY <2>2, OpenStoresKeeps, OpenStoresFailsKeeps, BeginBatchKeeps
    <2>3. CASE StoreVector(r) \/ Record(r) \/ StoreFails(r)
      BY <2>3, StoreVectorKeeps, RecordKeeps, StoreFailsKeeps
    <2>4. CASE Rebuild(r) \/ RebuildFails(r) \/ NothingMutated(r) \/ Answer(r)
      BY <2>4, RebuildKeeps, RebuildFailsKeeps, NothingMutatedKeeps, AnswerKeeps
    <2> QED
      BY <1>3, <2>1, <2>2, <2>3, <2>4 DEF RequestStep
  <1>4. ASSUME NEW r \in Requests, Upload(r) PROVE IInv'
    BY <1>4, UploadKeeps
  <1> QED
    BY <1>1, <1>2, <1>3, <1>4, GatewayDiesKeeps DEF Next

(* The inductive invariant of the gateway: one batch at a time between the *)
(* stores and the index, and of what it has behind it both stores hold what*)
(* has chunks; a content without chunks has changed neither.               *)
THEOREM InductiveInvariant == Spec => []IInv
  BY InitIInv, NextKeepsIInv, PTL DEF Spec

(* The variables of the gateway keep their types, and a batch has still to *)
(* look only at sessions that were sent with it.                           *)
THEOREM TypeCorrect == Spec => []TypeOK
  <1>1. IInv => TypeOK
    BY DEF IInv
  <1> QED
    BY <1>1, InductiveInvariant, PTL

(* A checkpoint covers what is stored: when the next upload of a session   *)
(* is skipped, both stores hold the chunks and spans of that content, if   *)
(* it has any, unless chunks of the session are being stored or a store of *)
(* it has failed since; and the content that failed is not skipped         *)
(* (http_api.py, CheckpointStore.should_skip()).                           *)
THEOREM CheckpointsCover == Spec => []CheckpointCovers
  <1>1. IInv => CheckpointCovers
    BY DEF IInv
  <1> QED
    BY <1>1, InductiveInvariant, PTL

(* When no batch holds the write lock, the keyword index is that of the    *)
(* chunks in Chroma, unless a batch was cut short after it changed them.   *)
THEOREM IndexFollowsVectors == Spec => []IndexFollows
  <1>1. IInv => IndexFollows
    BY SessionsAssumption DEF IInv, IndexFollows, IndexInHand, LockHeld, AtWork
  <1> QED
    BY <1>1, InductiveInvariant, PTL

-----------------------------------------------------------------------------
(* Only the end of a batch answers a request, with nothing left of it.     *)
LEMMA AnswersAtTheEnd ==
  ASSUME IInv, [Next]_vars, NEW r \in Requests, Answers(r)
  PROVE  place[r] = "batch" /\ todo[r] = {}
  <1> USE DEF Answers
  <1>1. ~UNCHANGED place
    OBVIOUS
  <1>2. ASSUME NEW q \in Requests, Rebuild(q) \/ NothingMutated(q)
        PROVE  place[r] = "batch" /\ todo[r] = {}
    BY <1>2 DEF Rebuild, NothingMutated, Forgotten, Goto, IInv, TypeOK
  <1>3. ASSUME NEW q \in Requests, NEW to \in Place \ {"answered"}, Goto(q, to)
        PROVE  FALSE
    BY <1>3 DEF Goto, IInv, TypeOK
  <1>4. ~UNCHANGED vars
    BY <1>1 DEF vars
  <1>5. ASSUME NEW s \in Sessions, SessionGrows(s) PROVE FALSE
    BY <1>1, <1>5 DEF SessionGrows
  <1>6. ASSUME NEW q \in Requests, Upload(q) PROVE FALSE
    BY <1>3, <1>6 DEF Upload, Place
  <1>7. ASSUME NEW q \in Requests, RequestStep(q)
        PROVE  Rebuild(q) \/ NothingMutated(q)
    <2>1. ASSUME NEW s \in Sessions, Skip(q, s) \/ ParseFails(q, s) PROVE FALSE
      BY <1>1, <2>1 DEF Skip, ParseFails
    <2>2. ASSUME NEW s \in Sessions, CutShort(q, s) \/ StoreRaw(q, s) PROVE FALSE
      BY <1>3, <2>2 DEF CutShort, Raise, Forgotten, StoreRaw, Place
    <2>3. ~OpenStores(q) /\ ~BeginBatch(q) /\ ~StoreVector(q) /\ ~Record(q)
      BY <1>3 DEF OpenStores, BeginBatch, StoreVector, Record, Place
    <2>4. ~OpenStoresFails(q) /\ ~StoreFails(q) /\ ~RebuildFails(q) /\ ~Answer(q)
      BY <1>3 DEF OpenStoresFails, StoreFails, RebuildFails, Answer, Raise,
                  Forgotten, Place
    <2> QED
      BY <1>7, <2>1, <2>2, <2>3, <2>4 DEF RequestStep
  <1>8. ~GatewayDies
    BY DEF GatewayDies
  <1> QED
    BY <1>2, <1>4, <1>5, <1>6, <1>7, <1>8 DEF Next

(* A summary without failures is true: whatever other requests, crashes    *)
(* and retries did before, the stores hold what the batch has chunks of as *)
(* it was sent when it is answered, unless a store of the session had      *)
(* failed since the checkpoint for which it was skipped.                   *)
THEOREM AnswersAreTrue == Spec => AnsweredIsStored
  <1>1. ASSUME IInv, [Next]_vars, NEW r \in Requests, Answers(r), ~failed[r],
               NEW s \in Sent(r)
        PROVE  Chunked(batch[r][s]) =>
                 damaged[s] # 0
                 \/ (batch[r][s] \in raw[s] /\ vector[s] = batch[r][s])
    <2>1. place[r] = "batch" /\ todo[r] = {} /\ current[r] = Nobody
      BY <1>1, AnswersAtTheEnd DEF IInv, LockHeld
    <2>2. s # Nobody
      BY SessionsAssumption DEF Sent
    <2> QED
      BY <1>1, <2>1, <2>2 DEF IInv, BehindStored, AtWork, Held
  <1>2. IInv /\ [Next]_vars =>
          [ \A r \in Requests : Answers(r) /\ ~failed[r] =>
              \A s \in Sent(r) : Chunked(batch[r][s]) =>
                  damaged[s] # 0
                  \/ (batch[r][s] \in raw[s] /\ vector[s] = batch[r][s]) ]_vars
    BY <1>1
  <1> QED
    BY <1>2, InductiveInvariant, PTL DEF Spec, AnsweredIsStored

=============================================================================
