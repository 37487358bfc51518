--------------------------- MODULE Bm25CacheProof ---------------------------
(***************************************************************************)
(* Proofs about Bm25Cache, for any number of workers, servers and setups   *)
(* and any of them dying at any point: as long as every writer holds the   *)
(* write lock, the index on disk is whole and that of the chunks, and a    *)
(* server that has seen the version on disk holds it.                      *)
(***************************************************************************)
EXTENDS Bm25Cache, TLAPS

(* Where the index on disk is behind the chunks, and where it is not but   *)
(* the version is.                                                         *)
Behind == {"building", "opening", "dumping", "renaming"}
Numbered == {"numbering", "versioning", "publishing"}

(* Where initialize() has returned and where it has not, what a process    *)
(* that is not running has in memory, and when index.tmp is open.          *)
OpenedPlaces ==
    \A p \in Processes :
        /\ pc[p] \in {"ready", "reloading", "scoring", "ingesting"} => opened[p]
        /\ pc[p] \in {"off", "loading"} => ~opened[p]
        /\ pc[p] = "off" => built[p] = 0 /\ cache[p] = 0
        /\ handle[p] # "none" <=> pc[p] = "dumping"

(* Without the file nobody has come past loading or renaming it.           *)
AbsentIsUnread ==
    index = Absent =>
        \A p \in Processes : ~opened[p] /\ pc[p] \notin Numbered \cup {"loaded"}

(* What an index was built from is not ahead of the chunks.                *)
NothingAhead ==
    /\ index \in Nat => index <= chroma
    /\ tmp \in Nat => tmp <= chroma
    /\ \A p \in Processes : built[p] <= chroma /\ cache[p] <= chroma

(* While nobody interferes, the one writer of the files is the owner of    *)
(* the write lock, and what it writes is the index of all chunks.          *)
OwnerWrites ==
    interfered # "yes" =>
        \A p \in Processes :
            /\ pc[p] \in Persisting \ {"building"} =>
                  writeLock = p /\ built[p] = chroma /\ cache[p] = chroma
            /\ pc[p] = "dumping" => handle[p] = "tmp"
            /\ pc[p] = "renaming" => tmp = chroma

(* The index is that of all chunks, or is being rebuilt, or a rebuild was  *)
(* given up.                                                               *)
IndexCurrent ==
    interfered = "no" =>
        /\ index # Torn
        /\ ~unfinished /\ (\A p \in Processes : pc[p] \notin Behind)
               => index \in {chroma, Absent}
        /\ \A p \in Processes :
              /\ pc[p] \in Numbered => index = chroma
              /\ pc[p] = "versioning" => next[p] = version + 1
              /\ pc[p] = "publishing" => next[p] = version + 1 /\ versionTmp = next[p]

(* Caches are not ahead of the index, except that of a rebuild.            *)
CacheBehind ==
    interfered = "no" /\ index \in Nat =>
        \A p \in Processes :
            pc[p] \notin {"opening", "dumping", "renaming"} => cache[p] <= index

(* A version that was seen is not ahead of the one on disk.                *)
SeenBehind ==
    \A p \in Processes :
        opened[p] /\ pc[p] \notin Persisting /\ ~raced[p] => seen[p] <= version

IInv ==
    /\ TypeOK
    /\ OpenedPlaces
    /\ AbsentIsUnread
    /\ NothingAhead
    /\ OwnerWrites
    /\ IndexCurrent
    /\ CacheBehind
    /\ SeenBehind
    /\ SeenIsHeld

-----------------------------------------------------------------------------
(* A store is opened; a worker takes the write lock for it.                *)
LEMMA StartKeeps ==
  ASSUME IInv, NEW p \in Processes, Start(p)
  PROVE  IInv'
  <1> USE KindsAssumption, FilesAssumption DEF IInv, TypeOK, Start, Goto,
        fileVars, workVars, memoryVars, historyVars, File
  <1>1. TypeOK'
    BY DEF Pc, Persisting
  <1>2. OpenedPlaces'
    BY DEF OpenedPlaces
  <1>3. AbsentIsUnread'
    BY DEF AbsentIsUnread, Numbered
  <1>4. NothingAhead'
    BY DEF NothingAhead
  <1>5. OwnerWrites'
    BY DEF OwnerWrites, Persisting
  <1>6. IndexCurrent'
    BY DEF IndexCurrent, Behind, Numbered, Persisting
  <1>7. CacheBehind'
    BY DEF CacheBehind, Persisting
  <1>8. SeenBehind'
    BY DEF SeenBehind, Persisting, Numbered
  <1>9. SeenIsHeld'
    BY DEF SeenIsHeld, Quiet, Persisting, Numbered
  <1> QED
    BY <1>1, <1>2, <1>3, <1>4, <1>5, <1>6, <1>7, <1>8, <1>9

(* A loaded index is the one on disk; its version is not read yet.         *)
LEMMA LoadIndexKeeps ==
  ASSUME IInv, NEW p \in Processes, LoadIndex(p)
  PROVE  IInv'
  <1> USE KindsAssumption, FilesAssumption DEF IInv, TypeOK, LoadIndex, Goto,
        fileVars, workVars, memoryVars, historyVars, File
  <1>1. TypeOK'
    BY DEF Pc, Persisting
  <1>2. OpenedPlaces'
    BY DEF OpenedPlaces
  <1>3. AbsentIsUnread'
    BY DEF AbsentIsUnread, Numbered
  <1>4. NothingAhead'
    BY DEF NothingAhead
  <1>5. OwnerWrites'
    BY DEF OwnerWrites, Persisting
  <1>6. IndexCurrent'
    BY DEF IndexCurrent, Behind, Numbered, Persisting
  <1>7. CacheBehind'
    BY DEF CacheBehind, Persisting
  <1>8. SeenBehind'
    BY DEF SeenBehind, Persisting, Numbered
  <1>9. SeenIsHeld'
    <2> SUFFICES ASSUME Quiet', interfered = "no", NEW q \in Servers,
                        opened'[q], pc'[q] # "loaded", seen'[q] = version',
                        ~raced'[q]
                 PROVE  cache'[q] = index'
      BY DEF SeenIsHeld
    <2> q \in Processes
      BY DEF Processes
    <2>1. Quiet
      BY DEF Quiet, Persisting
    <2>2. CASE q = p
      BY <2>1, <2>2 DEF SeenIsHeld, Quiet, Persisting
    <2>3. CASE q # p
      BY <2>1, <2>3 DEF SeenIsHeld
    <2> QED
      BY <2>2, <2>3
  <1> QED
    BY <1>1, <1>2, <1>3, <1>4, <1>5, <1>6, <1>7, <1>8, <1>9

(* A version read after the index is that of the index, unless the index   *)
(* was replaced in between.                                                *)
LEMMA LoadVersionKeeps ==
  ASSUME IInv, NEW p \in Processes, LoadVersion(p)
  PROVE  IInv'
  <1> USE KindsAssumption, FilesAssumption DEF IInv, TypeOK, LoadVersion, Goto,
        fileVars, workVars, memoryVars, historyVars, File, Unlock
  <1>1. TypeOK'
    BY DEF Pc, Persisting
  <1>2. OpenedPlaces'
    BY DEF OpenedPlaces
  <1>3. AbsentIsUnread'
    BY DEF AbsentIsUnread, Numbered
  <1>4. NothingAhead'
    BY DEF NothingAhead
  <1>5. OwnerWrites'
    BY DEF OwnerWrites, Persisting
  <1>6. IndexCurrent'
    BY DEF IndexCurrent, Behind, Numbered, Persisting
  <1>7. CacheBehind'
    BY DEF CacheBehind, Persisting
  <1>8. SeenBehind'
    BY DEF SeenBehind, Persisting, Numbered
  <1>9. SeenIsHeld'
    <2> SUFFICES ASSUME Quiet', interfered = "no", NEW q \in Servers,
                        opened'[q], pc'[q] # "loaded", seen'[q] = version',
                        ~raced'[q]
                 PROVE  cache'[q] = index'
      BY DEF SeenIsHeld
    <2> q \in Processes
      BY DEF Processes
    <2>1. Quiet
      BY DEF Quiet, Persisting
    <2>2. CASE q = p
      BY <2>1, <2>2 DEF SeenIsHeld, Quiet, Persisting
    <2>3. CASE q # p
      BY <2>1, <2>3 DEF SeenIsHeld
    <2> QED
      BY <2>2, <2>3
  <1> QED
    BY <1>1, <1>2, <1>3, <1>4, <1>5, <1>6, <1>7, <1>8, <1>9

(* A search looks at the version on disk.                                  *)
LEMMA CheckVersionKeeps ==
  ASSUME IInv, NEW p \in Processes, CheckVersion(p)
  PROVE  IInv'
  <1> USE KindsAssumption, FilesAssumption DEF IInv, TypeOK, CheckVersion,
        Goto, fileVars, workVars, memoryVars, historyVars, File
  <1>1. TypeOK'
    BY DEF Pc, Persisting
  <1>2. OpenedPlaces'
    BY DEF OpenedPlaces
  <1>3. AbsentIsUnread'
    BY DEF AbsentIsUnread, Numbered
  <1>4. NothingAhead'
    BY DEF NothingAhead
  <1>5. OwnerWrites'
    BY DEF OwnerWrites, Persisting
  <1>6. IndexCurrent'
    BY DEF IndexCurrent, Behind, Numbered, Persisting
  <1>7. CacheBehind'
    BY DEF CacheBehind, Persisting
  <1>8. SeenBehind'
    BY DEF SeenBehind, Persisting, Numbered
  <1>9. SeenIsHeld'
    BY DEF SeenIsHeld, Quiet, Persisting, Numbered
  <1> QED
    BY <1>1, <1>2, <1>3, <1>4, <1>5, <1>6, <1>7, <1>8, <1>9

(* A search scores from the index in memory.                               *)
LEMMA ScoreKeeps ==
  ASSUME IInv, NEW p \in Processes, Score(p)
  PROVE  IInv'
  <1> USE KindsAssumption, FilesAssumption DEF IInv, TypeOK, Score, Goto,
        fileVars, workVars, memoryVars, historyVars, File
  <1>1. TypeOK'
    BY DEF Pc, Persisting
  <1>2. OpenedPlaces'
    BY DEF OpenedPlaces
  <1>3. AbsentIsUnread'
    BY DEF AbsentIsUnread, Numbered
  <1>4. NothingAhead'
    BY DEF NothingAhead
  <1>5. OwnerWrites'
    BY DEF OwnerWrites, Persisting
  <1>6. IndexCurrent'
    BY DEF IndexCurrent, Behind, Numbered, Persisting
  <1>7. CacheBehind'
    BY DEF CacheBehind, Persisting
  <1>8. SeenBehind'
    BY DEF SeenBehind, Persisting, Numbered
  <1>9. SeenIsHeld'
    BY DEF SeenIsHeld, Quiet, Persisting, Numbered
  <1> QED
    BY <1>1, <1>2, <1>3, <1>4, <1>5, <1>6, <1>7, <1>8, <1>9

(* An ingest that is no setup's takes the write lock.                      *)
LEMMA BeginIngestKeeps ==
  ASSUME IInv, NEW p \in Processes, BeginIngest(p)
  PROVE  IInv'
  <1> USE KindsAssumption, FilesAssumption DEF IInv, TypeOK, BeginIngest, Goto,
        fileVars, workVars, memoryVars, historyVars, File
  <1>1. TypeOK'
    BY DEF Pc, Persisting
  <1>2. OpenedPlaces'
    BY DEF OpenedPlaces
  <1>3. AbsentIsUnread'
    BY DEF AbsentIsUnread, Numbered
  <1>4. NothingAhead'
    BY DEF NothingAhead
  <1>5. OwnerWrites'
    BY DEF OwnerWrites, Persisting
  <1>6. IndexCurrent'
    BY DEF IndexCurrent, Behind, Numbered, Persisting
  <1>7. CacheBehind'
    BY DEF CacheBehind, Persisting
  <1>8. SeenBehind'
    BY DEF SeenBehind, Persisting, Numbered
  <1>9. SeenIsHeld'
    BY DEF SeenIsHeld, Quiet, Persisting, Numbered
  <1> QED
    BY <1>1, <1>2, <1>3, <1>4, <1>5, <1>6, <1>7, <1>8, <1>9

(* Chunks are stored: the index is behind until it is rebuilt.             *)
LEMMA StoreChunksKeeps ==
  ASSUME IInv, NEW p \in Processes, StoreChunks(p)
  PROVE  IInv'
  <1> USE KindsAssumption, FilesAssumption DEF IInv, TypeOK, StoreChunks, Goto,
        fileVars, workVars, memoryVars, historyVars, File, Interfere, Unlocked
  <1>1. TypeOK'
    BY DEF Pc, Persisting
  <1>2. OpenedPlaces'
    BY DEF OpenedPlaces
  <1>3. AbsentIsUnread'
    BY DEF AbsentIsUnread, Numbered
  <1>4. NothingAhead'
    BY DEF NothingAhead
  <1>5. OwnerWrites'
    BY DEF OwnerWrites, Persisting
  <1>6. IndexCurrent'
    BY DEF IndexCurrent, Behind, Numbered, OwnerWrites, Persisting
  <1>7. CacheBehind'
    BY DEF CacheBehind, Persisting
  <1>8. SeenBehind'
    BY DEF SeenBehind, Persisting, Numbered
  <1>9. SeenIsHeld'
    BY DEF SeenIsHeld, Quiet, Persisting, Numbered
  <1> QED
    BY <1>1, <1>2, <1>3, <1>4, <1>5, <1>6, <1>7, <1>8, <1>9

(* An upsert that raises, or a setup without Codex logs, leaves the index  *)
(* behind, and unfinished.                                                 *)
LEMMA EndWithoutRebuildKeeps ==
  ASSUME IInv, NEW p \in Processes, EndWithoutRebuild(p)
  PROVE  IInv'
  <1> USE KindsAssumption, FilesAssumption DEF IInv, TypeOK, EndWithoutRebuild,
        Goto, fileVars, workVars, memoryVars, historyVars, File, Unlock,
        Interfere, Unlocked
  <1>1. TypeOK'
    <2>1. chroma' \in Nat
      OBVIOUS
    <2>4. unfinished' = unfinished \/ unfinished' = TRUE
      OBVIOUS
    <2>2. interfered' \in {"no", "repairing", "yes"}
      OBVIOUS
    <2>3. writeLock' \in Processes \cup {Nobody} /\ pc' \in [Processes -> Pc]
      BY DEF Pc
    <2> QED
      BY <2>1, <2>2, <2>3, <2>4
  <1>2. OpenedPlaces'
    BY DEF OpenedPlaces
  <1>3. AbsentIsUnread'
    BY DEF AbsentIsUnread, Numbered
  <1>4. NothingAhead'
    BY DEF NothingAhead
  <1>5. OwnerWrites'
    BY DEF OwnerWrites, Persisting
  <1>6. IndexCurrent'
    BY DEF IndexCurrent, Behind, Numbered, OwnerWrites, Persisting
  <1>7. CacheBehind'
    BY DEF CacheBehind, Persisting
  <1>8. SeenBehind'
    BY DEF SeenBehind, Persisting, Numbered
  <1>9. SeenIsHeld'
    BY DEF SeenIsHeld, Quiet, Persisting, Numbered
  <1> QED
    BY <1>1, <1>2, <1>3, <1>4, <1>5, <1>6, <1>7, <1>8, <1>9

(* A rebuild that has the store to itself makes up for what was            *)
(* unfinished or interfered with.                                          *)
LEMMA BuildKeeps ==
  ASSUME IInv, NEW p \in Processes, Build(p)
  PROVE  IInv'
  <1> USE KindsAssumption, FilesAssumption DEF IInv, TypeOK, Build, Goto,
        fileVars, workVars, memoryVars, historyVars, File, Unlocked,
        NobodyInterferes
  <1>1. TypeOK'
    BY DEF Pc, Persisting
  <1>2. OpenedPlaces'
    BY DEF OpenedPlaces
  <1>3. AbsentIsUnread'
    BY DEF AbsentIsUnread, Numbered
  <1>4. NothingAhead'
    BY DEF NothingAhead
  <1>5. OwnerWrites'
    BY DEF OwnerWrites, Persisting
  <1>6. IndexCurrent'
    BY DEF IndexCurrent, Behind, Numbered, Persisting
  <1>7. CacheBehind'
    BY DEF CacheBehind, Persisting
  <1>8. SeenBehind'
    BY DEF SeenBehind, Persisting, Numbered
  <1>9. SeenIsHeld'
    BY DEF SeenIsHeld, Quiet, Persisting, Numbered
  <1> QED
    BY <1>1, <1>2, <1>3, <1>4, <1>5, <1>6, <1>7, <1>8, <1>9

(* The owner of the lock is the only one that has index.tmp open.          *)
LEMMA OpenTmpKeeps ==
  ASSUME IInv, NEW p \in Processes, OpenTmp(p)
  PROVE  IInv'
  <1> USE KindsAssumption, FilesAssumption DEF IInv, TypeOK, OpenTmp, Goto,
        fileVars, workVars, memoryVars, historyVars, File
  <1>1. TypeOK'
    BY DEF Pc, Persisting
  <1>2. OpenedPlaces'
    BY DEF OpenedPlaces
  <1>3. AbsentIsUnread'
    BY DEF AbsentIsUnread, Numbered
  <1>4. NothingAhead'
    BY DEF NothingAhead
  <1>5. OwnerWrites'
    BY DEF OwnerWrites, Persisting
  <1>6. IndexCurrent'
    BY DEF IndexCurrent, Behind, Numbered, Persisting
  <1>7. CacheBehind'
    BY DEF CacheBehind, Persisting
  <1>8. SeenBehind'
    BY DEF SeenBehind, Persisting, Numbered
  <1>9. SeenIsHeld'
    BY DEF SeenIsHeld, Quiet, Persisting, Numbered
  <1> QED
    BY <1>1, <1>2, <1>3, <1>4, <1>5, <1>6, <1>7, <1>8, <1>9

(* Without interference the handle is still that of index.tmp, and nobody  *)
(* else has it open: what is dumped is the index of all chunks.            *)
LEMMA DumpKeeps ==
  ASSUME IInv, NEW p \in Processes, Dump(p)
  PROVE  IInv'
  <1> USE KindsAssumption, FilesAssumption DEF IInv, TypeOK, Dump, Goto,
        fileVars, workVars, memoryVars, historyVars, File, Dumped
  <1>0. \/ handle[p] = "tmp" /\ tmp' \in {built[p], Torn} /\ index' = index
        \/ handle[p] = "index" /\ index' \in {built[p], Torn} /\ tmp' = tmp
        \/ handle[p] = "unlinked" /\ index' = index /\ tmp' = tmp
    <2>1. handle[p] \in {"tmp", "index", "unlinked"}
      BY DEF OpenedPlaces
    <2> QED
      BY <2>1
  <1>1. TypeOK'
    <2>1. index' \in File /\ tmp' \in File
      BY <1>0
    <2>2. pc' \in [Processes -> Pc]
      BY DEF Pc, Persisting
    <2>3. handle' \in [Processes -> {"none", "tmp", "index", "unlinked"}]
      OBVIOUS
    <2> QED
      BY <2>1, <2>2, <2>3
  <1>2. OpenedPlaces'
    BY DEF OpenedPlaces
  <1>3. AbsentIsUnread'
    BY <1>0 DEF AbsentIsUnread, Numbered
  <1>4. NothingAhead'
    BY <1>0 DEF NothingAhead
  <1>5. OwnerWrites'
    <2> SUFFICES ASSUME interfered # "yes", NEW q \in Processes
                 PROVE  /\ pc'[q] \in Persisting \ {"building"} =>
                              writeLock = q /\ built[q] = chroma /\ cache[q] = chroma
                        /\ pc'[q] = "dumping" => handle'[q] = "tmp"
                        /\ pc'[q] = "renaming" => tmp' = chroma
      BY DEF OwnerWrites
    <2>1. writeLock = p /\ built[p] = chroma /\ handle[p] = "tmp"
      BY DEF OwnerWrites, Persisting
    <2>2. \A r \in Processes \ {p} : pc[r] \notin Persisting \ {"building"}
      BY <2>1 DEF OwnerWrites
    <2>3. \A r \in Processes \ {p} : handle[r] = "none"
      BY <2>2 DEF OpenedPlaces, Persisting
    <2>4. tmp' = chroma
      BY <2>1, <2>3
    <2> QED
      BY <2>4 DEF OwnerWrites, Persisting
  <1>6. IndexCurrent'
    BY DEF IndexCurrent, Behind, Numbered, OwnerWrites
  <1>7. CacheBehind'
    BY DEF CacheBehind, OwnerWrites
  <1>8. SeenBehind'
    BY DEF SeenBehind, Persisting, Numbered
  <1>9. SeenIsHeld'
    BY DEF SeenIsHeld, Quiet, Persisting, Numbered
  <1> QED
    BY <1>1, <1>2, <1>3, <1>4, <1>5, <1>6, <1>7, <1>8, <1>9

(* The new index is that of all chunks, and no cache is ahead of it.       *)
LEMMA RenameKeeps ==
  ASSUME IInv, NEW p \in Processes, Rename(p)
  PROVE  IInv'
  <1> USE KindsAssumption, FilesAssumption DEF IInv, TypeOK, Rename, Goto,
        fileVars, workVars, memoryVars, historyVars, File
  <1>1. TypeOK'
    BY DEF Pc, Persisting
  <1>2. OpenedPlaces'
    BY DEF OpenedPlaces
  <1>3. AbsentIsUnread'
    BY DEF AbsentIsUnread, Numbered
  <1>4. NothingAhead'
    BY DEF NothingAhead
  <1>5. OwnerWrites'
    BY DEF OwnerWrites, Persisting
  <1>6. IndexCurrent'
    BY DEF IndexCurrent, OwnerWrites, Persisting
  <1>7. CacheBehind'
    BY DEF CacheBehind, NothingAhead, OwnerWrites
  <1>8. SeenBehind'
    BY DEF SeenBehind, Persisting, Numbered
  <1>9. SeenIsHeld'
    BY DEF SeenIsHeld, Quiet, Persisting, Numbered
  <1> QED
    BY <1>1, <1>2, <1>3, <1>4, <1>5, <1>6, <1>7, <1>8, <1>9

(* The next version is counted from the one on disk.                       *)
LEMMA ReadVersionKeeps ==
  ASSUME IInv, NEW p \in Processes, ReadVersion(p)
  PROVE  IInv'
  <1> USE KindsAssumption, FilesAssumption DEF IInv, TypeOK, ReadVersion, Goto,
        fileVars, workVars, memoryVars, historyVars, File
  <1>1. TypeOK'
    BY DEF Pc, Persisting
  <1>2. OpenedPlaces'
    BY DEF OpenedPlaces
  <1>3. AbsentIsUnread'
    BY DEF AbsentIsUnread, Numbered
  <1>4. NothingAhead'
    BY DEF NothingAhead
  <1>5. OwnerWrites'
    BY DEF OwnerWrites, Persisting
  <1>6. IndexCurrent'
    BY DEF IndexCurrent, Behind, Numbered, Persisting
  <1>7. CacheBehind'
    BY DEF CacheBehind, Persisting
  <1>8. SeenBehind'
    BY DEF SeenBehind, Persisting, Numbered
  <1>9. SeenIsHeld'
    BY DEF SeenIsHeld, Quiet, Persisting, Numbered
  <1> QED
    BY <1>1, <1>2, <1>3, <1>4, <1>5, <1>6, <1>7, <1>8, <1>9

(* The next version is on its way to the disk.                             *)
LEMMA WriteVersionKeeps ==
  ASSUME IInv, NEW p \in Processes, WriteVersion(p)
  PROVE  IInv'
  <1> USE KindsAssumption, FilesAssumption DEF IInv, TypeOK, WriteVersion,
        Goto, fileVars, workVars, memoryVars, historyVars, File
  <1>1. TypeOK'
    BY DEF Pc, Persisting
  <1>2. OpenedPlaces'
    BY DEF OpenedPlaces
  <1>3. AbsentIsUnread'
    BY DEF AbsentIsUnread, Numbered
  <1>4. NothingAhead'
    BY DEF NothingAhead
  <1>5. OwnerWrites'
    BY DEF OwnerWrites, Persisting
  <1>6. IndexCurrent'
    BY DEF IndexCurrent, Behind, Numbered, Persisting
  <1>7. CacheBehind'
    BY DEF CacheBehind, Persisting
  <1>8. SeenBehind'
    BY DEF SeenBehind, Persisting, Numbered
  <1>9. SeenIsHeld'
    BY DEF SeenIsHeld, Quiet, Persisting, Numbered
  <1> QED
    BY <1>1, <1>2, <1>3, <1>4, <1>5, <1>6, <1>7, <1>8, <1>9

(* Without interference the version published is newer than every one      *)
(* that was seen: only its publisher has seen it, and holds the index.     *)
LEMMA PublishVersionKeeps ==
  ASSUME IInv, NEW p \in Processes, PublishVersion(p)
  PROVE  IInv'
  <1> USE KindsAssumption, FilesAssumption DEF IInv, TypeOK, PublishVersion,
        Goto, fileVars, workVars, memoryVars, historyVars, File, Unlock
  <1>1. TypeOK'
    BY DEF Pc, Persisting
  <1>2. OpenedPlaces'
    BY DEF OpenedPlaces
  <1>3. AbsentIsUnread'
    BY DEF AbsentIsUnread, Numbered
  <1>4. NothingAhead'
    BY DEF NothingAhead
  <1>5. OwnerWrites'
    BY DEF OwnerWrites, Persisting
  <1>6. IndexCurrent'
    BY DEF IndexCurrent, Numbered, OwnerWrites, Persisting
  <1>7. CacheBehind'
    BY DEF CacheBehind, Persisting
  <1>8. SeenBehind'
    <2> SUFFICES ASSUME NEW q \in Processes, opened'[q], pc'[q] \notin Persisting,
                        ~raced'[q]
                 PROVE  seen'[q] <= version'
      BY DEF SeenBehind
    <2>1. interfered = "no" /\ ~raced[q]
      OBVIOUS
    <2>2. version' = version + 1 /\ next[p] = version + 1
      BY <2>1 DEF IndexCurrent
    <2> QED
      BY <2>1, <2>2 DEF SeenBehind
  <1>9. SeenIsHeld'
    <2> SUFFICES ASSUME Quiet', interfered = "no", NEW q \in Servers,
                        opened'[q], pc'[q] # "loaded", seen'[q] = version',
                        ~raced'[q]
                 PROVE  cache'[q] = index'
      BY DEF SeenIsHeld
    <2> q \in Processes
      BY DEF Processes
    <2>1. index = chroma /\ cache[p] = chroma /\ version' = version + 1 /\ ~raced[q]
      BY DEF IndexCurrent, OwnerWrites, Numbered, Persisting
    <2>2. CASE q = p
      BY <2>1, <2>2
    <2>3. CASE q # p
      <3>1. opened[q] /\ pc[q] \notin Persisting /\ seen[q] = version + 1
        BY <2>1, <2>3 DEF Quiet
      <3> QED
        BY <2>1, <3>1 DEF SeenBehind
    <2> QED
      BY <2>2, <2>3
  <1> QED
    BY <1>1, <1>2, <1>3, <1>4, <1>5, <1>6, <1>7, <1>8, <1>9

(* A process ends and leaves nothing behind.                               *)
LEMMA ExitKeeps ==
  ASSUME IInv, NEW p \in Processes, Exit(p)
  PROVE  IInv'
  <1> USE KindsAssumption, FilesAssumption DEF IInv, TypeOK, Exit, Goto,
        fileVars, workVars, memoryVars, historyVars, File, End, Unlock
  <1>1. TypeOK'
    BY DEF Pc, Persisting
  <1>2. OpenedPlaces'
    BY DEF OpenedPlaces
  <1>3. AbsentIsUnread'
    BY DEF AbsentIsUnread, Numbered
  <1>4. NothingAhead'
    BY DEF NothingAhead
  <1>5. OwnerWrites'
    BY DEF OwnerWrites, Persisting
  <1>6. IndexCurrent'
    BY DEF IndexCurrent, Behind, Numbered, Persisting
  <1>7. CacheBehind'
    BY DEF CacheBehind, Persisting
  <1>8. SeenBehind'
    BY DEF SeenBehind, Persisting, Numbered
  <1>9. SeenIsHeld'
    BY DEF SeenIsHeld, Quiet, Persisting, Numbered
  <1> QED
    BY <1>1, <1>2, <1>3, <1>4, <1>5, <1>6, <1>7, <1>8, <1>9

(* A rename that raises leaves the index or its version unfinished; it     *)
(* takes a process without the lock, and the store stays interfered with.  *)
LEMMA ReplaceFailsKeeps ==
  ASSUME IInv, NEW p \in Processes, ReplaceFails(p)
  PROVE  IInv'
  <1> USE KindsAssumption, FilesAssumption DEF IInv, TypeOK, ReplaceFails,
        Goto, fileVars, workVars, memoryVars, historyVars, File, End, Unlock
  <1>0. interfered' = interfered /\ interfered # "no"
    BY DEF OwnerWrites, IndexCurrent, Numbered, Persisting
  <1>1. TypeOK'
    <2>1. CASE End(p)
      BY <2>1 DEF Pc
    <2>2. CASE ~End(p)
      BY <2>2 DEF Pc
    <2> QED
      BY <2>1, <2>2
  <1>2. OpenedPlaces'
    BY DEF OpenedPlaces
  <1>3. AbsentIsUnread'
    BY DEF AbsentIsUnread, Numbered
  <1>4. NothingAhead'
    BY DEF NothingAhead
  <1>5. OwnerWrites'
    BY DEF OwnerWrites, Persisting
  <1>6. IndexCurrent'
    BY <1>0 DEF IndexCurrent
  <1>7. CacheBehind'
    BY <1>0 DEF CacheBehind
  <1>8. SeenBehind'
    BY DEF SeenBehind, Persisting, Numbered
  <1>9. SeenIsHeld'
    BY <1>0 DEF SeenIsHeld
  <1> QED
    BY <1>1, <1>2, <1>3, <1>4, <1>5, <1>6, <1>7, <1>8, <1>9

(* A death while the index is being rebuilt leaves it unfinished.          *)
LEMMA DieKeeps ==
  ASSUME IInv, NEW p \in Processes, Die(p)
  PROVE  IInv'
  <1> USE KindsAssumption, FilesAssumption DEF IInv, TypeOK, Die, Goto,
        fileVars, workVars, memoryVars, historyVars, File, End, Unlock
  <1>1. TypeOK'
    BY DEF Pc, Persisting
  <1>2. OpenedPlaces'
    BY DEF OpenedPlaces
  <1>3. AbsentIsUnread'
    BY DEF AbsentIsUnread, Numbered
  <1>4. NothingAhead'
    BY DEF NothingAhead
  <1>5. OwnerWrites'
    BY DEF OwnerWrites, Persisting
  <1>6. IndexCurrent'
    BY DEF IndexCurrent, Behind, Numbered, Persisting
  <1>7. CacheBehind'
    BY DEF CacheBehind, Persisting
  <1>8. SeenBehind'
    BY DEF SeenBehind, Persisting, Numbered
  <1>9. SeenIsHeld'
    BY DEF SeenIsHeld, Quiet, Persisting, Numbered
  <1> QED
    BY <1>1, <1>2, <1>3, <1>4, <1>5, <1>6, <1>7, <1>8, <1>9

(* The stores are removed while nobody has them open.                      *)
LEMMA ResetKeeps ==
  ASSUME IInv, Reset
  PROVE  IInv'
  <1> USE KindsAssumption, FilesAssumption DEF IInv, TypeOK, Reset, File,
        workVars, memoryVars
  <1>1. TypeOK' /\ OpenedPlaces' /\ AbsentIsUnread'
    BY DEF OpenedPlaces, AbsentIsUnread, Numbered
  <1>2. NothingAhead'
    BY DEF NothingAhead, OpenedPlaces
  <1>3. OwnerWrites' /\ IndexCurrent' /\ CacheBehind'
    BY DEF OwnerWrites, Persisting, IndexCurrent, Numbered, CacheBehind
  <1>4. SeenBehind' /\ SeenIsHeld'
    BY DEF SeenBehind, SeenIsHeld, Processes, OpenedPlaces
  <1> QED
    BY <1>1, <1>2, <1>3, <1>4

-----------------------------------------------------------------------------
(* The invariant holds before any process has opened the store.            *)
LEMMA InitIInv == Init => IInv
  <1> SUFFICES ASSUME Init PROVE IInv
    OBVIOUS
  <1> USE KindsAssumption, FilesAssumption DEF Init
  <1>1. TypeOK
    BY DEF TypeOK, File, Pc
  <1>2. OpenedPlaces /\ AbsentIsUnread /\ NothingAhead /\ OwnerWrites
    BY DEF OpenedPlaces, AbsentIsUnread, NothingAhead, OwnerWrites, Numbered,
           Persisting
  <1>3. IndexCurrent /\ CacheBehind /\ SeenBehind /\ SeenIsHeld
    BY DEF IndexCurrent, CacheBehind, SeenBehind, SeenIsHeld, Numbered,
           Processes
  <1> QED
    BY <1>1, <1>2, <1>3 DEF IInv

(* Every step of every process, and a reset, keeps it.                     *)
LEMMA NextKeepsIInv == IInv /\ [Next]_vars => IInv'
  <1> SUFFICES ASSUME IInv, [Next]_vars PROVE IInv'
    OBVIOUS
  <1>1. CASE UNCHANGED vars
    BY <1>1 DEF vars, fileVars, workVars, memoryVars, historyVars, IInv,
                TypeOK, OpenedPlaces, AbsentIsUnread, NothingAhead,
                OwnerWrites, IndexCurrent, CacheBehind, SeenBehind,
                SeenIsHeld, Quiet
  <1>2. ASSUME NEW p \in Processes, Step(p) PROVE IInv'
    <2>1. CASE Start(p) \/ LoadIndex(p) \/ LoadVersion(p) \/ CheckVersion(p) \/ Score(p)
      BY <2>1, StartKeeps, LoadIndexKeeps, LoadVersionKeeps, CheckVersionKeeps,
         ScoreKeeps
    <2>2. CASE BeginIngest(p) \/ StoreChunks(p) \/ EndWithoutRebuild(p) \/ Build(p)
      BY <2>2, BeginIngestKeeps, StoreChunksKeeps, EndWithoutRebuildKeeps, BuildKeeps
    <2>3. CASE OpenTmp(p) \/ Dump(p) \/ Rename(p)
      BY <2>3, OpenTmpKeeps, DumpKeeps, RenameKeeps
    <2>4. CASE ReadVersion(p) \/ WriteVersion(p) \/ PublishVersion(p)
      BY <2>4, ReadVersionKeeps, WriteVersionKeeps, PublishVersionKeeps
    <2>5. CASE Exit(p) \/ ReplaceFails(p) \/ Die(p)
      BY <2>5, ExitKeeps, ReplaceFailsKeeps, DieKeeps
    <2> QED
      BY <1>2, <2>1, <2>2, <2>3, <2>4, <2>5 DEF Step
  <1> QED
    BY <1>1, <1>2, ResetKeeps DEF Next

(* The inductive invariant of the keyword index: while nobody interferes,  *)
(* the owner of the write lock is the one writer of the shared files.      *)
THEOREM InductiveInvariant == Spec => []IInv
  BY InitIInv, NextKeepsIInv, PTL DEF Spec

(* The variables of the processes and the files keep their types.          *)
THEOREM TypeCorrect == Spec => []TypeOK
  <1>1. IInv => TypeOK
    BY DEF IInv
  <1> QED
    BY <1>1, InductiveInvariant, PTL

(* When nobody is between storing chunks and publishing their index, and   *)
(* nobody left chunks unindexed, index.pkl is the index of all chunks,     *)
(* unless a process without the write lock took part                       *)
(* (_build_bm25_index(), _persist_bm25()).                                 *)
THEOREM IndexFollows == Spec => []IndexFollowsChroma
  <1>1. IInv => IndexFollowsChroma
    <2> SUFFICES ASSUME IInv, Quiet, Somebody, interfered = "no"
                 PROVE  index = chroma
      BY DEF IndexFollowsChroma
    <2>1. index \in {chroma, Absent}
      BY DEF IInv, IndexCurrent, Quiet, Persisting, Behind
    <2>2. index # Absent
      BY DEF IInv, AbsentIsUnread, Somebody
    <2> QED
      BY <2>1, <2>2
  <1> QED
    BY <1>1, InductiveInvariant, PTL

(* Whoever dies at whatever point, index.pkl can be loaded, unless a       *)
(* process without the write lock took part.                               *)
THEOREM IndexIsWhole == Spec => []IndexWhole
  <1>1. IInv => IndexWhole
    BY DEF IInv, IndexCurrent, IndexWhole
  <1> QED
    BY <1>1, InductiveInvariant, PTL

(* A server that has seen the version on disk holds the index on disk:     *)
(* among writers under the lock every rebuild has a version of its own     *)
(* (_maybe_reload_bm25()).                                                 *)
THEOREM SeenVersionIsHeld == Spec => []SeenIsHeld
  <1>1. IInv => SeenIsHeld
    BY DEF IInv
  <1> QED
    BY <1>1, InductiveInvariant, PTL

-----------------------------------------------------------------------------
(* A running server never goes back to older chunks: what it reloads was   *)
(* built after what it holds.                                              *)
THEOREM CachesOnlyAdvance == Spec => CacheNeverGoesBack
  <1>1. ASSUME IInv, [Next]_vars, interfered = "no", NEW p \in Servers,
               opened[p], opened'[p]
        PROVE  cache'[p] >= cache[p]
    <2> USE DEF IInv, TypeOK
    <2> p \in Processes
      BY DEF Processes
    <2>1. CASE cache'[p] = cache[p]
      BY <1>1, <2>1
    <2>2. ASSUME NEW q \in Processes, LoadIndex(q) PROVE cache'[p] >= cache[p]
      BY <1>1, <2>2 DEF LoadIndex, CacheBehind
    <2>3. ASSUME NEW q \in Processes, Build(q) PROVE cache'[p] >= cache[p]
      BY <1>1, <2>3 DEF Build, NothingAhead
    <2>4. ASSUME NEW q \in Processes, End(q) PROVE cache'[p] = cache[p]
      BY <1>1, <2>4 DEF End
    <2>5. ASSUME NEW q \in Processes, Step(q),
                 ~LoadIndex(q), ~Build(q), ~End(q)
          PROVE  cache' = cache
      BY <2>5 DEF Step, Start, LoadVersion, CheckVersion, Score, BeginIngest,
                  StoreChunks, EndWithoutRebuild, OpenTmp, Dump, Rename,
                  ReadVersion, WriteVersion, PublishVersion, Exit, ReplaceFails,
                  Die, memoryVars
    <2>6. Reset \/ UNCHANGED vars => cache' = cache
      BY DEF Reset, vars, memoryVars
    <2> QED
      BY <1>1, <2>1, <2>2, <2>3, <2>4, <2>5, <2>6 DEF Next
  <1>2. IInv /\ [Next]_vars =>
          [ interfered = "no" =>
              \A p \in Servers : opened[p] /\ opened'[p] => cache'[p] >= cache[p]
          ]_vars
    BY <1>1
  <1> QED
    BY <1>2, InductiveInvariant, PTL DEF Spec, CacheNeverGoesBack
=============================================================================
