-------------------------- MODULE IngestWorkerProof --------------------------
(***************************************************************************)
(* Proofs about IngestWorker for any number of transcripts, hooks and      *)
(* workers, any bounds, and any of them killable: its invariants, then the *)
(* action properties of the rows and the refinement of TranscriptCapture.  *)
(***************************************************************************)
EXTENDS IngestWorker, TLAPS

-----------------------------------------------------------------------------
(* Rows and tables.                                                        *)

(* What the updates of the two failure statements write.                   *)
LEMMA RejectedRow ==
  ASSUME NEW row \in Row
  PROVE  /\ Rejected(row) \in Row
         /\ Rejected(row).state = "failed"
         /\ Rejected(row).revision = row.revision
         /\ Rejected(row).attempts = row.attempts + 1
  <1>1. PICK m \in Nat : m = row.attempts + 1
    BY DEF Row
  <1>2. Rejected(row) = [row EXCEPT !.attempts = m, !.state = "failed"]
    BY <1>1 DEF Rejected
  <1>3. [row EXCEPT !.attempts = m, !.state = "failed"] \in Row
    BY <1>1 DEF Row, RowState
  <1>4. /\ [row EXCEPT !.attempts = m, !.state = "failed"].state = "failed"
        /\ [row EXCEPT !.attempts = m, !.state = "failed"].revision = row.revision
        /\ [row EXCEPT !.attempts = m, !.state = "failed"].attempts = m
    BY DEF Row
  <1> QED
    BY <1>1, <1>2, <1>3, <1>4

LEMMA RescheduledRow ==
  ASSUME NEW row \in Row, NEW n \in Nat
  PROVE  /\ Rescheduled(row, n) \in Row
         /\ Rescheduled(row, n).state = IF n >= MaxAttempts THEN "failed" ELSE "pending"
         /\ Rescheduled(row, n).revision = row.revision
         /\ Rescheduled(row, n).attempts = n
  <1>1. ASSUME NEW state \in RowState, NEW due \in BOOLEAN
        PROVE  LET new == [row EXCEPT !.attempts = n, !.state = state, !.due = due]
               IN  /\ new \in Row
                   /\ new.state = state
                   /\ new.revision = row.revision
                   /\ new.attempts = n
    BY DEF Row
  <1>2. CASE n >= MaxAttempts
    <2>1. Rescheduled(row, n)
            = [row EXCEPT !.attempts = n, !.state = "failed", !.due = TRUE]
      BY <1>2 DEF Rescheduled
    <2> QED
      BY <1>1, <1>2, <2>1 DEF RowState
  <1>3. CASE ~(n >= MaxAttempts)
    <2>1. Rescheduled(row, n)
            = [row EXCEPT !.attempts = n, !.state = "pending", !.due = FALSE]
      <3>1. (n >= MaxAttempts) = FALSE
        BY <1>3
      <3> QED
        BY <1>3, <3>1, Zenon DEF Rescheduled
    <2> QED
      BY <1>1, <1>3, <2>1 DEF RowState
  <1> QED
    BY <1>2, <1>3

(* A statement changes one row.                                            *)
LEMMA TableUpdates ==
  ASSUME NEW table \in [Paths -> Row], NEW p \in Paths,
         NEW revision \in Nat, NEW attempts \in Nat
  PROVE  /\ Upsert(table, p) \in [Paths -> Row]
         /\ Delete(table, p) \in [Paths -> Row]
         /\ DebounceElapsed(table, p) \in [Paths -> Row]
         /\ BackoffElapsed(table, p) \in [Paths -> Row]
         /\ UpdateTransient(table, p, revision, attempts) \in [Paths -> Row]
         /\ UpdatePermanent(table, p, revision) \in [Paths -> Row]
  <1>1. Upsert(table, p) \in [Paths -> Row]
    BY DEF Upsert, Row, RowState
  <1>2. Delete(table, p) \in [Paths -> Row]
    BY DEF Delete, NoRow, Row, RowState
  <1>3. DebounceElapsed(table, p) \in [Paths -> Row]
    BY DEF DebounceElapsed, Row
  <1>4. BackoffElapsed(table, p) \in [Paths -> Row]
    BY DEF BackoffElapsed, Row
  <1>5. UpdateTransient(table, p, revision, attempts) \in [Paths -> Row]
    BY RescheduledRow DEF UpdateTransient
  <1>6. UpdatePermanent(table, p, revision) \in [Paths -> Row]
    BY RejectedRow DEF UpdatePermanent
  <1> QED
    BY <1>1, <1>2, <1>3, <1>4, <1>5, <1>6

(* No statement gives a revision to a path without a row.                  *)
LEMMA TablesNumbered ==
  ASSUME NEW table \in [Paths -> Row], Numbered(table), NEW p \in Paths,
         NEW revision \in Nat, NEW attempts \in Nat
  PROVE  /\ Numbered(Upsert(table, p))
         /\ Numbered(Delete(table, p))
         /\ Present(table, p) => Numbered(DebounceElapsed(table, p))
         /\ Present(table, p) => Numbered(BackoffElapsed(table, p))
         /\ Numbered(UpdateTransient(table, p, revision, attempts))
         /\ Numbered(UpdatePermanent(table, p, revision))
  <1> USE DEF Numbered, Present
  <1>1. Numbered(Upsert(table, p))
    BY DEF Upsert, Row
  <1>2. Numbered(Delete(table, p))
    BY DEF Delete, NoRow
  <1>3. Numbered(DebounceElapsed(table, p))
    BY DEF DebounceElapsed, Row
  <1>4. Numbered(BackoffElapsed(table, p))
    BY DEF BackoffElapsed, Row
  <1>5. Numbered(UpdateTransient(table, p, revision, attempts))
    BY RescheduledRow DEF UpdateTransient, Matches
  <1>6. Numbered(UpdatePermanent(table, p, revision))
    BY RejectedRow DEF UpdatePermanent, Matches
  <1> QED
    BY <1>1, <1>2, <1>3, <1>4, <1>5, <1>6

-----------------------------------------------------------------------------
(* Jobs.                                                                   *)

LEMMA JobChanges ==
  ASSUME NEW job \in Job, NEW status \in JobStatus, NEW n \in Nat
  PROVE  /\ [job EXCEPT !.status = status] \in Job
         /\ [job EXCEPT !.status = status, !.content = n] \in Job
         /\ [job EXCEPT !.status = status, !.attempts = n] \in Job
  BY DEF Job

(* What TypeOK says of one job and one row.                                *)
LEMMA TypedAt ==
  ASSUME TypeOK, NEW w \in Workers, NEW p \in Paths
  PROVE  /\ jobs[w] \in [Paths -> Job]
         /\ jobs[w][p] \in Job
         /\ jobs[w][p].revision \in Nat
         /\ jobs[w][p].attempts \in Nat
         /\ jobs[w][p].content \in Nat
         /\ queue[p] \in Row
         /\ queue[p].revision \in Nat
         /\ queue[p].attempts \in Nat
         /\ queue[p].attempts + 1 \in Nat
         /\ file[p] \in Nat
  BY DEF TypeOK, Job, Row

LEMMA NoJobTyped == NoJob \in Job
  BY DEF NoJob, Job, JobStatus

(* SetJob changes one job and nothing else.                                *)
LEMMA SetJobTyped ==
  ASSUME TypeOK, NEW w \in Workers, NEW p \in Paths, NEW job \in Job,
         SetJob(w, p, job)
  PROVE  /\ jobs' \in [Workers -> [Paths -> Job]]
         /\ jobs'[w][p] = job
         /\ \A v \in Workers : \A q \in Paths :
                v # w \/ q # p => jobs'[v][q] = jobs[v][q]
  <1>1. jobs \in [Workers -> [Paths -> Job]]
    BY DEF TypeOK
  <1> QED
    BY <1>1 DEF SetJob

(* The types are kept by every step.                                       *)
LEMMA TypeOKStep == TypeOK /\ [Next]_vars => TypeOK'
  <1> SUFFICES ASSUME TypeOK, [Next]_vars PROVE TypeOK'
    OBVIOUS
  <1> USE DEF TypeOK, HookPc, WorkerPc, Running, transcriptVars, queueVars,
              storeVars, workerVars, lockVars, historyVars
  <1>1. ASSUME NEW p \in Paths, SessionWrites(p) PROVE TypeOK'
    BY <1>1 DEF SessionWrites
  <1>2. ASSUME NEW p \in Paths, DebouncePasses(p) PROVE TypeOK'
    <2>1. queue' \in [Paths -> Row] /\ Numbered(queue')
      BY <1>2, TypedAt, TableUpdates, TablesNumbered DEF DebouncePasses, Present, Pending
    <2> QED
      BY <1>2, <2>1 DEF DebouncePasses
  <1>3. ASSUME NEW p \in Paths, BackoffPasses(p) PROVE TypeOK'
    <2>1. queue' \in [Paths -> Row] /\ Numbered(queue')
      BY <1>3, TypedAt, TableUpdates, TablesNumbered DEF BackoffPasses, Present, Pending
    <2> QED
      BY <1>3, <2>1 DEF BackoffPasses
  <1>4. ASSUME NEW h \in Hooks, NEW p \in Paths, Enqueue(h, p) PROVE TypeOK'
    <2>1. queue' \in [Paths -> Row] /\ Numbered(queue')
      BY <1>4, TypedAt, TableUpdates, TablesNumbered DEF Enqueue
    <2>2. before' \in SUBSET (Paths \X Paths)
      BY <1>4 DEF Enqueue, MoveLast
    <2> QED
      BY <1>4, <2>1, <2>2 DEF Enqueue
  <1>5. ASSUME NEW h \in Hooks, ProbeFindsOwner(h) PROVE TypeOK'
    BY <1>5 DEF ProbeFindsOwner
  <1>6. ASSUME NEW h \in Hooks, ProbeTakesLock(h) PROVE TypeOK'
    BY <1>6 DEF ProbeTakesLock
  <1>7. ASSUME NEW h \in Hooks, ProbeReleases(h) PROVE TypeOK'
    BY <1>7 DEF ProbeReleases
  <1>8. ASSUME NEW h \in Hooks, NEW w \in Workers, Spawn(h, w) PROVE TypeOK'
    BY <1>8 DEF Spawn
  <1>9. ASSUME NEW h \in Hooks, HookDies(h) PROVE TypeOK'
    BY <1>9 DEF HookDies
  <1>10. ASSUME NEW w \in Workers, Launch(w) PROVE TypeOK'
    BY <1>10 DEF Launch
  <1>11. ASSUME NEW w \in Workers, StartAlone(w) PROVE TypeOK'
    BY <1>11 DEF StartAlone
  <1>12. ASSUME NEW w \in Workers, AlreadyRunning(w) PROVE TypeOK'
    BY <1>12 DEF AlreadyRunning
  <1>13. ASSUME NEW w \in Workers, FetchJobs(w) PROVE TypeOK'
    <2>1. \A q \in Paths : [NoJob EXCEPT !.status = "fetched",
                                   !.revision = queue[q].revision] \in Job
      BY TypedAt DEF NoJob, Job, JobStatus
    <2>2. PICK S \in SUBSET Paths :
            jobs' = [jobs EXCEPT ![w] =
                       [q \in Paths |->
                          IF q \in S
                          THEN [NoJob EXCEPT !.status = "fetched",
                                             !.revision = queue[q].revision]
                          ELSE NoJob]]
      BY <1>13 DEF FetchJobs, ReadyBatches, ReadyPaths
    <2>3. jobs' \in [Workers -> [Paths -> Job]]
      BY <2>1, <2>2, NoJobTyped
    <2> QED
      BY <1>13, <2>1, <2>2, <2>3 DEF FetchJobs
  <1>14. ASSUME NEW w \in Workers, FetchNothing(w) PROVE TypeOK'
    BY <1>14 DEF FetchNothing
  <1>15. ASSUME NEW w \in Workers, NEW p \in Paths, Prepare(w, p) PROVE TypeOK'
    <2>1. [jobs[w][p] EXCEPT !.status = "prepared", !.content = file[p]] \in Job
      BY TypedAt, JobChanges DEF JobStatus
    <2>2. jobs' \in [Workers -> [Paths -> Job]]
      BY <1>15, <2>1, SetJobTyped DEF Prepare
    <2> QED
      BY <1>15, <2>2 DEF Prepare
  <1>16. ASSUME NEW w \in Workers, NEW p \in Paths, PreparePermanentFailure(w, p) PROVE TypeOK'
    <2>1. queue' \in [Paths -> Row] /\ Numbered(queue')
      BY <1>16, TypedAt, TableUpdates, TablesNumbered DEF PreparePermanentFailure
    <2>2. jobs' \in [Workers -> [Paths -> Job]]
      BY <1>16, NoJobTyped, SetJobTyped DEF PreparePermanentFailure
    <2> QED
      BY <1>16, <2>1, <2>2 DEF PreparePermanentFailure
  <1>17. ASSUME NEW w \in Workers, NEW p \in Paths, PrepareFails(w, p) PROVE TypeOK'
    <2>1. [jobs[w][p] EXCEPT !.status = "failed"] \in Job
      BY TypedAt, JobChanges DEF JobStatus
    <2>2. jobs' \in [Workers -> [Paths -> Job]]
      BY <1>17, <2>1, SetJobTyped DEF PrepareFails
    <2> QED
      BY <1>17, <2>2 DEF PrepareFails
  <1>18. ASSUME NEW w \in Workers, NothingPrepared(w) PROVE TypeOK'
    BY <1>18 DEF NothingPrepared
  <1>19. ASSUME NEW w \in Workers, OpenResources(w) PROVE TypeOK'
    BY <1>19 DEF OpenResources
  <1>20. ASSUME NEW w \in Workers, OpenResourcesFails(w) PROVE TypeOK'
    <2>1. jobs' \in [Workers -> [Paths -> Job]]
      BY <1>20 DEF OpenResourcesFails, Job, JobStatus, NoJob
    <2> QED
      BY <1>20, <2>1 DEF OpenResourcesFails
  <1>21. ASSUME NEW w \in Workers, BeginStore(w) PROVE TypeOK'
    BY <1>21 DEF BeginStore
  <1>22. ASSUME NEW w \in Workers, NEW p \in Paths, StoreRaw(w, p) PROVE TypeOK'
    <2>1. [jobs[w][p] EXCEPT !.status = "raw"] \in Job
      BY TypedAt, JobChanges DEF JobStatus
    <2>2. jobs' \in [Workers -> [Paths -> Job]]
      BY <1>22, <2>1, SetJobTyped DEF StoreRaw
    <2>3. raw' \in [Paths -> Nat]
      BY <1>22 DEF StoreRaw, Job
    <2> QED
      BY <1>22, <2>2, <2>3 DEF StoreRaw
  <1>23. ASSUME NEW w \in Workers, NEW p \in Paths, StoreVector(w, p) PROVE TypeOK'
    <2>1. [jobs[w][p] EXCEPT !.status = "stored"] \in Job
      BY TypedAt, JobChanges DEF JobStatus
    <2>2. jobs' \in [Workers -> [Paths -> Job]]
      BY <1>23, <2>1, SetJobTyped DEF StoreVector
    <2>3. vector' \in [Paths -> Nat]
      BY <1>23 DEF StoreVector, Job
    <2> QED
      BY <1>23, <2>2, <2>3 DEF StoreVector
  <1>24. ASSUME NEW w \in Workers, NEW p \in Paths, StoreFails(w, p) PROVE TypeOK'
    <2>1. [jobs[w][p] EXCEPT !.status = "failed"] \in Job
      BY TypedAt, JobChanges DEF JobStatus
    <2>2. jobs' \in [Workers -> [Paths -> Job]]
      BY <1>24, <2>1, SetJobTyped DEF StoreFails
    <2> QED
      BY <1>24, <2>2 DEF StoreFails
  <1>25. ASSUME NEW w \in Workers, Rebuild(w) PROVE TypeOK'
    BY <1>25 DEF Rebuild, EndStore
  <1>26. ASSUME NEW w \in Workers, RebuildFails(w) PROVE TypeOK'
    <2>1. \A q \in Paths : [jobs[w][q] EXCEPT !.status = "failed"] \in Job
      BY TypedAt, JobChanges DEF JobStatus
    <2>2. jobs' \in [Workers -> [Paths -> Job]]
      BY <1>26, <2>1 DEF RebuildFails
    <2> QED
      BY <1>26, <2>1, <2>2 DEF RebuildFails, EndStore
  <1>27. ASSUME NEW w \in Workers, NothingStored(w) PROVE TypeOK'
    BY <1>27 DEF NothingStored, EndStore
  <1>28. ASSUME NEW w \in Workers, NEW p \in Paths, Acknowledge(w, p) PROVE TypeOK'
    <2>1. queue' \in [Paths -> Row] /\ Numbered(queue')
      BY <1>28, TypedAt, TableUpdates, TablesNumbered DEF Acknowledge
    <2>2. before' \in SUBSET (Paths \X Paths)
      BY <1>28 DEF Acknowledge, Forget
    <2>3. jobs' \in [Workers -> [Paths -> Job]]
      BY <1>28, NoJobTyped, SetJobTyped DEF Acknowledge
    <2> QED
      BY <1>28, <2>1, <2>2, <2>3 DEF Acknowledge
  <1>29. ASSUME NEW w \in Workers, NEW p \in Paths, ReadAttempts(w, p) PROVE TypeOK'
    <2>1. (IF Matches(queue, p, jobs[w][p].revision)
           THEN [jobs[w][p] EXCEPT !.status = "marking",
                                   !.attempts = queue[p].attempts + 1]
           ELSE NoJob) \in Job
      BY TypedAt, JobChanges, NoJobTyped DEF JobStatus
    <2>2. jobs' \in [Workers -> [Paths -> Job]]
      BY <1>29, <2>1, SetJobTyped DEF ReadAttempts
    <2> QED
      BY <1>29, <2>2 DEF ReadAttempts
  <1>30. ASSUME NEW w \in Workers, NEW p \in Paths, Reschedule(w, p) PROVE TypeOK'
    <2>1. queue' \in [Paths -> Row] /\ Numbered(queue')
      BY <1>30, TypedAt, TableUpdates, TablesNumbered DEF Reschedule
    <2>2. jobs' \in [Workers -> [Paths -> Job]]
      BY <1>30, NoJobTyped, SetJobTyped DEF Reschedule
    <2> QED
      BY <1>30, <2>1, <2>2 DEF Reschedule
  <1>31. ASSUME NEW w \in Workers, EndCycle(w) PROVE TypeOK'
    BY <1>31 DEF EndCycle
  <1>32. ASSUME NEW w \in Workers, OnceExit(w) PROVE TypeOK'
    BY <1>32 DEF OnceExit, Exit
  <1>33. ASSUME NEW w \in Workers, Sleep(w) PROVE TypeOK'
    BY <1>33 DEF Sleep
  <1>34. ASSUME NEW w \in Workers, BeginFinalCheck(w) PROVE TypeOK'
    BY <1>34 DEF BeginFinalCheck
  <1>35. ASSUME NEW w \in Workers, FinalCheckFindsWork(w) PROVE TypeOK'
    BY <1>35 DEF FinalCheckFindsWork
  <1>36. ASSUME NEW w \in Workers, FinalCheckFindsNone(w) PROVE TypeOK'
    BY <1>36 DEF FinalCheckFindsNone
  <1>37. ASSUME NEW w \in Workers, ReleaseWorkerLock(w) PROVE TypeOK'
    BY <1>37 DEF ReleaseWorkerLock
  <1>38. ASSUME NEW w \in Workers, Leave(w) PROVE TypeOK'
    BY <1>38 DEF Leave, Exit
  <1>39. ASSUME NEW w \in Workers, WorkerDies(w) PROVE TypeOK'
    <2>1. jobs' \in [Workers -> [Paths -> Job]]
      BY <1>39 DEF WorkerDies, Job, JobStatus, NoJob, NoJobs
    <2> QED
      BY <1>39, <2>1 DEF WorkerDies, Exit
  <1>40. CASE UNCHANGED vars
    BY <1>40 DEF vars
  <1> QED
    BY <1>1, <1>2, <1>3, <1>4, <1>5, <1>6, <1>7, <1>8, <1>9, <1>10, <1>11, <1>12, <1>13, <1>14, <1>15, <1>16, <1>17, <1>18, <1>19, <1>20, <1>21, <1>22, <1>23, <1>24, <1>25, <1>26, <1>27, <1>28, <1>29, <1>30, <1>31, <1>32, <1>33, <1>34, <1>35, <1>36, <1>37, <1>38, <1>39, <1>40
    DEF Next, TimePasses, HookStep, WorkerStep, BatchStep, LifeStep, JobStep

LEMMA InitTypeOK == Init => TypeOK
  <1> SUFFICES ASSUME Init PROVE TypeOK
    OBVIOUS
  <1>1. NoRow \in Row
    BY DEF NoRow, Row, RowState
  <1>2. queue \in [Paths -> Row] /\ Numbered(queue)
    BY <1>1 DEF Init, Numbered, Present, NoRow
  <1>3. jobs \in [Workers -> [Paths -> Job]]
    BY NoJobTyped DEF Init, NoJobs
  <1> QED
    BY <1>2, <1>3 DEF Init, TypeOK, HookPc, WorkerPc

(* Every reachable state is well typed.                                    *)
THEOREM TypeCorrect == Spec => []TypeOK
  BY InitTypeOK, TypeOKStep, PTL DEF Spec

-----------------------------------------------------------------------------
(* Locks.                                                                  *)

LEMMA LocksHeldStep == TypeOK /\ LocksHeld /\ [Next]_vars => LocksHeld'
  <1> SUFFICES ASSUME TypeOK, LocksHeld, [Next]_vars PROVE LocksHeld'
    OBVIOUS
  <1>0. /\ pc \in [Workers -> WorkerPc]
        /\ hookPc \in [Hooks -> HookPc]
        /\ Hooks \cap Workers = {}
        /\ Nobody \notin Hooks \cup Workers
    BY ProcessAssumption DEF TypeOK
  <1> USE <1>0
  <1> USE DEF LocksHeld, Running, transcriptVars, queueVars, storeVars,
              workerVars, lockVars, historyVars
  <1>1. ASSUME NEW p \in Paths, SessionWrites(p) PROVE LocksHeld'
    BY <1>1 DEF SessionWrites
  <1>2. ASSUME NEW p \in Paths, DebouncePasses(p) PROVE LocksHeld'
    BY <1>2 DEF DebouncePasses
  <1>3. ASSUME NEW p \in Paths, BackoffPasses(p) PROVE LocksHeld'
    BY <1>3 DEF BackoffPasses
  <1>4. ASSUME NEW h \in Hooks, NEW p \in Paths, Enqueue(h, p) PROVE LocksHeld'
    BY <1>4 DEF Enqueue
  <1>5. ASSUME NEW h \in Hooks, ProbeFindsOwner(h) PROVE LocksHeld'
    BY <1>5 DEF ProbeFindsOwner
  <1>6. ASSUME NEW h \in Hooks, ProbeTakesLock(h) PROVE LocksHeld'
    BY <1>6 DEF ProbeTakesLock
  <1>7. ASSUME NEW h \in Hooks, ProbeReleases(h) PROVE LocksHeld'
    BY <1>7 DEF ProbeReleases
  <1>8. ASSUME NEW h \in Hooks, NEW w \in Workers, Spawn(h, w) PROVE LocksHeld'
    BY <1>8 DEF Spawn
  <1>9. ASSUME NEW h \in Hooks, HookDies(h) PROVE LocksHeld'
    BY <1>9 DEF HookDies
  <1>10. ASSUME NEW w \in Workers, Launch(w) PROVE LocksHeld'
    BY <1>10 DEF Launch
  <1>11. ASSUME NEW w \in Workers, StartAlone(w) PROVE LocksHeld'
    BY <1>11 DEF StartAlone
  <1>12. ASSUME NEW w \in Workers, AlreadyRunning(w) PROVE LocksHeld'
    BY <1>12 DEF AlreadyRunning
  <1>13. ASSUME NEW w \in Workers, FetchJobs(w) PROVE LocksHeld'
    BY <1>13 DEF FetchJobs
  <1>14. ASSUME NEW w \in Workers, FetchNothing(w) PROVE LocksHeld'
    BY <1>14 DEF FetchNothing
  <1>15. ASSUME NEW w \in Workers, NEW p \in Paths, Prepare(w, p) PROVE LocksHeld'
    BY <1>15 DEF Prepare
  <1>16. ASSUME NEW w \in Workers, NEW p \in Paths, PreparePermanentFailure(w, p) PROVE LocksHeld'
    BY <1>16 DEF PreparePermanentFailure
  <1>17. ASSUME NEW w \in Workers, NEW p \in Paths, PrepareFails(w, p) PROVE LocksHeld'
    BY <1>17 DEF PrepareFails
  <1>18. ASSUME NEW w \in Workers, NothingPrepared(w) PROVE LocksHeld'
    BY <1>18 DEF NothingPrepared, AllPrepared
  <1>19. ASSUME NEW w \in Workers, OpenResources(w) PROVE LocksHeld'
    BY <1>19 DEF OpenResources
  <1>20. ASSUME NEW w \in Workers, OpenResourcesFails(w) PROVE LocksHeld'
    BY <1>20 DEF OpenResourcesFails, AllPrepared
  <1>21. ASSUME NEW w \in Workers, BeginStore(w) PROVE LocksHeld'
    BY <1>21 DEF BeginStore, AllPrepared
  <1>22. ASSUME NEW w \in Workers, NEW p \in Paths, StoreRaw(w, p) PROVE LocksHeld'
    BY <1>22 DEF StoreRaw
  <1>23. ASSUME NEW w \in Workers, NEW p \in Paths, StoreVector(w, p) PROVE LocksHeld'
    BY <1>23 DEF StoreVector
  <1>24. ASSUME NEW w \in Workers, NEW p \in Paths, StoreFails(w, p) PROVE LocksHeld'
    BY <1>24 DEF StoreFails
  <1>25. ASSUME NEW w \in Workers, Rebuild(w) PROVE LocksHeld'
    BY <1>25 DEF Rebuild, EndStore, AllStored
  <1>26. ASSUME NEW w \in Workers, RebuildFails(w) PROVE LocksHeld'
    BY <1>26 DEF RebuildFails, EndStore, AllStored
  <1>27. ASSUME NEW w \in Workers, NothingStored(w) PROVE LocksHeld'
    BY <1>27 DEF NothingStored, EndStore, AllStored
  <1>28. ASSUME NEW w \in Workers, NEW p \in Paths, Acknowledge(w, p) PROVE LocksHeld'
    BY <1>28 DEF Acknowledge
  <1>29. ASSUME NEW w \in Workers, NEW p \in Paths, ReadAttempts(w, p) PROVE LocksHeld'
    BY <1>29 DEF ReadAttempts
  <1>30. ASSUME NEW w \in Workers, NEW p \in Paths, Reschedule(w, p) PROVE LocksHeld'
    BY <1>30 DEF Reschedule
  <1>31. ASSUME NEW w \in Workers, EndCycle(w) PROVE LocksHeld'
    BY <1>31 DEF EndCycle
  <1>32. ASSUME NEW w \in Workers, OnceExit(w) PROVE LocksHeld'
    BY <1>32 DEF OnceExit, Exit
  <1>33. ASSUME NEW w \in Workers, Sleep(w) PROVE LocksHeld'
    BY <1>33 DEF Sleep
  <1>34. ASSUME NEW w \in Workers, BeginFinalCheck(w) PROVE LocksHeld'
    BY <1>34 DEF BeginFinalCheck
  <1>35. ASSUME NEW w \in Workers, FinalCheckFindsWork(w) PROVE LocksHeld'
    BY <1>35 DEF FinalCheckFindsWork
  <1>36. ASSUME NEW w \in Workers, FinalCheckFindsNone(w) PROVE LocksHeld'
    BY <1>36 DEF FinalCheckFindsNone
  <1>37. ASSUME NEW w \in Workers, ReleaseWorkerLock(w) PROVE LocksHeld'
    BY <1>37 DEF ReleaseWorkerLock
  <1>38. ASSUME NEW w \in Workers, Leave(w) PROVE LocksHeld'
    BY <1>38 DEF Leave, Exit
  <1>39. ASSUME NEW w \in Workers, WorkerDies(w) PROVE LocksHeld'
    BY <1>39 DEF WorkerDies, Exit
  <1>40. CASE UNCHANGED vars
    BY <1>40 DEF vars
  <1> QED
    BY <1>1, <1>2, <1>3, <1>4, <1>5, <1>6, <1>7, <1>8, <1>9, <1>10, <1>11, <1>12, <1>13, <1>14, <1>15, <1>16, <1>17, <1>18, <1>19, <1>20, <1>21, <1>22, <1>23, <1>24, <1>25, <1>26, <1>27, <1>28, <1>29, <1>30, <1>31, <1>32, <1>33, <1>34, <1>35, <1>36, <1>37, <1>38, <1>39, <1>40
    DEF Next, TimePasses, HookStep, WorkerStep, BatchStep, LifeStep, JobStep

-----------------------------------------------------------------------------
(* What each step on one job makes of the jobs.                            *)

OtherJobsKept(w, p) ==
    \A v \in Workers : \A q \in Paths : v # w \/ q # p => jobs'[v][q] = jobs[v][q]

LEMMA PrepareJob ==
  ASSUME TypeOK, NEW w \in Workers, NEW p \in Paths, Prepare(w, p)
  PROVE  /\ jobs'[w][p].status = "prepared"
         /\ jobs'[w][p].revision = jobs[w][p].revision
         /\ jobs'[w][p].content = file[p]
         /\ OtherJobsKept(w, p)
  <1>1. [jobs[w][p] EXCEPT !.status = "prepared", !.content = file[p]] \in Job
    BY TypedAt, JobChanges DEF JobStatus
  <1>2. jobs'[w][p] = [jobs[w][p] EXCEPT !.status = "prepared", !.content = file[p]]
    BY <1>1, SetJobTyped DEF Prepare
  <1>3. OtherJobsKept(w, p)
    BY <1>1, SetJobTyped DEF Prepare, OtherJobsKept
  <1> QED
    BY <1>2, <1>3, TypedAt DEF Job

LEMMA PreparePermanentFailureJob ==
  ASSUME TypeOK, NEW w \in Workers, NEW p \in Paths, PreparePermanentFailure(w, p)
  PROVE  jobs'[w][p].status = "none" /\ OtherJobsKept(w, p)
  BY NoJobTyped, SetJobTyped DEF PreparePermanentFailure, OtherJobsKept, NoJob

LEMMA PrepareFailsJob ==
  ASSUME TypeOK, NEW w \in Workers, NEW p \in Paths, PrepareFails(w, p)
  PROVE  /\ jobs'[w][p].status = "failed"
         /\ jobs'[w][p].revision = jobs[w][p].revision
         /\ jobs'[w][p].content = jobs[w][p].content
         /\ OtherJobsKept(w, p)
  <1>1. [jobs[w][p] EXCEPT !.status = "failed"] \in Job
    BY TypedAt, JobChanges DEF JobStatus
  <1>2. jobs'[w][p] = [jobs[w][p] EXCEPT !.status = "failed"]
    BY <1>1, SetJobTyped DEF PrepareFails
  <1>3. OtherJobsKept(w, p)
    BY <1>1, SetJobTyped DEF PrepareFails, OtherJobsKept
  <1> QED
    BY <1>2, <1>3, TypedAt DEF Job

LEMMA StoreRawJob ==
  ASSUME TypeOK, NEW w \in Workers, NEW p \in Paths, StoreRaw(w, p)
  PROVE  /\ jobs'[w][p].status = "raw"
         /\ jobs'[w][p].revision = jobs[w][p].revision
         /\ jobs'[w][p].content = jobs[w][p].content
         /\ OtherJobsKept(w, p)
  <1>1. [jobs[w][p] EXCEPT !.status = "raw"] \in Job
    BY TypedAt, JobChanges DEF JobStatus
  <1>2. jobs'[w][p] = [jobs[w][p] EXCEPT !.status = "raw"]
    BY <1>1, SetJobTyped DEF StoreRaw
  <1>3. OtherJobsKept(w, p)
    BY <1>1, SetJobTyped DEF StoreRaw, OtherJobsKept
  <1> QED
    BY <1>2, <1>3, TypedAt DEF Job

LEMMA StoreVectorJob ==
  ASSUME TypeOK, NEW w \in Workers, NEW p \in Paths, StoreVector(w, p)
  PROVE  /\ jobs'[w][p].status = "stored"
         /\ jobs'[w][p].revision = jobs[w][p].revision
         /\ jobs'[w][p].content = jobs[w][p].content
         /\ OtherJobsKept(w, p)
  <1>1. [jobs[w][p] EXCEPT !.status = "stored"] \in Job
    BY TypedAt, JobChanges DEF JobStatus
  <1>2. jobs'[w][p] = [jobs[w][p] EXCEPT !.status = "stored"]
    BY <1>1, SetJobTyped DEF StoreVector
  <1>3. OtherJobsKept(w, p)
    BY <1>1, SetJobTyped DEF StoreVector, OtherJobsKept
  <1> QED
    BY <1>2, <1>3, TypedAt DEF Job

LEMMA StoreFailsJob ==
  ASSUME TypeOK, NEW w \in Workers, NEW p \in Paths, StoreFails(w, p)
  PROVE  /\ jobs'[w][p].status = "failed"
         /\ jobs'[w][p].revision = jobs[w][p].revision
         /\ jobs'[w][p].content = jobs[w][p].content
         /\ OtherJobsKept(w, p)
  <1>1. [jobs[w][p] EXCEPT !.status = "failed"] \in Job
    BY TypedAt, JobChanges DEF JobStatus
  <1>2. jobs'[w][p] = [jobs[w][p] EXCEPT !.status = "failed"]
    BY <1>1, SetJobTyped DEF StoreFails
  <1>3. OtherJobsKept(w, p)
    BY <1>1, SetJobTyped DEF StoreFails, OtherJobsKept
  <1> QED
    BY <1>2, <1>3, TypedAt DEF Job

LEMMA AcknowledgeJob ==
  ASSUME TypeOK, NEW w \in Workers, NEW p \in Paths, Acknowledge(w, p)
  PROVE  jobs'[w][p].status = "none" /\ OtherJobsKept(w, p)
  BY NoJobTyped, SetJobTyped DEF Acknowledge, OtherJobsKept, NoJob

LEMMA ReadAttemptsJob ==
  ASSUME TypeOK, NEW w \in Workers, NEW p \in Paths, ReadAttempts(w, p)
  PROVE  /\ IF Matches(queue, p, jobs[w][p].revision)
            THEN /\ jobs'[w][p].status = "marking"
                 /\ jobs'[w][p].revision = jobs[w][p].revision
                 /\ jobs'[w][p].attempts = queue[p].attempts + 1
            ELSE jobs'[w][p].status = "none"
         /\ OtherJobsKept(w, p)
  <1>1. CASE Matches(queue, p, jobs[w][p].revision)
    <2>1. PICK n \in Nat : n = queue[p].attempts + 1
      BY TypedAt
    <2>2. [jobs[w][p] EXCEPT !.status = "marking", !.attempts = n] \in Job
      BY TypedAt, JobChanges DEF JobStatus
    <2>3. SetJob(w, p, [jobs[w][p] EXCEPT !.status = "marking", !.attempts = n])
      BY <1>1, <2>1 DEF ReadAttempts
    <2>4. jobs'[w][p] = [jobs[w][p] EXCEPT !.status = "marking", !.attempts = n]
      BY <2>2, <2>3, SetJobTyped
    <2>5. OtherJobsKept(w, p)
      BY <2>2, <2>3, SetJobTyped DEF OtherJobsKept
    <2> QED
      BY <1>1, <2>1, <2>4, <2>5, TypedAt DEF Job
  <1>2. CASE ~Matches(queue, p, jobs[w][p].revision)
    BY <1>2, NoJobTyped, SetJobTyped DEF ReadAttempts, OtherJobsKept, NoJob
  <1> QED
    BY <1>1, <1>2

LEMMA RescheduleJob ==
  ASSUME TypeOK, NEW w \in Workers, NEW p \in Paths, Reschedule(w, p)
  PROVE  jobs'[w][p].status = "none" /\ OtherJobsKept(w, p)
  BY NoJobTyped, SetJobTyped DEF Reschedule, OtherJobsKept, NoJob

(* A batch consists of pending rows at their current revision.             *)
LEMMA FetchJobsJobs ==
  ASSUME TypeOK, NEW w \in Workers, FetchJobs(w)
  PROVE  /\ \A q \in Paths :
               \/ jobs'[w][q].status = "none"
               \/ /\ jobs'[w][q].status = "fetched"
                  /\ jobs'[w][q].revision = queue[q].revision
                  /\ Pending(queue, q)
         /\ \A v \in Workers \ {w} : jobs'[v] = jobs[v]
  <1>1. PICK S \in SUBSET Paths :
           /\ \A q \in S : Pending(queue, q)
           /\ jobs' = [jobs EXCEPT ![w] =
                         [q \in Paths |->
                            IF q \in S
                            THEN [NoJob EXCEPT !.status = "fetched",
                                               !.revision = queue[q].revision]
                            ELSE NoJob]]
    BY DEF FetchJobs, ReadyBatches, ReadyPaths, Pending
  <1>2. jobs \in [Workers -> [Paths -> Job]]
    BY DEF TypeOK
  <1>3. ASSUME NEW q \in Paths
        PROVE  jobs'[w][q] = IF q \in S
                             THEN [NoJob EXCEPT !.status = "fetched",
                                                !.revision = queue[q].revision]
                             ELSE NoJob
    BY <1>1, <1>2
  <1>4. ASSUME NEW q \in Paths, q \in S
        PROVE  /\ jobs'[w][q].status = "fetched"
               /\ jobs'[w][q].revision = queue[q].revision
               /\ Pending(queue, q)
    <2>1. jobs'[w][q] = [NoJob EXCEPT !.status = "fetched",
                                      !.revision = queue[q].revision]
      BY <1>3, <1>4
    <2>2. jobs'[w][q].status = "fetched" /\ jobs'[w][q].revision = queue[q].revision
      BY <2>1 DEF NoJob
    <2> QED
      BY <2>2, <1>1, <1>4
  <1>5. ASSUME NEW q \in Paths, q \notin S PROVE jobs'[w][q].status = "none"
    <2>1. jobs'[w][q] = NoJob
      BY <1>3, <1>5
    <2> QED
      BY <2>1 DEF NoJob
  <1>6. \A v \in Workers \ {w} : jobs'[v] = jobs[v]
    BY <1>1, <1>2
  <1> QED
    BY <1>4, <1>5, <1>6

-----------------------------------------------------------------------------
(* The statuses of a batch follow the program.                             *)

LEMMA PhaseOfOneJob ==
  ASSUME JobsInPhase, NEW w \in Workers, NEW p \in Paths, OtherJobsKept(w, p),
         pc' = pc, jobs'[w][p].status \in PhaseStatus(pc[w])
  PROVE  JobsInPhase'
  BY DEF JobsInPhase, OtherJobsKept

LEMMA JobsInPhaseStep ==
    TypeOK /\ LocksHeld /\ JobsInPhase /\ [Next]_vars => JobsInPhase'
  <1> SUFFICES ASSUME TypeOK, LocksHeld, JobsInPhase, [Next]_vars PROVE JobsInPhase'
    OBVIOUS
  <1>0. /\ pc \in [Workers -> WorkerPc]
        /\ jobs \in [Workers -> [Paths -> Job]]
    BY DEF TypeOK
  <1> USE <1>0
  <1> USE DEF JobsInPhase, PhaseStatus, transcriptVars, queueVars, storeVars,
              workerVars, lockVars, historyVars
  <1>1. ASSUME NEW p \in Paths, SessionWrites(p) PROVE JobsInPhase'
    BY <1>1 DEF SessionWrites
  <1>2. ASSUME NEW p \in Paths, DebouncePasses(p) PROVE JobsInPhase'
    BY <1>2 DEF DebouncePasses
  <1>3. ASSUME NEW p \in Paths, BackoffPasses(p) PROVE JobsInPhase'
    BY <1>3 DEF BackoffPasses
  <1>4. ASSUME NEW h \in Hooks, NEW p \in Paths, Enqueue(h, p) PROVE JobsInPhase'
    BY <1>4 DEF Enqueue
  <1>5. ASSUME NEW h \in Hooks, ProbeFindsOwner(h) PROVE JobsInPhase'
    BY <1>5 DEF ProbeFindsOwner
  <1>6. ASSUME NEW h \in Hooks, ProbeTakesLock(h) PROVE JobsInPhase'
    BY <1>6 DEF ProbeTakesLock
  <1>7. ASSUME NEW h \in Hooks, ProbeReleases(h) PROVE JobsInPhase'
    BY <1>7 DEF ProbeReleases
  <1>8. ASSUME NEW h \in Hooks, NEW w \in Workers, Spawn(h, w) PROVE JobsInPhase'
    BY <1>8 DEF Spawn
  <1>9. ASSUME NEW h \in Hooks, HookDies(h) PROVE JobsInPhase'
    BY <1>9 DEF HookDies
  <1>10. ASSUME NEW w \in Workers, Launch(w) PROVE JobsInPhase'
    BY <1>10 DEF Launch
  <1>11. ASSUME NEW w \in Workers, StartAlone(w) PROVE JobsInPhase'
    BY <1>11 DEF StartAlone
  <1>12. ASSUME NEW w \in Workers, AlreadyRunning(w) PROVE JobsInPhase'
    BY <1>12 DEF AlreadyRunning
  <1>13. ASSUME NEW w \in Workers, FetchJobs(w) PROVE JobsInPhase'
    <2>1. /\ pc[w] = "polling" /\ pc' = [pc EXCEPT ![w] = "preparing"]
          /\ \A q \in Paths : jobs'[w][q].status \in {"none", "fetched"}
          /\ \A v \in Workers \ {w} : jobs'[v] = jobs[v]
      BY <1>13, FetchJobsJobs DEF FetchJobs
    <2> QED
      BY <2>1
  <1>14. ASSUME NEW w \in Workers, FetchNothing(w) PROVE JobsInPhase'
    BY <1>14 DEF FetchNothing
  <1>15. ASSUME NEW w \in Workers, NEW p \in Paths, Prepare(w, p) PROVE JobsInPhase'
    <2>1. pc' = pc /\ jobs'[w][p].status \in PhaseStatus(pc[w]) /\ OtherJobsKept(w, p)
      BY <1>15, PrepareJob DEF Prepare, PhaseStatus
    <2> QED
      BY <2>1, PhaseOfOneJob
  <1>16. ASSUME NEW w \in Workers, NEW p \in Paths, PreparePermanentFailure(w, p) PROVE JobsInPhase'
    <2>1. pc' = pc /\ jobs'[w][p].status \in PhaseStatus(pc[w]) /\ OtherJobsKept(w, p)
      BY <1>16, PreparePermanentFailureJob DEF PreparePermanentFailure, PhaseStatus
    <2> QED
      BY <2>1, PhaseOfOneJob
  <1>17. ASSUME NEW w \in Workers, NEW p \in Paths, PrepareFails(w, p) PROVE JobsInPhase'
    <2>1. pc' = pc /\ jobs'[w][p].status \in PhaseStatus(pc[w]) /\ OtherJobsKept(w, p)
      BY <1>17, PrepareFailsJob DEF PrepareFails, PhaseStatus
    <2> QED
      BY <2>1, PhaseOfOneJob
  <1>18. ASSUME NEW w \in Workers, NothingPrepared(w) PROVE JobsInPhase'
    BY <1>18 DEF NothingPrepared, AllPrepared, With
  <1>19. ASSUME NEW w \in Workers, OpenResources(w) PROVE JobsInPhase'
    BY <1>19 DEF OpenResources
  <1>20. ASSUME NEW w \in Workers, OpenResourcesFails(w) PROVE JobsInPhase'
    BY <1>20 DEF OpenResourcesFails, AllPrepared, With, NoJob
  <1>21. ASSUME NEW w \in Workers, BeginStore(w) PROVE JobsInPhase'
    BY <1>21 DEF BeginStore, AllPrepared, With
  <1>22. ASSUME NEW w \in Workers, NEW p \in Paths, StoreRaw(w, p) PROVE JobsInPhase'
    <2>1. pc' = pc /\ jobs'[w][p].status \in PhaseStatus(pc[w]) /\ OtherJobsKept(w, p)
      BY <1>22, StoreRawJob DEF StoreRaw, PhaseStatus
    <2> QED
      BY <2>1, PhaseOfOneJob
  <1>23. ASSUME NEW w \in Workers, NEW p \in Paths, StoreVector(w, p) PROVE JobsInPhase'
    <2>1. pc' = pc /\ jobs'[w][p].status \in PhaseStatus(pc[w]) /\ OtherJobsKept(w, p)
      BY <1>23, StoreVectorJob DEF StoreVector, PhaseStatus
    <2> QED
      BY <2>1, PhaseOfOneJob
  <1>24. ASSUME NEW w \in Workers, NEW p \in Paths, StoreFails(w, p) PROVE JobsInPhase'
    <2>1. pc' = pc /\ jobs'[w][p].status \in PhaseStatus(pc[w]) /\ OtherJobsKept(w, p)
      BY <1>24, StoreFailsJob DEF StoreFails, PhaseStatus
    <2> QED
      BY <2>1, PhaseOfOneJob
  <1>25. ASSUME NEW w \in Workers, Rebuild(w) PROVE JobsInPhase'
    BY <1>25 DEF Rebuild, EndStore, AllStored, With
  <1>26. ASSUME NEW w \in Workers, RebuildFails(w) PROVE JobsInPhase'
    BY <1>26 DEF RebuildFails, EndStore, AllStored, With
  <1>27. ASSUME NEW w \in Workers, NothingStored(w) PROVE JobsInPhase'
    BY <1>27 DEF NothingStored, EndStore, AllStored, With
  <1>28. ASSUME NEW w \in Workers, NEW p \in Paths, Acknowledge(w, p) PROVE JobsInPhase'
    <2>1. pc' = pc /\ jobs'[w][p].status \in PhaseStatus(pc[w]) /\ OtherJobsKept(w, p)
      BY <1>28, AcknowledgeJob DEF Acknowledge, PhaseStatus
    <2> QED
      BY <2>1, PhaseOfOneJob
  <1>29. ASSUME NEW w \in Workers, NEW p \in Paths, ReadAttempts(w, p) PROVE JobsInPhase'
    <2>1. pc' = pc /\ jobs'[w][p].status \in PhaseStatus(pc[w]) /\ OtherJobsKept(w, p)
      BY <1>29, ReadAttemptsJob DEF ReadAttempts, PhaseStatus
    <2> QED
      BY <2>1, PhaseOfOneJob
  <1>30. ASSUME NEW w \in Workers, NEW p \in Paths, Reschedule(w, p) PROVE JobsInPhase'
    <2>1. pc' = pc /\ jobs'[w][p].status \in PhaseStatus(pc[w]) /\ OtherJobsKept(w, p)
      BY <1>30, RescheduleJob DEF Reschedule, PhaseStatus
    <2> QED
      BY <2>1, PhaseOfOneJob
  <1>31. ASSUME NEW w \in Workers, EndCycle(w) PROVE JobsInPhase'
    BY <1>31 DEF EndCycle, NoJobs, NoJob
  <1>32. ASSUME NEW w \in Workers, OnceExit(w) PROVE JobsInPhase'
    BY <1>32 DEF OnceExit, Exit
  <1>33. ASSUME NEW w \in Workers, Sleep(w) PROVE JobsInPhase'
    BY <1>33 DEF Sleep
  <1>34. ASSUME NEW w \in Workers, BeginFinalCheck(w) PROVE JobsInPhase'
    BY <1>34 DEF BeginFinalCheck
  <1>35. ASSUME NEW w \in Workers, FinalCheckFindsWork(w) PROVE JobsInPhase'
    BY <1>35 DEF FinalCheckFindsWork
  <1>36. ASSUME NEW w \in Workers, FinalCheckFindsNone(w) PROVE JobsInPhase'
    BY <1>36 DEF FinalCheckFindsNone
  <1>37. ASSUME NEW w \in Workers, ReleaseWorkerLock(w) PROVE JobsInPhase'
    BY <1>37 DEF ReleaseWorkerLock
  <1>38. ASSUME NEW w \in Workers, Leave(w) PROVE JobsInPhase'
    BY <1>38 DEF Leave, Exit
  <1>39. ASSUME NEW w \in Workers, WorkerDies(w) PROVE JobsInPhase'
    BY <1>39 DEF WorkerDies, Exit, NoJobs, NoJob
  <1>40. CASE UNCHANGED vars
    BY <1>40 DEF vars
  <1> QED
    BY <1>1, <1>2, <1>3, <1>4, <1>5, <1>6, <1>7, <1>8, <1>9, <1>10, <1>11, <1>12, <1>13, <1>14, <1>15, <1>16, <1>17, <1>18, <1>19, <1>20, <1>21, <1>22, <1>23, <1>24, <1>25, <1>26, <1>27, <1>28, <1>29, <1>30, <1>31, <1>32, <1>33, <1>34, <1>35, <1>36, <1>37, <1>38, <1>39, <1>40
    DEF Next, TimePasses, HookStep, WorkerStep, BatchStep, LifeStep, JobStep

-----------------------------------------------------------------------------
(* Jobs and their rows.                                                    *)

JobsBacked ==
    \A w \in Workers : \A p \in Paths :
        jobs[w][p].status # "none" =>
            /\ Present(queue, p)
            /\ jobs[w][p].revision <= queue[p].revision
            /\ jobs[w][p].revision = queue[p].revision => Pending(queue, p)

LEMMA JobsBackedStep ==
    TypeOK /\ JobsInPhase /\ JobsAreLive /\ [Next]_vars => JobsBacked'
  <1> SUFFICES ASSUME TypeOK, JobsInPhase, JobsAreLive, JobsBacked, [Next]_vars
               PROVE  JobsBacked'
    BY DEF JobsAreLive, JobsBacked
  <1>0. /\ queue \in [Paths -> Row]
        /\ jobs \in [Workers -> [Paths -> Job]]
    BY DEF TypeOK
  <1> USE <1>0
  <1> USE DEF JobsBacked, Present, Pending, transcriptVars, queueVars, storeVars,
              workerVars, lockVars, historyVars
  <1>1. ASSUME NEW p \in Paths, SessionWrites(p) PROVE JobsBacked'
    BY <1>1 DEF SessionWrites
  <1>2. ASSUME NEW p \in Paths, DebouncePasses(p) PROVE JobsBacked'
    <2>1. jobs' = jobs
      BY <1>2 DEF DebouncePasses
    <2>2. /\ queue'[p].state = queue[p].state /\ queue'[p].revision = queue[p].revision
          /\ \A q \in Paths \ {p} : queue'[q] = queue[q]
      BY <1>2 DEF DebouncePasses, DebounceElapsed, BackoffElapsed, Row
    <2> QED
      BY <2>1, <2>2
  <1>3. ASSUME NEW p \in Paths, BackoffPasses(p) PROVE JobsBacked'
    <2>1. jobs' = jobs
      BY <1>3 DEF BackoffPasses
    <2>2. /\ queue'[p].state = queue[p].state /\ queue'[p].revision = queue[p].revision
          /\ \A q \in Paths \ {p} : queue'[q] = queue[q]
      BY <1>3 DEF BackoffPasses, DebounceElapsed, BackoffElapsed, Row
    <2> QED
      BY <2>1, <2>2
  <1>4. ASSUME NEW h \in Hooks, NEW p \in Paths, Enqueue(h, p) PROVE JobsBacked'
    <2>1. jobs' = jobs
      BY <1>4 DEF Enqueue
    <2>2. /\ queue'[p].state = "pending" /\ queue'[p].revision = queue[p].revision + 1
          /\ \A q \in Paths \ {p} : queue'[q] = queue[q]
      BY <1>4 DEF Enqueue, Upsert
    <2>3. \A v \in Workers : jobs[v][p].revision \in Nat /\ queue[p].revision \in Nat
      BY TypedAt
    <2> QED
      BY <2>1, <2>2, <2>3
  <1>5. ASSUME NEW h \in Hooks, ProbeFindsOwner(h) PROVE JobsBacked'
    BY <1>5 DEF ProbeFindsOwner
  <1>6. ASSUME NEW h \in Hooks, ProbeTakesLock(h) PROVE JobsBacked'
    BY <1>6 DEF ProbeTakesLock
  <1>7. ASSUME NEW h \in Hooks, ProbeReleases(h) PROVE JobsBacked'
    BY <1>7 DEF ProbeReleases
  <1>8. ASSUME NEW h \in Hooks, NEW w \in Workers, Spawn(h, w) PROVE JobsBacked'
    BY <1>8 DEF Spawn
  <1>9. ASSUME NEW h \in Hooks, HookDies(h) PROVE JobsBacked'
    BY <1>9 DEF HookDies
  <1>10. ASSUME NEW w \in Workers, Launch(w) PROVE JobsBacked'
    BY <1>10 DEF Launch
  <1>11. ASSUME NEW w \in Workers, StartAlone(w) PROVE JobsBacked'
    BY <1>11 DEF StartAlone
  <1>12. ASSUME NEW w \in Workers, AlreadyRunning(w) PROVE JobsBacked'
    BY <1>12 DEF AlreadyRunning
  <1>13. ASSUME NEW w \in Workers, FetchJobs(w) PROVE JobsBacked'
    <2>1. queue' = queue
      BY <1>13 DEF FetchJobs
    <2> QED
      BY <1>13, <2>1, FetchJobsJobs, TypedAt
  <1>14. ASSUME NEW w \in Workers, FetchNothing(w) PROVE JobsBacked'
    BY <1>14 DEF FetchNothing
  <1>15. ASSUME NEW w \in Workers, NEW p \in Paths, Prepare(w, p) PROVE JobsBacked'
    <2>1. queue' = queue /\ jobs[w][p].status # "none"
      BY <1>15 DEF Prepare
    <2> QED
      BY <1>15, <2>1, PrepareJob DEF OtherJobsKept
  <1>16. ASSUME NEW w \in Workers, NEW p \in Paths, PreparePermanentFailure(w, p) PROVE JobsBacked'
    <2>1. jobs'[w][p].status = "none" /\ OtherJobsKept(w, p)
      BY <1>16, PreparePermanentFailureJob
    <2>2. \A v \in Workers \ {w} : jobs[v][p].status = "none"
      BY <1>16 DEF PreparePermanentFailure, JobsAreLive
    <2>3. \A q \in Paths \ {p} : queue'[q] = queue[q]
      BY <1>16 DEF PreparePermanentFailure, UpdatePermanent
    <2> QED
      BY <2>1, <2>2, <2>3 DEF OtherJobsKept, JobsAreLive
  <1>17. ASSUME NEW w \in Workers, NEW p \in Paths, PrepareFails(w, p) PROVE JobsBacked'
    <2>1. queue' = queue /\ jobs[w][p].status # "none"
      BY <1>17 DEF PrepareFails
    <2> QED
      BY <1>17, <2>1, PrepareFailsJob DEF OtherJobsKept
  <1>18. ASSUME NEW w \in Workers, NothingPrepared(w) PROVE JobsBacked'
    BY <1>18 DEF NothingPrepared
  <1>19. ASSUME NEW w \in Workers, OpenResources(w) PROVE JobsBacked'
    BY <1>19 DEF OpenResources
  <1>20. ASSUME NEW w \in Workers, OpenResourcesFails(w) PROVE JobsBacked'
    <2>1. queue' = queue
      BY <1>20 DEF OpenResourcesFails
    <2>2. \A v \in Workers : \A q \in Paths :
             jobs'[v][q].status = "none" \/ jobs'[v][q] = jobs[v][q]
      BY <1>20, <1>0 DEF OpenResourcesFails, NoJob
    <2> QED
      BY <2>1, <2>2
  <1>21. ASSUME NEW w \in Workers, BeginStore(w) PROVE JobsBacked'
    BY <1>21 DEF BeginStore
  <1>22. ASSUME NEW w \in Workers, NEW p \in Paths, StoreRaw(w, p) PROVE JobsBacked'
    <2>1. queue' = queue /\ jobs[w][p].status # "none"
      BY <1>22 DEF StoreRaw
    <2> QED
      BY <1>22, <2>1, StoreRawJob DEF OtherJobsKept
  <1>23. ASSUME NEW w \in Workers, NEW p \in Paths, StoreVector(w, p) PROVE JobsBacked'
    <2>1. queue' = queue /\ jobs[w][p].status # "none"
      BY <1>23 DEF StoreVector
    <2> QED
      BY <1>23, <2>1, StoreVectorJob DEF OtherJobsKept
  <1>24. ASSUME NEW w \in Workers, NEW p \in Paths, StoreFails(w, p) PROVE JobsBacked'
    <2>1. queue' = queue /\ jobs[w][p].status # "none"
      BY <1>24 DEF StoreFails
    <2> QED
      BY <1>24, <2>1, StoreFailsJob DEF OtherJobsKept
  <1>25. ASSUME NEW w \in Workers, Rebuild(w) PROVE JobsBacked'
    BY <1>25 DEF Rebuild, EndStore
  <1>26. ASSUME NEW w \in Workers, RebuildFails(w) PROVE JobsBacked'
    <2>1. queue' = queue
      BY <1>26 DEF RebuildFails, EndStore
    <2>2. \A q \in Paths : /\ jobs'[w][q].status = "none" <=> jobs[w][q].status = "none"
                           /\ jobs'[w][q].revision = jobs[w][q].revision
      BY <1>26, TypedAt DEF RebuildFails, Job
    <2>3. \A v \in Workers \ {w} : jobs'[v] = jobs[v]
      BY <1>26 DEF RebuildFails
    <2> QED
      BY <2>1, <2>2, <2>3
  <1>27. ASSUME NEW w \in Workers, NothingStored(w) PROVE JobsBacked'
    BY <1>27 DEF NothingStored, EndStore
  <1>28. ASSUME NEW w \in Workers, NEW p \in Paths, Acknowledge(w, p) PROVE JobsBacked'
    <2>1. jobs'[w][p].status = "none" /\ OtherJobsKept(w, p)
      BY <1>28, AcknowledgeJob
    <2>2. \A v \in Workers \ {w} : jobs[v][p].status = "none"
      BY <1>28 DEF Acknowledge, JobsAreLive
    <2>3. \A q \in Paths \ {p} : queue'[q] = queue[q]
      BY <1>28 DEF Acknowledge, Delete
    <2> QED
      BY <2>1, <2>2, <2>3 DEF OtherJobsKept, JobsAreLive
  <1>29. ASSUME NEW w \in Workers, NEW p \in Paths, ReadAttempts(w, p) PROVE JobsBacked'
    <2>1. queue' = queue /\ jobs[w][p].status # "none"
      BY <1>29 DEF ReadAttempts
    <2> QED
      BY <1>29, <2>1, ReadAttemptsJob DEF OtherJobsKept
  <1>30. ASSUME NEW w \in Workers, NEW p \in Paths, Reschedule(w, p) PROVE JobsBacked'
    <2>1. jobs'[w][p].status = "none" /\ OtherJobsKept(w, p)
      BY <1>30, RescheduleJob
    <2>2. \A v \in Workers \ {w} : jobs[v][p].status = "none"
      BY <1>30 DEF Reschedule, JobsAreLive
    <2>3. \A q \in Paths \ {p} : queue'[q] = queue[q]
      BY <1>30 DEF Reschedule, UpdateTransient
    <2> QED
      BY <2>1, <2>2, <2>3 DEF OtherJobsKept, JobsAreLive
  <1>31. ASSUME NEW w \in Workers, EndCycle(w) PROVE JobsBacked'
    BY <1>31 DEF EndCycle
  <1>32. ASSUME NEW w \in Workers, OnceExit(w) PROVE JobsBacked'
    BY <1>32 DEF OnceExit, Exit
  <1>33. ASSUME NEW w \in Workers, Sleep(w) PROVE JobsBacked'
    BY <1>33 DEF Sleep
  <1>34. ASSUME NEW w \in Workers, BeginFinalCheck(w) PROVE JobsBacked'
    BY <1>34 DEF BeginFinalCheck
  <1>35. ASSUME NEW w \in Workers, FinalCheckFindsWork(w) PROVE JobsBacked'
    BY <1>35 DEF FinalCheckFindsWork
  <1>36. ASSUME NEW w \in Workers, FinalCheckFindsNone(w) PROVE JobsBacked'
    BY <1>36 DEF FinalCheckFindsNone
  <1>37. ASSUME NEW w \in Workers, ReleaseWorkerLock(w) PROVE JobsBacked'
    BY <1>37 DEF ReleaseWorkerLock
  <1>38. ASSUME NEW w \in Workers, Leave(w) PROVE JobsBacked'
    BY <1>38 DEF Leave, Exit
  <1>39. ASSUME NEW w \in Workers, WorkerDies(w) PROVE JobsBacked'
    BY <1>39 DEF WorkerDies, Exit, NoJobs, NoJob
  <1>40. CASE UNCHANGED vars
    BY <1>40 DEF vars
  <1> QED
    BY <1>1, <1>2, <1>3, <1>4, <1>5, <1>6, <1>7, <1>8, <1>9, <1>10, <1>11, <1>12, <1>13, <1>14, <1>15, <1>16, <1>17, <1>18, <1>19, <1>20, <1>21, <1>22, <1>23, <1>24, <1>25, <1>26, <1>27, <1>28, <1>29, <1>30, <1>31, <1>32, <1>33, <1>34, <1>35, <1>36, <1>37, <1>38, <1>39, <1>40
    DEF Next, TimePasses, HookStep, WorkerStep, BatchStep, LifeStep, JobStep

LEMMA JobsAreLiveStep ==
    TypeOK /\ LocksHeld /\ JobsInPhase /\ JobsAreLive /\ [Next]_vars => JobsAreLive'
  <1> SUFFICES ASSUME TypeOK, LocksHeld, JobsInPhase, JobsAreLive, [Next]_vars
               PROVE  JobsAreLive'
    OBVIOUS
  <1>1. JobsBacked'
    BY JobsBackedStep
  <1>2. TypeOK' /\ LocksHeld' /\ JobsInPhase'
    BY TypeOKStep, LocksHeldStep, JobsInPhaseStep
  <1>3. ASSUME NEW w \in Workers, NEW v \in Workers \ {w}, NEW p \in Paths,
               jobs'[w][p].status # "none"
        PROVE  jobs'[v][p].status = "none"
    <2>1. pc'[w] \in Running
      BY <1>2, <1>3 DEF JobsInPhase, PhaseStatus, Running
    <2>2. pc'[v] \notin Running
      BY <1>2, <2>1 DEF LocksHeld
    <2> QED
      BY <1>2, <2>2 DEF JobsInPhase, PhaseStatus, Running
  <1> QED
    BY <1>1, <1>3 DEF JobsBacked, JobsAreLive

-----------------------------------------------------------------------------
(* Nobody is left waiting.                                                 *)

LEMMA EmptyStaysEmptyStep ==
    TypeOK /\ LocksHeld /\ EmptyStaysEmpty /\ [Next]_vars => EmptyStaysEmpty'
  <1> SUFFICES ASSUME TypeOK, LocksHeld, EmptyStaysEmpty, [Next]_vars
               PROVE  EmptyStaysEmpty'
    OBVIOUS
  <1>0. /\ pc \in [Workers -> WorkerPc]
        /\ queue \in [Paths -> Row]
        /\ dbLock = Nobody => \A w \in Workers : pc[w] # "empty"
    BY ProcessAssumption DEF TypeOK, LocksHeld
  <1> USE <1>0
  <1> USE DEF EmptyStaysEmpty, HasPending, Pending, transcriptVars, queueVars,
              storeVars, workerVars, lockVars, historyVars
  <1>1. ASSUME NEW p \in Paths, SessionWrites(p) PROVE EmptyStaysEmpty'
    BY <1>1 DEF SessionWrites
  <1>2. ASSUME NEW p \in Paths, DebouncePasses(p) PROVE EmptyStaysEmpty'
    BY <1>2 DEF DebouncePasses, DebounceElapsed
  <1>3. ASSUME NEW p \in Paths, BackoffPasses(p) PROVE EmptyStaysEmpty'
    BY <1>3 DEF BackoffPasses, BackoffElapsed
  <1>4. ASSUME NEW h \in Hooks, NEW p \in Paths, Enqueue(h, p) PROVE EmptyStaysEmpty'
    BY <1>4 DEF Enqueue
  <1>5. ASSUME NEW h \in Hooks, ProbeFindsOwner(h) PROVE EmptyStaysEmpty'
    BY <1>5 DEF ProbeFindsOwner
  <1>6. ASSUME NEW h \in Hooks, ProbeTakesLock(h) PROVE EmptyStaysEmpty'
    BY <1>6 DEF ProbeTakesLock
  <1>7. ASSUME NEW h \in Hooks, ProbeReleases(h) PROVE EmptyStaysEmpty'
    BY <1>7 DEF ProbeReleases
  <1>8. ASSUME NEW h \in Hooks, NEW w \in Workers, Spawn(h, w) PROVE EmptyStaysEmpty'
    BY <1>8 DEF Spawn
  <1>9. ASSUME NEW h \in Hooks, HookDies(h) PROVE EmptyStaysEmpty'
    BY <1>9 DEF HookDies
  <1>10. ASSUME NEW w \in Workers, Launch(w) PROVE EmptyStaysEmpty'
    BY <1>10 DEF Launch
  <1>11. ASSUME NEW w \in Workers, StartAlone(w) PROVE EmptyStaysEmpty'
    BY <1>11 DEF StartAlone
  <1>12. ASSUME NEW w \in Workers, AlreadyRunning(w) PROVE EmptyStaysEmpty'
    BY <1>12 DEF AlreadyRunning
  <1>13. ASSUME NEW w \in Workers, FetchJobs(w) PROVE EmptyStaysEmpty'
    BY <1>13 DEF FetchJobs
  <1>14. ASSUME NEW w \in Workers, FetchNothing(w) PROVE EmptyStaysEmpty'
    BY <1>14 DEF FetchNothing
  <1>15. ASSUME NEW w \in Workers, NEW p \in Paths, Prepare(w, p) PROVE EmptyStaysEmpty'
    BY <1>15 DEF Prepare
  <1>16. ASSUME NEW w \in Workers, NEW p \in Paths, PreparePermanentFailure(w, p) PROVE EmptyStaysEmpty'
    BY <1>16 DEF PreparePermanentFailure
  <1>17. ASSUME NEW w \in Workers, NEW p \in Paths, PrepareFails(w, p) PROVE EmptyStaysEmpty'
    BY <1>17 DEF PrepareFails
  <1>18. ASSUME NEW w \in Workers, NothingPrepared(w) PROVE EmptyStaysEmpty'
    BY <1>18 DEF NothingPrepared, AllPrepared
  <1>19. ASSUME NEW w \in Workers, OpenResources(w) PROVE EmptyStaysEmpty'
    BY <1>19 DEF OpenResources
  <1>20. ASSUME NEW w \in Workers, OpenResourcesFails(w) PROVE EmptyStaysEmpty'
    BY <1>20 DEF OpenResourcesFails, AllPrepared
  <1>21. ASSUME NEW w \in Workers, BeginStore(w) PROVE EmptyStaysEmpty'
    BY <1>21 DEF BeginStore, AllPrepared
  <1>22. ASSUME NEW w \in Workers, NEW p \in Paths, StoreRaw(w, p) PROVE EmptyStaysEmpty'
    BY <1>22 DEF StoreRaw
  <1>23. ASSUME NEW w \in Workers, NEW p \in Paths, StoreVector(w, p) PROVE EmptyStaysEmpty'
    BY <1>23 DEF StoreVector
  <1>24. ASSUME NEW w \in Workers, NEW p \in Paths, StoreFails(w, p) PROVE EmptyStaysEmpty'
    BY <1>24 DEF StoreFails
  <1>25. ASSUME NEW w \in Workers, Rebuild(w) PROVE EmptyStaysEmpty'
    BY <1>25 DEF Rebuild, EndStore
  <1>26. ASSUME NEW w \in Workers, RebuildFails(w) PROVE EmptyStaysEmpty'
    BY <1>26 DEF RebuildFails, EndStore
  <1>27. ASSUME NEW w \in Workers, NothingStored(w) PROVE EmptyStaysEmpty'
    BY <1>27 DEF NothingStored, EndStore
  <1>28. ASSUME NEW w \in Workers, NEW p \in Paths, Acknowledge(w, p) PROVE EmptyStaysEmpty'
    BY <1>28 DEF Acknowledge
  <1>29. ASSUME NEW w \in Workers, NEW p \in Paths, ReadAttempts(w, p) PROVE EmptyStaysEmpty'
    BY <1>29 DEF ReadAttempts
  <1>30. ASSUME NEW w \in Workers, NEW p \in Paths, Reschedule(w, p) PROVE EmptyStaysEmpty'
    BY <1>30 DEF Reschedule
  <1>31. ASSUME NEW w \in Workers, EndCycle(w) PROVE EmptyStaysEmpty'
    BY <1>31 DEF EndCycle
  <1>32. ASSUME NEW w \in Workers, OnceExit(w) PROVE EmptyStaysEmpty'
    BY <1>32 DEF OnceExit, Exit
  <1>33. ASSUME NEW w \in Workers, Sleep(w) PROVE EmptyStaysEmpty'
    BY <1>33 DEF Sleep
  <1>34. ASSUME NEW w \in Workers, BeginFinalCheck(w) PROVE EmptyStaysEmpty'
    BY <1>34 DEF BeginFinalCheck
  <1>35. ASSUME NEW w \in Workers, FinalCheckFindsWork(w) PROVE EmptyStaysEmpty'
    BY <1>35 DEF FinalCheckFindsWork
  <1>36. ASSUME NEW w \in Workers, FinalCheckFindsNone(w) PROVE EmptyStaysEmpty'
    BY <1>36 DEF FinalCheckFindsNone
  <1>37. ASSUME NEW w \in Workers, ReleaseWorkerLock(w) PROVE EmptyStaysEmpty'
    BY <1>37 DEF ReleaseWorkerLock
  <1>38. ASSUME NEW w \in Workers, Leave(w) PROVE EmptyStaysEmpty'
    BY <1>38 DEF Leave, Exit
  <1>39. ASSUME NEW w \in Workers, WorkerDies(w) PROVE EmptyStaysEmpty'
    BY <1>39 DEF WorkerDies, Exit
  <1>40. CASE UNCHANGED vars
    BY <1>40 DEF vars
  <1> QED
    BY <1>1, <1>2, <1>3, <1>4, <1>5, <1>6, <1>7, <1>8, <1>9, <1>10, <1>11, <1>12, <1>13, <1>14, <1>15, <1>16, <1>17, <1>18, <1>19, <1>20, <1>21, <1>22, <1>23, <1>24, <1>25, <1>26, <1>27, <1>28, <1>29, <1>30, <1>31, <1>32, <1>33, <1>34, <1>35, <1>36, <1>37, <1>38, <1>39, <1>40
    DEF Next, TimePasses, HookStep, WorkerStep, BatchStep, LifeStep, JobStep

(* The owner of the worker lock answers for the pending rows.              *)
LEMMA OwnerResponsible ==
  ASSUME TypeOK, LocksHeld, workerLock # Nobody
  PROVE  \/ \E h \in Hooks : hookPc[h] = "probing"
         \/ \E w \in Workers : pc[w] \in Running
  BY DEF TypeOK, LocksHeld

LEMMA NoStrandedJobStep ==
    TypeOK /\ LocksHeld /\ EmptyStaysEmpty /\ NoStrandedJob /\ [Next]_vars
        => NoStrandedJob'
  <1> SUFFICES ASSUME TypeOK, LocksHeld, EmptyStaysEmpty, NoStrandedJob, [Next]_vars
               PROVE  NoStrandedJob'
    OBVIOUS
  <1>0. /\ pc \in [Workers -> WorkerPc]
        /\ hookPc \in [Hooks -> HookPc]
        /\ queue \in [Paths -> Row]
    BY DEF TypeOK
  <1> USE <1>0
  <1> USE DEF NoStrandedJob, Stranded, Responsible, Running, HasPending, Pending,
              transcriptVars, queueVars, storeVars, workerVars, lockVars, historyVars
  <1>1. ASSUME NEW p \in Paths, SessionWrites(p) PROVE NoStrandedJob'
    BY <1>1 DEF SessionWrites
  <1>2. ASSUME NEW p \in Paths, DebouncePasses(p) PROVE NoStrandedJob'
    BY <1>2 DEF DebouncePasses, DebounceElapsed
  <1>3. ASSUME NEW p \in Paths, BackoffPasses(p) PROVE NoStrandedJob'
    BY <1>3 DEF BackoffPasses, BackoffElapsed
  <1>4. ASSUME NEW h \in Hooks, NEW p \in Paths, Enqueue(h, p) PROVE NoStrandedJob'
    BY <1>4 DEF Enqueue
  <1>5. ASSUME NEW h \in Hooks, ProbeFindsOwner(h) PROVE NoStrandedJob'
    BY <1>5, OwnerResponsible DEF ProbeFindsOwner
  <1>6. ASSUME NEW h \in Hooks, ProbeTakesLock(h) PROVE NoStrandedJob'
    BY <1>6 DEF ProbeTakesLock
  <1>7. ASSUME NEW h \in Hooks, ProbeReleases(h) PROVE NoStrandedJob'
    BY <1>7 DEF ProbeReleases
  <1>8. ASSUME NEW h \in Hooks, NEW w \in Workers, Spawn(h, w) PROVE NoStrandedJob'
    BY <1>8 DEF Spawn
  <1>9. ASSUME NEW h \in Hooks, HookDies(h) PROVE NoStrandedJob'
    BY <1>9 DEF HookDies
  <1>10. ASSUME NEW w \in Workers, Launch(w) PROVE NoStrandedJob'
    BY <1>10 DEF Launch
  <1>11. ASSUME NEW w \in Workers, StartAlone(w) PROVE NoStrandedJob'
    BY <1>11 DEF StartAlone
  <1>12. ASSUME NEW w \in Workers, AlreadyRunning(w) PROVE NoStrandedJob'
    BY <1>12, OwnerResponsible DEF AlreadyRunning
  <1>13. ASSUME NEW w \in Workers, FetchJobs(w) PROVE NoStrandedJob'
    BY <1>13 DEF FetchJobs
  <1>14. ASSUME NEW w \in Workers, FetchNothing(w) PROVE NoStrandedJob'
    BY <1>14 DEF FetchNothing
  <1>15. ASSUME NEW w \in Workers, NEW p \in Paths, Prepare(w, p) PROVE NoStrandedJob'
    BY <1>15 DEF Prepare
  <1>16. ASSUME NEW w \in Workers, NEW p \in Paths, PreparePermanentFailure(w, p) PROVE NoStrandedJob'
    BY <1>16 DEF PreparePermanentFailure
  <1>17. ASSUME NEW w \in Workers, NEW p \in Paths, PrepareFails(w, p) PROVE NoStrandedJob'
    BY <1>17 DEF PrepareFails
  <1>18. ASSUME NEW w \in Workers, NothingPrepared(w) PROVE NoStrandedJob'
    BY <1>18 DEF NothingPrepared, AllPrepared
  <1>19. ASSUME NEW w \in Workers, OpenResources(w) PROVE NoStrandedJob'
    BY <1>19 DEF OpenResources
  <1>20. ASSUME NEW w \in Workers, OpenResourcesFails(w) PROVE NoStrandedJob'
    BY <1>20 DEF OpenResourcesFails, AllPrepared
  <1>21. ASSUME NEW w \in Workers, BeginStore(w) PROVE NoStrandedJob'
    BY <1>21 DEF BeginStore, AllPrepared
  <1>22. ASSUME NEW w \in Workers, NEW p \in Paths, StoreRaw(w, p) PROVE NoStrandedJob'
    BY <1>22 DEF StoreRaw
  <1>23. ASSUME NEW w \in Workers, NEW p \in Paths, StoreVector(w, p) PROVE NoStrandedJob'
    BY <1>23 DEF StoreVector
  <1>24. ASSUME NEW w \in Workers, NEW p \in Paths, StoreFails(w, p) PROVE NoStrandedJob'
    BY <1>24 DEF StoreFails
  <1>25. ASSUME NEW w \in Workers, Rebuild(w) PROVE NoStrandedJob'
    BY <1>25 DEF Rebuild, EndStore
  <1>26. ASSUME NEW w \in Workers, RebuildFails(w) PROVE NoStrandedJob'
    BY <1>26 DEF RebuildFails, EndStore
  <1>27. ASSUME NEW w \in Workers, NothingStored(w) PROVE NoStrandedJob'
    BY <1>27 DEF NothingStored, EndStore
  <1>28. ASSUME NEW w \in Workers, NEW p \in Paths, Acknowledge(w, p) PROVE NoStrandedJob'
    BY <1>28 DEF Acknowledge
  <1>29. ASSUME NEW w \in Workers, NEW p \in Paths, ReadAttempts(w, p) PROVE NoStrandedJob'
    BY <1>29 DEF ReadAttempts
  <1>30. ASSUME NEW w \in Workers, NEW p \in Paths, Reschedule(w, p) PROVE NoStrandedJob'
    BY <1>30 DEF Reschedule
  <1>31. ASSUME NEW w \in Workers, EndCycle(w) PROVE NoStrandedJob'
    BY <1>31 DEF EndCycle
  <1>32. ASSUME NEW w \in Workers, OnceExit(w) PROVE NoStrandedJob'
    BY <1>32 DEF OnceExit, Exit
  <1>33. ASSUME NEW w \in Workers, Sleep(w) PROVE NoStrandedJob'
    BY <1>33 DEF Sleep
  <1>34. ASSUME NEW w \in Workers, BeginFinalCheck(w) PROVE NoStrandedJob'
    BY <1>34 DEF BeginFinalCheck
  <1>35. ASSUME NEW w \in Workers, FinalCheckFindsWork(w) PROVE NoStrandedJob'
    BY <1>35 DEF FinalCheckFindsWork
  <1>36. ASSUME NEW w \in Workers, FinalCheckFindsNone(w) PROVE NoStrandedJob'
    BY <1>36 DEF FinalCheckFindsNone
  <1>37. ASSUME NEW w \in Workers, ReleaseWorkerLock(w) PROVE NoStrandedJob'
    BY <1>37 DEF ReleaseWorkerLock, EmptyStaysEmpty
  <1>38. ASSUME NEW w \in Workers, Leave(w) PROVE NoStrandedJob'
    BY <1>38 DEF Leave, Exit
  <1>39. ASSUME NEW w \in Workers, WorkerDies(w) PROVE NoStrandedJob'
    BY <1>39 DEF WorkerDies, Exit
  <1>40. CASE UNCHANGED vars
    BY <1>40 DEF vars
  <1> QED
    BY <1>1, <1>2, <1>3, <1>4, <1>5, <1>6, <1>7, <1>8, <1>9, <1>10, <1>11, <1>12, <1>13, <1>14, <1>15, <1>16, <1>17, <1>18, <1>19, <1>20, <1>21, <1>22, <1>23, <1>24, <1>25, <1>26, <1>27, <1>28, <1>29, <1>30, <1>31, <1>32, <1>33, <1>34, <1>35, <1>36, <1>37, <1>38, <1>39, <1>40
    DEF Next, TimePasses, HookStep, WorkerStep, BatchStep, LifeStep, JobStep

-----------------------------------------------------------------------------
(* Nothing acknowledged is missing from a store.                           *)

LEMMA GoalWrittenStep == TypeOK /\ GoalWritten /\ [Next]_vars => GoalWritten'
  <1> SUFFICES ASSUME TypeOK, GoalWritten, [Next]_vars PROVE GoalWritten'
    OBVIOUS
  <1>0. file \in [Paths -> Nat] /\ goal \in [Paths -> Nat]
    BY DEF TypeOK
  <1> USE <1>0
  <1> USE DEF GoalWritten, transcriptVars
  <1>1. ASSUME NEW p \in Paths, SessionWrites(p) PROVE GoalWritten'
    BY <1>1 DEF SessionWrites
  <1>2. ASSUME NEW p \in Paths, DebouncePasses(p) PROVE GoalWritten'
    BY <1>2 DEF DebouncePasses, DebounceElapsed
  <1>3. ASSUME NEW p \in Paths, BackoffPasses(p) PROVE GoalWritten'
    BY <1>3 DEF BackoffPasses, BackoffElapsed
  <1>4. ASSUME NEW h \in Hooks, NEW p \in Paths, Enqueue(h, p) PROVE GoalWritten'
    BY <1>4 DEF Enqueue
  <1>5. ASSUME NEW h \in Hooks, ProbeFindsOwner(h) PROVE GoalWritten'
    BY <1>5 DEF ProbeFindsOwner
  <1>6. ASSUME NEW h \in Hooks, ProbeTakesLock(h) PROVE GoalWritten'
    BY <1>6 DEF ProbeTakesLock
  <1>7. ASSUME NEW h \in Hooks, ProbeReleases(h) PROVE GoalWritten'
    BY <1>7 DEF ProbeReleases
  <1>8. ASSUME NEW h \in Hooks, NEW w \in Workers, Spawn(h, w) PROVE GoalWritten'
    BY <1>8 DEF Spawn
  <1>9. ASSUME NEW h \in Hooks, HookDies(h) PROVE GoalWritten'
    BY <1>9 DEF HookDies
  <1>10. ASSUME NEW w \in Workers, Launch(w) PROVE GoalWritten'
    BY <1>10 DEF Launch
  <1>11. ASSUME NEW w \in Workers, StartAlone(w) PROVE GoalWritten'
    BY <1>11 DEF StartAlone
  <1>12. ASSUME NEW w \in Workers, AlreadyRunning(w) PROVE GoalWritten'
    BY <1>12 DEF AlreadyRunning
  <1>13. ASSUME NEW w \in Workers, FetchJobs(w) PROVE GoalWritten'
    BY <1>13 DEF FetchJobs
  <1>14. ASSUME NEW w \in Workers, FetchNothing(w) PROVE GoalWritten'
    BY <1>14 DEF FetchNothing
  <1>15. ASSUME NEW w \in Workers, NEW p \in Paths, Prepare(w, p) PROVE GoalWritten'
    BY <1>15 DEF Prepare
  <1>16. ASSUME NEW w \in Workers, NEW p \in Paths, PreparePermanentFailure(w, p) PROVE GoalWritten'
    BY <1>16 DEF PreparePermanentFailure
  <1>17. ASSUME NEW w \in Workers, NEW p \in Paths, PrepareFails(w, p) PROVE GoalWritten'
    BY <1>17 DEF PrepareFails
  <1>18. ASSUME NEW w \in Workers, NothingPrepared(w) PROVE GoalWritten'
    BY <1>18 DEF NothingPrepared, AllPrepared
  <1>19. ASSUME NEW w \in Workers, OpenResources(w) PROVE GoalWritten'
    BY <1>19 DEF OpenResources
  <1>20. ASSUME NEW w \in Workers, OpenResourcesFails(w) PROVE GoalWritten'
    BY <1>20 DEF OpenResourcesFails, AllPrepared
  <1>21. ASSUME NEW w \in Workers, BeginStore(w) PROVE GoalWritten'
    BY <1>21 DEF BeginStore, AllPrepared
  <1>22. ASSUME NEW w \in Workers, NEW p \in Paths, StoreRaw(w, p) PROVE GoalWritten'
    BY <1>22 DEF StoreRaw
  <1>23. ASSUME NEW w \in Workers, NEW p \in Paths, StoreVector(w, p) PROVE GoalWritten'
    BY <1>23 DEF StoreVector
  <1>24. ASSUME NEW w \in Workers, NEW p \in Paths, StoreFails(w, p) PROVE GoalWritten'
    BY <1>24 DEF StoreFails
  <1>25. ASSUME NEW w \in Workers, Rebuild(w) PROVE GoalWritten'
    BY <1>25 DEF Rebuild, EndStore
  <1>26. ASSUME NEW w \in Workers, RebuildFails(w) PROVE GoalWritten'
    BY <1>26 DEF RebuildFails, EndStore
  <1>27. ASSUME NEW w \in Workers, NothingStored(w) PROVE GoalWritten'
    BY <1>27 DEF NothingStored, EndStore
  <1>28. ASSUME NEW w \in Workers, NEW p \in Paths, Acknowledge(w, p) PROVE GoalWritten'
    BY <1>28 DEF Acknowledge
  <1>29. ASSUME NEW w \in Workers, NEW p \in Paths, ReadAttempts(w, p) PROVE GoalWritten'
    BY <1>29 DEF ReadAttempts
  <1>30. ASSUME NEW w \in Workers, NEW p \in Paths, Reschedule(w, p) PROVE GoalWritten'
    BY <1>30 DEF Reschedule
  <1>31. ASSUME NEW w \in Workers, EndCycle(w) PROVE GoalWritten'
    BY <1>31 DEF EndCycle
  <1>32. ASSUME NEW w \in Workers, OnceExit(w) PROVE GoalWritten'
    BY <1>32 DEF OnceExit, Exit
  <1>33. ASSUME NEW w \in Workers, Sleep(w) PROVE GoalWritten'
    BY <1>33 DEF Sleep
  <1>34. ASSUME NEW w \in Workers, BeginFinalCheck(w) PROVE GoalWritten'
    BY <1>34 DEF BeginFinalCheck
  <1>35. ASSUME NEW w \in Workers, FinalCheckFindsWork(w) PROVE GoalWritten'
    BY <1>35 DEF FinalCheckFindsWork
  <1>36. ASSUME NEW w \in Workers, FinalCheckFindsNone(w) PROVE GoalWritten'
    BY <1>36 DEF FinalCheckFindsNone
  <1>37. ASSUME NEW w \in Workers, ReleaseWorkerLock(w) PROVE GoalWritten'
    BY <1>37 DEF ReleaseWorkerLock
  <1>38. ASSUME NEW w \in Workers, Leave(w) PROVE GoalWritten'
    BY <1>38 DEF Leave, Exit
  <1>39. ASSUME NEW w \in Workers, WorkerDies(w) PROVE GoalWritten'
    BY <1>39 DEF WorkerDies, Exit
  <1>40. CASE UNCHANGED vars
    BY <1>40 DEF vars, transcriptVars
  <1> QED
    BY <1>1, <1>2, <1>3, <1>4, <1>5, <1>6, <1>7, <1>8, <1>9, <1>10, <1>11, <1>12, <1>13, <1>14, <1>15, <1>16, <1>17, <1>18, <1>19, <1>20, <1>21, <1>22, <1>23, <1>24, <1>25, <1>26, <1>27, <1>28, <1>29, <1>30, <1>31, <1>32, <1>33, <1>34, <1>35, <1>36, <1>37, <1>38, <1>39, <1>40
    DEF Next, TimePasses, HookStep, WorkerStep, BatchStep, LifeStep, JobStep

LEMMA JobContentStep ==
    /\ TypeOK /\ LocksHeld /\ JobsInPhase /\ JobsAreLive /\ GoalWritten /\ JobContent
    /\ [Next]_vars
    => JobContent'
  <1> SUFFICES ASSUME TypeOK, LocksHeld, JobsInPhase, JobsAreLive, GoalWritten,
                      JobContent, [Next]_vars
               PROVE  JobContent'
    OBVIOUS
  <1>0. /\ goal \in [Paths -> Nat] /\ raw \in [Paths -> Nat]
        /\ vector \in [Paths -> Nat] /\ bm25 \in [Paths -> Nat]
        /\ queue \in [Paths -> Row]
        /\ jobs \in [Workers -> [Paths -> Job]]
        /\ pc \in [Workers -> WorkerPc]
    BY DEF TypeOK
  <1> USE <1>0
  <1> USE DEF JobContent, transcriptVars, queueVars, storeVars, workerVars,
              lockVars, historyVars
  <1>1. ASSUME NEW p \in Paths, SessionWrites(p) PROVE JobContent'
    BY <1>1 DEF SessionWrites
  <1>2. ASSUME NEW p \in Paths, DebouncePasses(p) PROVE JobContent'
    <2>1. /\ UNCHANGED <<goal, raw, vector, bm25, pc, jobs>>
          /\ \A q \in Paths : queue'[q].revision = queue[q].revision
      BY <1>2, <1>0 DEF DebouncePasses, DebounceElapsed, BackoffElapsed, Row
    <2> QED
      BY <2>1
  <1>3. ASSUME NEW p \in Paths, BackoffPasses(p) PROVE JobContent'
    <2>1. /\ UNCHANGED <<goal, raw, vector, bm25, pc, jobs>>
          /\ \A q \in Paths : queue'[q].revision = queue[q].revision
      BY <1>3, <1>0 DEF BackoffPasses, DebounceElapsed, BackoffElapsed, Row
    <2> QED
      BY <2>1
  <1>4. ASSUME NEW h \in Hooks, NEW p \in Paths, Enqueue(h, p) PROVE JobContent'
    <2>1. /\ UNCHANGED <<raw, vector, bm25, pc, jobs>>
          /\ queue'[p].revision = queue[p].revision + 1
          /\ \A q \in Paths \ {p} : queue'[q] = queue[q] /\ goal'[q] = goal[q]
      BY <1>4 DEF Enqueue, Upsert
    <2>2. \A v \in Workers : jobs[v][p].status # "none" =>
             jobs[v][p].revision # queue'[p].revision
      BY <2>1, TypedAt DEF JobsAreLive
    <2> QED
      BY <2>1, <2>2
  <1>5. ASSUME NEW h \in Hooks, ProbeFindsOwner(h) PROVE JobContent'
    BY <1>5 DEF ProbeFindsOwner
  <1>6. ASSUME NEW h \in Hooks, ProbeTakesLock(h) PROVE JobContent'
    BY <1>6 DEF ProbeTakesLock
  <1>7. ASSUME NEW h \in Hooks, ProbeReleases(h) PROVE JobContent'
    BY <1>7 DEF ProbeReleases
  <1>8. ASSUME NEW h \in Hooks, NEW w \in Workers, Spawn(h, w) PROVE JobContent'
    BY <1>8 DEF Spawn
  <1>9. ASSUME NEW h \in Hooks, HookDies(h) PROVE JobContent'
    BY <1>9 DEF HookDies
  <1>10. ASSUME NEW w \in Workers, Launch(w) PROVE JobContent'
    BY <1>10 DEF Launch
  <1>11. ASSUME NEW w \in Workers, StartAlone(w) PROVE JobContent'
    BY <1>11 DEF StartAlone
  <1>12. ASSUME NEW w \in Workers, AlreadyRunning(w) PROVE JobContent'
    BY <1>12 DEF AlreadyRunning
  <1>13. ASSUME NEW w \in Workers, FetchJobs(w) PROVE JobContent'
    <2>1. UNCHANGED <<goal, queue, raw, vector, bm25>> /\ \A v \in Workers \ {w} : pc'[v] = pc[v]
      BY <1>13 DEF FetchJobs
    <2> QED
      BY <1>13, <2>1, FetchJobsJobs
  <1>14. ASSUME NEW w \in Workers, FetchNothing(w) PROVE JobContent'
    BY <1>14 DEF FetchNothing
  <1>15. ASSUME NEW w \in Workers, NEW p \in Paths, Prepare(w, p) PROVE JobContent'
    <2>1. UNCHANGED <<goal, queue, raw, vector, bm25, pc>>
      BY <1>15 DEF Prepare
    <2>2. jobs[w][p].status = "fetched" /\ goal[p] <= file[p]
      BY <1>15 DEF Prepare, GoalWritten
    <2> QED
      BY <1>15, <2>1, <2>2, PrepareJob DEF OtherJobsKept
  <1>16. ASSUME NEW w \in Workers, NEW p \in Paths, PreparePermanentFailure(w, p) PROVE JobContent'
    <2>1. jobs'[w][p].status = "none" /\ OtherJobsKept(w, p)
      BY <1>16, PreparePermanentFailureJob
    <2>2. \A v \in Workers \ {w} : jobs[v][p].status = "none"
      BY <1>16 DEF PreparePermanentFailure, JobsAreLive
    <2>3. \A q \in Paths \ {p} : queue'[q] = queue[q]
      BY <1>16 DEF PreparePermanentFailure, UpdatePermanent
    <2>4. UNCHANGED <<goal, raw, vector, bm25, pc>>
      BY <1>16 DEF PreparePermanentFailure
    <2> QED
      BY <2>1, <2>2, <2>3, <2>4 DEF OtherJobsKept
  <1>17. ASSUME NEW w \in Workers, NEW p \in Paths, PrepareFails(w, p) PROVE JobContent'
    <2>1. UNCHANGED <<goal, queue, raw, vector, bm25, pc>>
      BY <1>17 DEF PrepareFails
    <2>2. jobs[w][p].status \in {"fetched", "failed"}
      BY <1>17 DEF PrepareFails
    <2> QED
      BY <1>17, <2>1, <2>2, PrepareFailsJob DEF OtherJobsKept
  <1>18. ASSUME NEW w \in Workers, NothingPrepared(w) PROVE JobContent'
    <2>1. /\ UNCHANGED <<goal, queue, raw, vector, bm25, jobs>>
          /\ pc[w] = "preparing"
          /\ \A v \in Workers \ {w} : pc'[v] = pc[v]
      BY <1>18 DEF NothingPrepared, AllPrepared
    <2>2. \A q \in Paths : jobs[w][q].status # "stored"
      BY <2>1 DEF JobsInPhase, PhaseStatus
    <2> QED
      BY <2>1, <2>2
  <1>19. ASSUME NEW w \in Workers, OpenResources(w) PROVE JobContent'
    BY <1>19 DEF OpenResources
  <1>20. ASSUME NEW w \in Workers, OpenResourcesFails(w) PROVE JobContent'
    <2>1. /\ UNCHANGED <<goal, queue, raw, vector, bm25>>
          /\ pc[w] = "preparing"
          /\ \A v \in Workers \ {w} : pc'[v] = pc[v] /\ jobs'[v] = jobs[v]
      BY <1>20 DEF OpenResourcesFails, AllPrepared
    <2>2. \A q \in Paths : jobs'[w][q].status \in {"none", "failed"}
      BY <1>20, <1>0, TypedAt DEF OpenResourcesFails, AllPrepared, With, NoJob, JobsInPhase, PhaseStatus
    <2> QED
      BY <2>1, <2>2
  <1>21. ASSUME NEW w \in Workers, BeginStore(w) PROVE JobContent'
    BY <1>21 DEF BeginStore, AllPrepared
  <1>22. ASSUME NEW w \in Workers, NEW p \in Paths, StoreRaw(w, p) PROVE JobContent'
    <2>1. /\ UNCHANGED <<goal, queue, vector, bm25, pc>>
          /\ raw' = [raw EXCEPT ![p] = jobs[w][p].content]
          /\ pc[w] = "storing" /\ jobs[w][p].status \in {"prepared"}
      BY <1>22 DEF StoreRaw
    <2>2. \A v \in Workers \ {w} : jobs[v][p].status = "none"
      BY <2>1 DEF JobsAreLive
    <2>3. OtherJobsKept(w, p) /\ jobs'[w][p].status = "raw"
          /\ jobs'[w][p].content = jobs[w][p].content
          /\ jobs'[w][p].revision = jobs[w][p].revision
      BY <1>22, StoreRawJob
    <2> QED
      BY <2>1, <2>2, <2>3 DEF OtherJobsKept
  <1>23. ASSUME NEW w \in Workers, NEW p \in Paths, StoreVector(w, p) PROVE JobContent'
    <2>1. /\ UNCHANGED <<goal, queue, raw, bm25, pc>>
          /\ vector' = [vector EXCEPT ![p] = jobs[w][p].content]
          /\ pc[w] = "storing" /\ jobs[w][p].status \in {"raw"}
      BY <1>23 DEF StoreVector
    <2>2. \A v \in Workers \ {w} : jobs[v][p].status = "none"
      BY <2>1 DEF JobsAreLive
    <2>3. OtherJobsKept(w, p) /\ jobs'[w][p].status = "stored"
          /\ jobs'[w][p].content = jobs[w][p].content
          /\ jobs'[w][p].revision = jobs[w][p].revision
      BY <1>23, StoreVectorJob
    <2> QED
      BY <2>1, <2>2, <2>3 DEF OtherJobsKept
  <1>24. ASSUME NEW w \in Workers, NEW p \in Paths, StoreFails(w, p) PROVE JobContent'
    <2>1. /\ UNCHANGED <<goal, queue, raw, bm25, pc>>
          /\ vector' \in {vector, [vector EXCEPT ![p] = 0]}
          /\ pc[w] = "storing" /\ jobs[w][p].status \in {"prepared", "raw"}
      BY <1>24 DEF StoreFails
    <2>2. \A v \in Workers \ {w} : jobs[v][p].status = "none"
      BY <2>1 DEF JobsAreLive
    <2>3. OtherJobsKept(w, p) /\ jobs'[w][p].status = "failed"
          /\ jobs'[w][p].content = jobs[w][p].content
          /\ jobs'[w][p].revision = jobs[w][p].revision
      BY <1>24, StoreFailsJob
    <2> QED
      BY <2>1, <2>2, <2>3 DEF OtherJobsKept
  <1>25. ASSUME NEW w \in Workers, Rebuild(w) PROVE JobContent'
    <2>1. /\ UNCHANGED <<goal, queue, raw, vector, jobs>>
          /\ bm25' = vector /\ pc[w] = "storing"
          /\ \A v \in Workers \ {w} : pc'[v] = pc[v]
      BY <1>25 DEF Rebuild, EndStore, AllStored
    <2>2. \A v \in Workers \ {w} : pc[v] # "settling"
      BY <2>1 DEF LocksHeld, Running
    <2> QED
      BY <2>1, <2>2
  <1>26. ASSUME NEW w \in Workers, RebuildFails(w) PROVE JobContent'
    <2>1. /\ UNCHANGED <<goal, queue, raw, vector>>
          /\ bm25' \in {bm25, vector} /\ pc[w] = "storing"
          /\ \A v \in Workers \ {w} : pc'[v] = pc[v] /\ jobs'[v] = jobs[v]
      BY <1>26 DEF RebuildFails, EndStore, AllStored
    <2>2. \A q \in Paths : jobs'[w][q].status \in {"none", "failed"}
      <3>1. ASSUME NEW q \in Paths
            PROVE  jobs[w][q].status \in {"none", "stored", "failed"}
        BY <1>26 DEF RebuildFails, AllStored, With, JobsInPhase, PhaseStatus
      <3>2. ASSUME NEW q \in Paths, jobs[w][q].status = "stored"
            PROVE  jobs'[w][q].status = "failed"
        BY <1>26, <3>2, TypedAt DEF RebuildFails, Job
      <3>3. ASSUME NEW q \in Paths, jobs[w][q].status # "stored"
            PROVE  jobs'[w][q] = jobs[w][q]
        BY <1>26, <3>3, TypedAt DEF RebuildFails
      <3> QED
        BY <3>1, <3>2, <3>3
    <2>3. \A v \in Workers \ {w} : pc[v] # "settling"
      BY <2>1 DEF LocksHeld, Running
    <2> QED
      BY <2>1, <2>2, <2>3
  <1>27. ASSUME NEW w \in Workers, NothingStored(w) PROVE JobContent'
    <2>1. /\ UNCHANGED <<goal, queue, raw, vector, bm25, jobs>>
          /\ With(w, {"stored"}) = {}
          /\ \A v \in Workers \ {w} : pc'[v] = pc[v]
      BY <1>27 DEF NothingStored, EndStore
    <2> QED
      BY <2>1 DEF With
  <1>28. ASSUME NEW w \in Workers, NEW p \in Paths, Acknowledge(w, p) PROVE JobContent'
    <2>1. jobs'[w][p].status = "none" /\ OtherJobsKept(w, p)
      BY <1>28, AcknowledgeJob
    <2>2. \A v \in Workers \ {w} : jobs[v][p].status = "none"
      BY <1>28 DEF Acknowledge, JobsAreLive
    <2>3. \A q \in Paths \ {p} : queue'[q] = queue[q]
      BY <1>28 DEF Acknowledge, Delete
    <2>4. UNCHANGED <<goal, raw, vector, bm25, pc>>
      BY <1>28 DEF Acknowledge
    <2> QED
      BY <2>1, <2>2, <2>3, <2>4 DEF OtherJobsKept
  <1>29. ASSUME NEW w \in Workers, NEW p \in Paths, ReadAttempts(w, p) PROVE JobContent'
    <2>1. UNCHANGED <<goal, queue, raw, vector, bm25, pc>>
      BY <1>29 DEF ReadAttempts
    <2>2. jobs[w][p].status \in {"fetched", "failed"}
      BY <1>29 DEF ReadAttempts
    <2> QED
      BY <1>29, <2>1, <2>2, ReadAttemptsJob DEF OtherJobsKept
  <1>30. ASSUME NEW w \in Workers, NEW p \in Paths, Reschedule(w, p) PROVE JobContent'
    <2>1. jobs'[w][p].status = "none" /\ OtherJobsKept(w, p)
      BY <1>30, RescheduleJob
    <2>2. \A v \in Workers \ {w} : jobs[v][p].status = "none"
      BY <1>30 DEF Reschedule, JobsAreLive
    <2>3. \A q \in Paths \ {p} : queue'[q] = queue[q]
      BY <1>30 DEF Reschedule, UpdateTransient
    <2>4. UNCHANGED <<goal, raw, vector, bm25, pc>>
      BY <1>30 DEF Reschedule
    <2> QED
      BY <2>1, <2>2, <2>3, <2>4 DEF OtherJobsKept
  <1>31. ASSUME NEW w \in Workers, EndCycle(w) PROVE JobContent'
    BY <1>31 DEF EndCycle
  <1>32. ASSUME NEW w \in Workers, OnceExit(w) PROVE JobContent'
    BY <1>32 DEF OnceExit, Exit
  <1>33. ASSUME NEW w \in Workers, Sleep(w) PROVE JobContent'
    BY <1>33 DEF Sleep
  <1>34. ASSUME NEW w \in Workers, BeginFinalCheck(w) PROVE JobContent'
    BY <1>34 DEF BeginFinalCheck
  <1>35. ASSUME NEW w \in Workers, FinalCheckFindsWork(w) PROVE JobContent'
    BY <1>35 DEF FinalCheckFindsWork
  <1>36. ASSUME NEW w \in Workers, FinalCheckFindsNone(w) PROVE JobContent'
    BY <1>36 DEF FinalCheckFindsNone
  <1>37. ASSUME NEW w \in Workers, ReleaseWorkerLock(w) PROVE JobContent'
    BY <1>37 DEF ReleaseWorkerLock
  <1>38. ASSUME NEW w \in Workers, Leave(w) PROVE JobContent'
    BY <1>38 DEF Leave, Exit
  <1>39. ASSUME NEW w \in Workers, WorkerDies(w) PROVE JobContent'
    <2>1. /\ UNCHANGED <<goal, queue, raw, bm25>>
          /\ \A q \in Paths : jobs'[w][q].status = "none"
          /\ \A v \in Workers \ {w} : pc'[v] = pc[v] /\ jobs'[v] = jobs[v]
      BY <1>39 DEF WorkerDies, Exit, NoJobs, NoJob
    <2>2. ASSUME NEW v \in Workers \ {w}, NEW q \in Paths, jobs[v][q].status # "none"
          PROVE  vector'[q] = vector[q]
      <3>1. jobs[w][q].status = "none"
        BY <2>2 DEF JobsAreLive
      <3> QED
        BY <1>39, <3>1 DEF WorkerDies, With
    <2> QED
      BY <2>1, <2>2
  <1>40. CASE UNCHANGED vars
    BY <1>40 DEF vars
  <1> QED
    BY <1>1, <1>2, <1>3, <1>4, <1>5, <1>6, <1>7, <1>8, <1>9, <1>10, <1>11, <1>12, <1>13, <1>14, <1>15, <1>16, <1>17, <1>18, <1>19, <1>20, <1>21, <1>22, <1>23, <1>24, <1>25, <1>26, <1>27, <1>28, <1>29, <1>30, <1>31, <1>32, <1>33, <1>34, <1>35, <1>36, <1>37, <1>38, <1>39, <1>40
    DEF Next, TimePasses, HookStep, WorkerStep, BatchStep, LifeStep, JobStep

LEMMA NoLostUpdateStep ==
    /\ TypeOK /\ JobsAreLive /\ JobContent /\ NoLostUpdate
    /\ [Next]_vars
    => NoLostUpdate'
  <1> SUFFICES ASSUME TypeOK, JobsAreLive, JobContent, NoLostUpdate, [Next]_vars
               PROVE  NoLostUpdate'
    OBVIOUS
  <1>0. /\ goal \in [Paths -> Nat] /\ raw \in [Paths -> Nat]
        /\ vector \in [Paths -> Nat] /\ bm25 \in [Paths -> Nat]
        /\ queue \in [Paths -> Row]
    BY DEF TypeOK
  <1> USE <1>0
  <1> USE DEF NoLostUpdate, Captured, Present, Pending, transcriptVars, queueVars,
              storeVars, workerVars, lockVars, historyVars
  <1>1. ASSUME NEW p \in Paths, SessionWrites(p) PROVE NoLostUpdate'
    BY <1>1 DEF SessionWrites
  <1>2. ASSUME NEW p \in Paths, DebouncePasses(p) PROVE NoLostUpdate'
    BY <1>2 DEF DebouncePasses, DebounceElapsed
  <1>3. ASSUME NEW p \in Paths, BackoffPasses(p) PROVE NoLostUpdate'
    BY <1>3 DEF BackoffPasses, BackoffElapsed
  <1>4. ASSUME NEW h \in Hooks, NEW p \in Paths, Enqueue(h, p) PROVE NoLostUpdate'
    BY <1>4 DEF Enqueue, Upsert
  <1>5. ASSUME NEW h \in Hooks, ProbeFindsOwner(h) PROVE NoLostUpdate'
    BY <1>5 DEF ProbeFindsOwner
  <1>6. ASSUME NEW h \in Hooks, ProbeTakesLock(h) PROVE NoLostUpdate'
    BY <1>6 DEF ProbeTakesLock
  <1>7. ASSUME NEW h \in Hooks, ProbeReleases(h) PROVE NoLostUpdate'
    BY <1>7 DEF ProbeReleases
  <1>8. ASSUME NEW h \in Hooks, NEW w \in Workers, Spawn(h, w) PROVE NoLostUpdate'
    BY <1>8 DEF Spawn
  <1>9. ASSUME NEW h \in Hooks, HookDies(h) PROVE NoLostUpdate'
    BY <1>9 DEF HookDies
  <1>10. ASSUME NEW w \in Workers, Launch(w) PROVE NoLostUpdate'
    BY <1>10 DEF Launch
  <1>11. ASSUME NEW w \in Workers, StartAlone(w) PROVE NoLostUpdate'
    BY <1>11 DEF StartAlone
  <1>12. ASSUME NEW w \in Workers, AlreadyRunning(w) PROVE NoLostUpdate'
    BY <1>12 DEF AlreadyRunning
  <1>13. ASSUME NEW w \in Workers, FetchJobs(w) PROVE NoLostUpdate'
    BY <1>13 DEF FetchJobs
  <1>14. ASSUME NEW w \in Workers, FetchNothing(w) PROVE NoLostUpdate'
    BY <1>14 DEF FetchNothing
  <1>15. ASSUME NEW w \in Workers, NEW p \in Paths, Prepare(w, p) PROVE NoLostUpdate'
    BY <1>15 DEF Prepare
  <1>16. ASSUME NEW w \in Workers, NEW p \in Paths, PreparePermanentFailure(w, p) PROVE NoLostUpdate'
    <2>1. \A q \in Paths \ {p} : queue'[q] = queue[q]
      BY <1>16 DEF PreparePermanentFailure, UpdatePermanent
    <2>2. Present(queue', p)
      <3>1. Present(queue, p)
        BY <1>16 DEF PreparePermanentFailure, JobsAreLive
      <3> QED
        BY <1>16, <1>0, <3>1, TypedAt, RejectedRow DEF PreparePermanentFailure, UpdatePermanent
    <2> QED
      BY <1>16, <2>1, <2>2 DEF PreparePermanentFailure
  <1>17. ASSUME NEW w \in Workers, NEW p \in Paths, PrepareFails(w, p) PROVE NoLostUpdate'
    BY <1>17 DEF PrepareFails
  <1>18. ASSUME NEW w \in Workers, NothingPrepared(w) PROVE NoLostUpdate'
    BY <1>18 DEF NothingPrepared, AllPrepared
  <1>19. ASSUME NEW w \in Workers, OpenResources(w) PROVE NoLostUpdate'
    BY <1>19 DEF OpenResources
  <1>20. ASSUME NEW w \in Workers, OpenResourcesFails(w) PROVE NoLostUpdate'
    BY <1>20 DEF OpenResourcesFails, AllPrepared
  <1>21. ASSUME NEW w \in Workers, BeginStore(w) PROVE NoLostUpdate'
    BY <1>21 DEF BeginStore, AllPrepared
  <1>22. ASSUME NEW w \in Workers, NEW p \in Paths, StoreRaw(w, p) PROVE NoLostUpdate'
    <2>1. Present(queue, p)
      BY <1>22 DEF StoreRaw, JobsAreLive
    <2> QED
      BY <1>22, <2>1 DEF StoreRaw
  <1>23. ASSUME NEW w \in Workers, NEW p \in Paths, StoreVector(w, p) PROVE NoLostUpdate'
    <2>1. Present(queue, p)
      BY <1>23 DEF StoreVector, JobsAreLive
    <2> QED
      BY <1>23, <2>1 DEF StoreVector
  <1>24. ASSUME NEW w \in Workers, NEW p \in Paths, StoreFails(w, p) PROVE NoLostUpdate'
    <2>1. Present(queue, p)
      BY <1>24 DEF StoreFails, JobsAreLive
    <2> QED
      BY <1>24, <2>1 DEF StoreFails
  <1>25. ASSUME NEW w \in Workers, Rebuild(w) PROVE NoLostUpdate'
    BY <1>25 DEF Rebuild, EndStore
  <1>26. ASSUME NEW w \in Workers, RebuildFails(w) PROVE NoLostUpdate'
    BY <1>26 DEF RebuildFails, EndStore
  <1>27. ASSUME NEW w \in Workers, NothingStored(w) PROVE NoLostUpdate'
    BY <1>27 DEF NothingStored, EndStore
  <1>28. ASSUME NEW w \in Workers, NEW p \in Paths, Acknowledge(w, p) PROVE NoLostUpdate'
    <2>1. /\ UNCHANGED <<goal, raw, vector, bm25>>
          /\ \A q \in Paths \ {p} : queue'[q] = queue[q]
      BY <1>28 DEF Acknowledge, Delete
    <2>2. CASE Acknowledges(queue, p, jobs[w][p].revision)
      <3>1. jobs[w][p].revision = queue[p].revision
        BY <2>2 DEF Acknowledges, Matches
      <3>2. Captured(p)
        BY <1>28, <3>1 DEF Acknowledge, JobContent
      <3> QED
        BY <2>1, <3>2
    <2>3. CASE ~Acknowledges(queue, p, jobs[w][p].revision)
      <3>1. queue' = queue
        BY <1>28, <2>3 DEF Acknowledge
      <3> QED
        BY <2>1, <3>1
    <2> QED
      BY <2>2, <2>3
  <1>29. ASSUME NEW w \in Workers, NEW p \in Paths, ReadAttempts(w, p) PROVE NoLostUpdate'
    BY <1>29 DEF ReadAttempts
  <1>30. ASSUME NEW w \in Workers, NEW p \in Paths, Reschedule(w, p) PROVE NoLostUpdate'
    <2>1. \A q \in Paths \ {p} : queue'[q] = queue[q]
      BY <1>30 DEF Reschedule, UpdateTransient
    <2>2. Present(queue', p)
      <3>1. Present(queue, p)
        BY <1>30 DEF Reschedule, JobsAreLive
      <3> QED
        BY <1>30, <1>0, <3>1, TypedAt, RescheduledRow DEF Reschedule, UpdateTransient
    <2> QED
      BY <1>30, <2>1, <2>2 DEF Reschedule
  <1>31. ASSUME NEW w \in Workers, EndCycle(w) PROVE NoLostUpdate'
    BY <1>31 DEF EndCycle
  <1>32. ASSUME NEW w \in Workers, OnceExit(w) PROVE NoLostUpdate'
    BY <1>32 DEF OnceExit, Exit
  <1>33. ASSUME NEW w \in Workers, Sleep(w) PROVE NoLostUpdate'
    BY <1>33 DEF Sleep
  <1>34. ASSUME NEW w \in Workers, BeginFinalCheck(w) PROVE NoLostUpdate'
    BY <1>34 DEF BeginFinalCheck
  <1>35. ASSUME NEW w \in Workers, FinalCheckFindsWork(w) PROVE NoLostUpdate'
    BY <1>35 DEF FinalCheckFindsWork
  <1>36. ASSUME NEW w \in Workers, FinalCheckFindsNone(w) PROVE NoLostUpdate'
    BY <1>36 DEF FinalCheckFindsNone
  <1>37. ASSUME NEW w \in Workers, ReleaseWorkerLock(w) PROVE NoLostUpdate'
    BY <1>37 DEF ReleaseWorkerLock
  <1>38. ASSUME NEW w \in Workers, Leave(w) PROVE NoLostUpdate'
    BY <1>38 DEF Leave, Exit
  <1>39. ASSUME NEW w \in Workers, WorkerDies(w) PROVE NoLostUpdate'
    <2>1. \A q \in Paths : ~Present(queue, q) => vector'[q] = vector[q]
      BY <1>39 DEF WorkerDies, With, JobsAreLive
    <2>2. UNCHANGED <<goal, queue, raw, bm25>>
      BY <1>39 DEF WorkerDies
    <2> QED
      BY <2>1, <2>2
  <1>40. CASE UNCHANGED vars
    BY <1>40 DEF vars
  <1> QED
    BY <1>1, <1>2, <1>3, <1>4, <1>5, <1>6, <1>7, <1>8, <1>9, <1>10, <1>11, <1>12, <1>13, <1>14, <1>15, <1>16, <1>17, <1>18, <1>19, <1>20, <1>21, <1>22, <1>23, <1>24, <1>25, <1>26, <1>27, <1>28, <1>29, <1>30, <1>31, <1>32, <1>33, <1>34, <1>35, <1>36, <1>37, <1>38, <1>39, <1>40
    DEF Next, TimePasses, HookStep, WorkerStep, BatchStep, LifeStep, JobStep

-----------------------------------------------------------------------------
(* Attempts.                                                               *)

LEMMA AttemptsReadStep ==
    TypeOK /\ JobsAreLive /\ AttemptsRead /\ [Next]_vars => AttemptsRead'
  <1> SUFFICES ASSUME TypeOK, JobsAreLive, AttemptsRead, [Next]_vars
               PROVE  AttemptsRead'
    OBVIOUS
  <1>0. /\ queue \in [Paths -> Row]
        /\ jobs \in [Workers -> [Paths -> Job]]
    BY DEF TypeOK
  <1> USE <1>0
  <1> USE DEF AttemptsRead, Pending, transcriptVars, queueVars, storeVars,
              workerVars, lockVars, historyVars
  <1>1. ASSUME NEW p \in Paths, SessionWrites(p) PROVE AttemptsRead'
    BY <1>1 DEF SessionWrites
  <1>2. ASSUME NEW p \in Paths, DebouncePasses(p) PROVE AttemptsRead'
    <2>1. /\ jobs' = jobs
          /\ \A q \in Paths : /\ queue'[q].revision = queue[q].revision
                               /\ queue'[q].attempts = queue[q].attempts
                               /\ queue'[q].state = queue[q].state
      BY <1>2 DEF DebouncePasses, DebounceElapsed, BackoffElapsed, Row
    <2> QED
      BY <2>1
  <1>3. ASSUME NEW p \in Paths, BackoffPasses(p) PROVE AttemptsRead'
    <2>1. /\ jobs' = jobs
          /\ \A q \in Paths : /\ queue'[q].revision = queue[q].revision
                               /\ queue'[q].attempts = queue[q].attempts
                               /\ queue'[q].state = queue[q].state
      BY <1>3 DEF BackoffPasses, DebounceElapsed, BackoffElapsed, Row
    <2> QED
      BY <2>1
  <1>4. ASSUME NEW h \in Hooks, NEW p \in Paths, Enqueue(h, p) PROVE AttemptsRead'
    <2>1. /\ jobs' = jobs
          /\ queue'[p].attempts = 0 /\ queue'[p].revision = queue[p].revision + 1
          /\ \A q \in Paths \ {p} : queue'[q] = queue[q]
      BY <1>4 DEF Enqueue, Upsert
    <2>2. \A v \in Workers : jobs[v][p].status # "none" =>
             jobs[v][p].revision # queue'[p].revision
      BY <2>1, TypedAt DEF JobsAreLive
    <2> QED
      BY <2>1, <2>2, MaxAttemptsAssumption
  <1>5. ASSUME NEW h \in Hooks, ProbeFindsOwner(h) PROVE AttemptsRead'
    BY <1>5 DEF ProbeFindsOwner
  <1>6. ASSUME NEW h \in Hooks, ProbeTakesLock(h) PROVE AttemptsRead'
    BY <1>6 DEF ProbeTakesLock
  <1>7. ASSUME NEW h \in Hooks, ProbeReleases(h) PROVE AttemptsRead'
    BY <1>7 DEF ProbeReleases
  <1>8. ASSUME NEW h \in Hooks, NEW w \in Workers, Spawn(h, w) PROVE AttemptsRead'
    BY <1>8 DEF Spawn
  <1>9. ASSUME NEW h \in Hooks, HookDies(h) PROVE AttemptsRead'
    BY <1>9 DEF HookDies
  <1>10. ASSUME NEW w \in Workers, Launch(w) PROVE AttemptsRead'
    BY <1>10 DEF Launch
  <1>11. ASSUME NEW w \in Workers, StartAlone(w) PROVE AttemptsRead'
    BY <1>11 DEF StartAlone
  <1>12. ASSUME NEW w \in Workers, AlreadyRunning(w) PROVE AttemptsRead'
    BY <1>12 DEF AlreadyRunning
  <1>13. ASSUME NEW w \in Workers, FetchJobs(w) PROVE AttemptsRead'
    <2>1. queue' = queue
      BY <1>13 DEF FetchJobs
    <2> QED
      BY <1>13, <2>1, FetchJobsJobs
  <1>14. ASSUME NEW w \in Workers, FetchNothing(w) PROVE AttemptsRead'
    BY <1>14 DEF FetchNothing
  <1>15. ASSUME NEW w \in Workers, NEW p \in Paths, Prepare(w, p) PROVE AttemptsRead'
    <2>1. queue' = queue
      BY <1>15 DEF Prepare
    <2> QED
      BY <1>15, <2>1, PrepareJob DEF OtherJobsKept
  <1>16. ASSUME NEW w \in Workers, NEW p \in Paths, PreparePermanentFailure(w, p) PROVE AttemptsRead'
    <2>1. jobs'[w][p].status = "none" /\ OtherJobsKept(w, p)
      BY <1>16, PreparePermanentFailureJob
    <2>2. \A v \in Workers \ {w} : jobs[v][p].status = "none"
      BY <1>16 DEF PreparePermanentFailure, JobsAreLive
    <2>3. \A q \in Paths \ {p} : queue'[q] = queue[q]
      BY <1>16 DEF PreparePermanentFailure, UpdatePermanent
    <2>4. queue'[p].state = "failed" \/ queue'[p] = queue[p]
      BY <1>16, RejectedRow, TypedAt DEF PreparePermanentFailure, UpdatePermanent
    <2> QED
      BY <2>1, <2>2, <2>3, <2>4 DEF OtherJobsKept
  <1>17. ASSUME NEW w \in Workers, NEW p \in Paths, PrepareFails(w, p) PROVE AttemptsRead'
    <2>1. queue' = queue
      BY <1>17 DEF PrepareFails
    <2> QED
      BY <1>17, <2>1, PrepareFailsJob DEF OtherJobsKept
  <1>18. ASSUME NEW w \in Workers, NothingPrepared(w) PROVE AttemptsRead'
    BY <1>18 DEF NothingPrepared
  <1>19. ASSUME NEW w \in Workers, OpenResources(w) PROVE AttemptsRead'
    BY <1>19 DEF OpenResources
  <1>20. ASSUME NEW w \in Workers, OpenResourcesFails(w) PROVE AttemptsRead'
    <2>1. queue' = queue
      BY <1>20 DEF OpenResourcesFails
    <2>2. \A v \in Workers : \A q \in Paths :
             jobs'[v][q].status = "none" \/ jobs'[v][q] = jobs[v][q]
      BY <1>20 DEF OpenResourcesFails, NoJob
    <2> QED
      BY <2>1, <2>2
  <1>21. ASSUME NEW w \in Workers, BeginStore(w) PROVE AttemptsRead'
    BY <1>21 DEF BeginStore
  <1>22. ASSUME NEW w \in Workers, NEW p \in Paths, StoreRaw(w, p) PROVE AttemptsRead'
    <2>1. queue' = queue
      BY <1>22 DEF StoreRaw
    <2> QED
      BY <1>22, <2>1, StoreRawJob DEF OtherJobsKept
  <1>23. ASSUME NEW w \in Workers, NEW p \in Paths, StoreVector(w, p) PROVE AttemptsRead'
    <2>1. queue' = queue
      BY <1>23 DEF StoreVector
    <2> QED
      BY <1>23, <2>1, StoreVectorJob DEF OtherJobsKept
  <1>24. ASSUME NEW w \in Workers, NEW p \in Paths, StoreFails(w, p) PROVE AttemptsRead'
    <2>1. queue' = queue
      BY <1>24 DEF StoreFails
    <2> QED
      BY <1>24, <2>1, StoreFailsJob DEF OtherJobsKept
  <1>25. ASSUME NEW w \in Workers, Rebuild(w) PROVE AttemptsRead'
    BY <1>25 DEF Rebuild, EndStore
  <1>26. ASSUME NEW w \in Workers, RebuildFails(w) PROVE AttemptsRead'
    <2>1. queue' = queue
      BY <1>26 DEF RebuildFails, EndStore
    <2>2. \A q \in Paths : jobs'[w][q].status = "failed" \/ jobs'[w][q] = jobs[w][q]
      BY <1>26, TypedAt DEF RebuildFails, Job
    <2>3. \A v \in Workers \ {w} : jobs'[v] = jobs[v]
      BY <1>26 DEF RebuildFails
    <2> QED
      BY <2>1, <2>2, <2>3
  <1>27. ASSUME NEW w \in Workers, NothingStored(w) PROVE AttemptsRead'
    BY <1>27 DEF NothingStored, EndStore
  <1>28. ASSUME NEW w \in Workers, NEW p \in Paths, Acknowledge(w, p) PROVE AttemptsRead'
    <2>1. jobs'[w][p].status = "none" /\ OtherJobsKept(w, p)
      BY <1>28, AcknowledgeJob
    <2>2. \A v \in Workers \ {w} : jobs[v][p].status = "none"
      BY <1>28 DEF Acknowledge, JobsAreLive
    <2>3. \A q \in Paths \ {p} : queue'[q] = queue[q]
      BY <1>28 DEF Acknowledge, Delete
    <2>4. queue'[p].state = "absent" \/ queue'[p] = queue[p]
      BY <1>28 DEF Acknowledge, Delete, NoRow
    <2> QED
      BY <2>1, <2>2, <2>3, <2>4 DEF OtherJobsKept
  <1>29. ASSUME NEW w \in Workers, NEW p \in Paths, ReadAttempts(w, p) PROVE AttemptsRead'
    <2>1. queue' = queue
      BY <1>29 DEF ReadAttempts
    <2> QED
      BY <1>29, <2>1, ReadAttemptsJob DEF OtherJobsKept, Matches
  <1>30. ASSUME NEW w \in Workers, NEW p \in Paths, Reschedule(w, p) PROVE AttemptsRead'
    <2>1. jobs'[w][p].status = "none" /\ OtherJobsKept(w, p)
      BY <1>30, RescheduleJob
    <2>2. \A v \in Workers \ {w} : jobs[v][p].status = "none"
      BY <1>30 DEF Reschedule, JobsAreLive
    <2>3. \A q \in Paths \ {p} : queue'[q] = queue[q]
      BY <1>30 DEF Reschedule, UpdateTransient
    <2>4. queue'[p].state = "pending" => queue'[p].attempts < MaxAttempts
      <3>1. CASE Matches(queue, p, jobs[w][p].revision)
        <4>1. queue'[p] = Rescheduled(queue[p], jobs[w][p].attempts)
          BY <1>30, <3>1 DEF Reschedule, UpdateTransient
        <4>2. jobs[w][p].attempts \in Nat /\ queue[p] \in Row
          BY TypedAt
        <4>3. /\ queue'[p].attempts = jobs[w][p].attempts
              /\ queue'[p].state = IF jobs[w][p].attempts >= MaxAttempts
                                    THEN "failed" ELSE "pending"
          BY <4>1, <4>2, RescheduledRow
        <4> QED
          BY <4>2, <4>3, MaxAttemptsAssumption
      <3>2. CASE ~Matches(queue, p, jobs[w][p].revision)
        BY <1>30, <3>2 DEF Reschedule, UpdateTransient
      <3> QED
        BY <3>1, <3>2
    <2> QED
      BY <2>1, <2>2, <2>3, <2>4 DEF OtherJobsKept
  <1>31. ASSUME NEW w \in Workers, EndCycle(w) PROVE AttemptsRead'
    BY <1>31 DEF EndCycle
  <1>32. ASSUME NEW w \in Workers, OnceExit(w) PROVE AttemptsRead'
    BY <1>32 DEF OnceExit, Exit
  <1>33. ASSUME NEW w \in Workers, Sleep(w) PROVE AttemptsRead'
    BY <1>33 DEF Sleep
  <1>34. ASSUME NEW w \in Workers, BeginFinalCheck(w) PROVE AttemptsRead'
    BY <1>34 DEF BeginFinalCheck
  <1>35. ASSUME NEW w \in Workers, FinalCheckFindsWork(w) PROVE AttemptsRead'
    BY <1>35 DEF FinalCheckFindsWork
  <1>36. ASSUME NEW w \in Workers, FinalCheckFindsNone(w) PROVE AttemptsRead'
    BY <1>36 DEF FinalCheckFindsNone
  <1>37. ASSUME NEW w \in Workers, ReleaseWorkerLock(w) PROVE AttemptsRead'
    BY <1>37 DEF ReleaseWorkerLock
  <1>38. ASSUME NEW w \in Workers, Leave(w) PROVE AttemptsRead'
    BY <1>38 DEF Leave, Exit
  <1>39. ASSUME NEW w \in Workers, WorkerDies(w) PROVE AttemptsRead'
    BY <1>39 DEF WorkerDies, Exit, NoJobs, NoJob
  <1>40. CASE UNCHANGED vars
    BY <1>40 DEF vars
  <1> QED
    BY <1>1, <1>2, <1>3, <1>4, <1>5, <1>6, <1>7, <1>8, <1>9, <1>10, <1>11, <1>12, <1>13, <1>14, <1>15, <1>16, <1>17, <1>18, <1>19, <1>20, <1>21, <1>22, <1>23, <1>24, <1>25, <1>26, <1>27, <1>28, <1>29, <1>30, <1>31, <1>32, <1>33, <1>34, <1>35, <1>36, <1>37, <1>38, <1>39, <1>40
    DEF Next, TimePasses, HookStep, WorkerStep, BatchStep, LifeStep, JobStep

-----------------------------------------------------------------------------
(* The inductive invariant and what follows from it.                       *)

LEMMA InitIInv == Init => IInv
  <1> SUFFICES ASSUME Init PROVE IInv
    OBVIOUS
  <1>1. TypeOK
    BY InitTypeOK
  <1>2. LocksHeld
    BY ProcessAssumption DEF Init, LocksHeld, Running
  <1>3. \A w \in Workers : \A p \in Paths : jobs[w][p].status = "none"
    BY DEF Init, NoJobs, NoJob
  <1>4. \A p \in Paths : queue[p].state = "absent"
    BY DEF Init, NoRow
  <1>5. JobsInPhase
    BY <1>3 DEF Init, JobsInPhase, PhaseStatus
  <1>6. JobsAreLive /\ AttemptsRead /\ JobContent
    BY <1>3, <1>4 DEF JobsAreLive, AttemptsRead, JobContent, Pending
  <1>7. EmptyStaysEmpty /\ NoStrandedJob
    BY <1>4 DEF EmptyStaysEmpty, NoStrandedJob, Stranded, HasPending, Pending
  <1>8. GoalWritten /\ NoLostUpdate
    BY DEF Init, GoalWritten, NoLostUpdate, Captured
  <1> QED
    BY <1>1, <1>2, <1>5, <1>6, <1>7, <1>8 DEF IInv

LEMMA IInvStep == IInv /\ [Next]_vars => IInv'
  BY TypeOKStep, LocksHeldStep, JobsInPhaseStep, JobsAreLiveStep, EmptyStaysEmptyStep,
     NoStrandedJobStep, AttemptsReadStep, GoalWrittenStep, JobContentStep,
     NoLostUpdateStep
  DEF IInv

THEOREM InductiveInvariant == Spec => []IInv
  BY InitIInv, IInvStep, PTL DEF Spec

(* No row is deleted before its content is in all three stores: for any    *)
(* number of hooks, workers and transcripts, with crashes anywhere.        *)
THEOREM LostUpdateFree == Spec => []NoLostUpdate
  <1>1. IInv => NoLostUpdate
    BY DEF IInv
  <1> QED
    BY <1>1, InductiveInvariant, PTL

(* No pending row is left with nobody to process it, unless a process was  *)
(* killed or a --once worker walked away since the last enqueue.           *)
THEOREM StrandedFree == Spec => []NoStrandedJob
  <1>1. IInv => NoStrandedJob
    BY DEF IInv
  <1> QED
    BY <1>1, InductiveInvariant, PTL

(* A job in hand always has its row, at its revision or a later one, and   *)
(* no two workers have a job on one row.                                   *)
THEOREM JobsLive == Spec => []JobsAreLive
  <1>1. IInv => JobsAreLive
    BY DEF IInv
  <1> QED
    BY <1>1, InductiveInvariant, PTL

-----------------------------------------------------------------------------
(* What IngestWorker does to the job table, step by step: the action       *)
(* properties of its rows, and the refinement of TranscriptCapture.        *)

(* The steps that change the table or the goals.                           *)
QueueStep ==
    \/ UNCHANGED <<queue, goal>>
    \/ \E p \in Paths : DebouncePasses(p) \/ BackoffPasses(p)
    \/ \E h \in Hooks, p \in Paths : Enqueue(h, p)
    \/ \E w \in Workers, p \in Paths : \/ PreparePermanentFailure(w, p)
                                       \/ Acknowledge(w, p)
                                       \/ Reschedule(w, p)

LEMMA QueueSteps == [Next]_vars => QueueStep
  <1> SUFFICES ASSUME [Next]_vars PROVE QueueStep
    OBVIOUS
  <1> USE DEF QueueStep, transcriptVars, queueVars
  <1>1. ASSUME NEW p \in Paths, SessionWrites(p) PROVE QueueStep
    BY <1>1 DEF SessionWrites
  <1>2. ASSUME NEW p \in Paths, DebouncePasses(p) PROVE QueueStep
    BY <1>2
  <1>3. ASSUME NEW p \in Paths, BackoffPasses(p) PROVE QueueStep
    BY <1>3
  <1>4. ASSUME NEW h \in Hooks, NEW p \in Paths, Enqueue(h, p) PROVE QueueStep
    BY <1>4
  <1>5. ASSUME NEW h \in Hooks, ProbeFindsOwner(h) PROVE QueueStep
    BY <1>5 DEF ProbeFindsOwner
  <1>6. ASSUME NEW h \in Hooks, ProbeTakesLock(h) PROVE QueueStep
    BY <1>6 DEF ProbeTakesLock
  <1>7. ASSUME NEW h \in Hooks, ProbeReleases(h) PROVE QueueStep
    BY <1>7 DEF ProbeReleases
  <1>8. ASSUME NEW h \in Hooks, NEW w \in Workers, Spawn(h, w) PROVE QueueStep
    BY <1>8 DEF Spawn
  <1>9. ASSUME NEW h \in Hooks, HookDies(h) PROVE QueueStep
    BY <1>9 DEF HookDies
  <1>10. ASSUME NEW w \in Workers, Launch(w) PROVE QueueStep
    BY <1>10 DEF Launch
  <1>11. ASSUME NEW w \in Workers, StartAlone(w) PROVE QueueStep
    BY <1>11 DEF StartAlone
  <1>12. ASSUME NEW w \in Workers, AlreadyRunning(w) PROVE QueueStep
    BY <1>12 DEF AlreadyRunning
  <1>13. ASSUME NEW w \in Workers, FetchJobs(w) PROVE QueueStep
    BY <1>13 DEF FetchJobs
  <1>14. ASSUME NEW w \in Workers, FetchNothing(w) PROVE QueueStep
    BY <1>14 DEF FetchNothing
  <1>15. ASSUME NEW w \in Workers, NEW p \in Paths, Prepare(w, p) PROVE QueueStep
    BY <1>15 DEF Prepare
  <1>16. ASSUME NEW w \in Workers, NEW p \in Paths, PreparePermanentFailure(w, p) PROVE QueueStep
    BY <1>16
  <1>17. ASSUME NEW w \in Workers, NEW p \in Paths, PrepareFails(w, p) PROVE QueueStep
    BY <1>17 DEF PrepareFails
  <1>18. ASSUME NEW w \in Workers, NothingPrepared(w) PROVE QueueStep
    BY <1>18 DEF NothingPrepared
  <1>19. ASSUME NEW w \in Workers, OpenResources(w) PROVE QueueStep
    BY <1>19 DEF OpenResources
  <1>20. ASSUME NEW w \in Workers, OpenResourcesFails(w) PROVE QueueStep
    BY <1>20 DEF OpenResourcesFails
  <1>21. ASSUME NEW w \in Workers, BeginStore(w) PROVE QueueStep
    BY <1>21 DEF BeginStore
  <1>22. ASSUME NEW w \in Workers, NEW p \in Paths, StoreRaw(w, p) PROVE QueueStep
    BY <1>22 DEF StoreRaw
  <1>23. ASSUME NEW w \in Workers, NEW p \in Paths, StoreVector(w, p) PROVE QueueStep
    BY <1>23 DEF StoreVector
  <1>24. ASSUME NEW w \in Workers, NEW p \in Paths, StoreFails(w, p) PROVE QueueStep
    BY <1>24 DEF StoreFails
  <1>25. ASSUME NEW w \in Workers, Rebuild(w) PROVE QueueStep
    BY <1>25 DEF Rebuild, EndStore
  <1>26. ASSUME NEW w \in Workers, RebuildFails(w) PROVE QueueStep
    BY <1>26 DEF RebuildFails, EndStore
  <1>27. ASSUME NEW w \in Workers, NothingStored(w) PROVE QueueStep
    BY <1>27 DEF NothingStored, EndStore
  <1>28. ASSUME NEW w \in Workers, NEW p \in Paths, Acknowledge(w, p) PROVE QueueStep
    BY <1>28
  <1>29. ASSUME NEW w \in Workers, NEW p \in Paths, ReadAttempts(w, p) PROVE QueueStep
    BY <1>29 DEF ReadAttempts
  <1>30. ASSUME NEW w \in Workers, NEW p \in Paths, Reschedule(w, p) PROVE QueueStep
    BY <1>30
  <1>31. ASSUME NEW w \in Workers, EndCycle(w) PROVE QueueStep
    BY <1>31 DEF EndCycle
  <1>32. ASSUME NEW w \in Workers, OnceExit(w) PROVE QueueStep
    BY <1>32 DEF OnceExit
  <1>33. ASSUME NEW w \in Workers, Sleep(w) PROVE QueueStep
    BY <1>33 DEF Sleep
  <1>34. ASSUME NEW w \in Workers, BeginFinalCheck(w) PROVE QueueStep
    BY <1>34 DEF BeginFinalCheck
  <1>35. ASSUME NEW w \in Workers, FinalCheckFindsWork(w) PROVE QueueStep
    BY <1>35 DEF FinalCheckFindsWork
  <1>36. ASSUME NEW w \in Workers, FinalCheckFindsNone(w) PROVE QueueStep
    BY <1>36 DEF FinalCheckFindsNone
  <1>37. ASSUME NEW w \in Workers, ReleaseWorkerLock(w) PROVE QueueStep
    BY <1>37 DEF ReleaseWorkerLock
  <1>38. ASSUME NEW w \in Workers, Leave(w) PROVE QueueStep
    BY <1>38 DEF Leave
  <1>39. ASSUME NEW w \in Workers, WorkerDies(w) PROVE QueueStep
    BY <1>39 DEF WorkerDies
  <1>40. CASE UNCHANGED vars
    BY <1>40 DEF vars
  <1> QED
    BY <1>1, <1>2, <1>3, <1>4, <1>5, <1>6, <1>7, <1>8, <1>9, <1>10, <1>11, <1>12, <1>13, <1>14, <1>15, <1>16, <1>17, <1>18, <1>19, <1>20, <1>21, <1>22, <1>23, <1>24, <1>25, <1>26, <1>27, <1>28, <1>29, <1>30, <1>31, <1>32, <1>33, <1>34, <1>35, <1>36, <1>37, <1>38, <1>39, <1>40
    DEF Next, TimePasses, HookStep, WorkerStep, BatchStep, LifeStep, JobStep

-----------------------------------------------------------------------------
(* What each of them does to the rows.                                     *)

LEMMA TimeRows ==
  ASSUME TypeOK, NEW p \in Paths, DebouncePasses(p) \/ BackoffPasses(p)
  PROVE  /\ goal' = goal
         /\ \A q \in Paths : Verdict(queue'[q]) = Verdict(queue[q])
  <1>1. queue \in [Paths -> Row]
    BY DEF TypeOK
  <1> QED
    BY <1>1 DEF DebouncePasses, BackoffPasses, DebounceElapsed, BackoffElapsed,
                Verdict, Row, transcriptVars

LEMMA EnqueueRows ==
  ASSUME TypeOK, NEW h \in Hooks, NEW p \in Paths, Enqueue(h, p)
  PROVE  /\ queue'[p].state = "pending"
         /\ queue'[p].revision = queue[p].revision + 1
         /\ \A q \in Paths \ {p} : queue'[q] = queue[q]
  <1>1. queue \in [Paths -> Row]
    BY DEF TypeOK
  <1> QED
    BY <1>1 DEF Enqueue, Upsert

(* A row that a worker's statement selects is pending, and becomes deleted *)
(* or has one attempt more; any other row is left alone.                   *)
LEMMA WorkerRows ==
  ASSUME IInv, NEW w \in Workers, NEW p \in Paths,
         \/ PreparePermanentFailure(w, p)
         \/ Acknowledge(w, p)
         \/ Reschedule(w, p)
  PROVE  /\ goal' = goal
         /\ jobs[w][p].status # "none"
         /\ \A q \in Paths \ {p} : queue'[q] = queue[q]
         /\ \/ queue'[p] = queue[p]
            \/ /\ Pending(queue, p)
               /\ jobs[w][p].revision = queue[p].revision
               /\ \/ Acknowledge(w, p) /\ queue'[p].state = "absent" /\ Captured(p)
                  \/ /\ queue'[p].state \in {"pending", "failed"}
                     /\ queue'[p].revision = queue[p].revision
                     /\ queue'[p].attempts = queue[p].attempts + 1
                     /\ queue'[p].state = "pending" => queue'[p].attempts < MaxAttempts
                     /\ queue'[p].attempts < MaxAttempts =>
                          queue'[p].state = "pending" \/ jobs[w][p].status = "fetched"
  <1>1. /\ queue \in [Paths -> Row]
        /\ TypeOK /\ JobsAreLive /\ AttemptsRead /\ JobContent
        /\ \A q \in Paths : Pending(queue, q) => queue[q].attempts < MaxAttempts
    BY DEF TypeOK, IInv, AttemptsRead
  <1>2. queue[p] \in Row /\ queue[p].attempts \in Nat /\ jobs[w][p].attempts \in Nat
    BY <1>1, TypedAt
  <1>3. CASE PreparePermanentFailure(w, p)
    <2>1. goal' = goal /\ jobs[w][p].status # "none"
          /\ \A q \in Paths \ {p} : queue'[q] = queue[q]
      BY <1>1, <1>3 DEF PreparePermanentFailure, UpdatePermanent, transcriptVars
    <2>2. CASE Matches(queue, p, jobs[w][p].revision)
      <3>1. Pending(queue, p) /\ jobs[w][p].revision = queue[p].revision
        BY <1>1, <2>1, <2>2 DEF JobsAreLive, Matches
      <3>2. queue'[p] = Rejected(queue[p])
        BY <1>1, <1>3, <2>2 DEF PreparePermanentFailure, UpdatePermanent
      <3>3. /\ queue'[p].state = "failed"
            /\ queue'[p].revision = queue[p].revision
            /\ queue'[p].attempts = queue[p].attempts + 1
        BY <1>2, <3>2, RejectedRow
      <3>4. jobs[w][p].status = "fetched"
        BY <1>3 DEF PreparePermanentFailure
      <3> QED
        BY <2>1, <3>1, <3>3, <3>4
    <2>3. CASE ~Matches(queue, p, jobs[w][p].revision)
      <3>1. queue' = queue
        BY <1>3, <2>3 DEF PreparePermanentFailure, UpdatePermanent
      <3> QED
        BY <2>1, <3>1
    <2> QED
      BY <2>2, <2>3
  <1>4. CASE Acknowledge(w, p)
    <2>1. goal' = goal /\ jobs[w][p].status # "none"
          /\ \A q \in Paths \ {p} : queue'[q] = queue[q]
      BY <1>1, <1>4 DEF Acknowledge, Delete, transcriptVars, queueVars
    <2>2. CASE Acknowledges(queue, p, jobs[w][p].revision)
      <3>1. Pending(queue, p) /\ jobs[w][p].revision = queue[p].revision
        BY <2>2 DEF Acknowledges, Matches, Pending
      <3>2. Captured(p)
        BY <1>1, <1>4, <3>1 DEF Acknowledge, JobContent, Captured
      <3>3. queue'[p].state = "absent"
        BY <1>1, <1>4, <2>2 DEF Acknowledge, Delete, NoRow
      <3> QED
        BY <1>4, <2>1, <3>1, <3>2, <3>3
    <2>3. CASE ~Acknowledges(queue, p, jobs[w][p].revision)
      <3>1. queue' = queue
        BY <1>4, <2>3 DEF Acknowledge, queueVars
      <3> QED
        BY <2>1, <3>1
    <2> QED
      BY <2>2, <2>3
  <1>5. CASE Reschedule(w, p)
    <2>1. goal' = goal /\ jobs[w][p].status # "none"
          /\ \A q \in Paths \ {p} : queue'[q] = queue[q]
      BY <1>1, <1>5 DEF Reschedule, UpdateTransient, transcriptVars
    <2>2. CASE Matches(queue, p, jobs[w][p].revision)
      <3>1. Pending(queue, p) /\ jobs[w][p].revision = queue[p].revision
        BY <1>1, <2>1, <2>2 DEF JobsAreLive, Matches
      <3>2. queue'[p] = Rescheduled(queue[p], jobs[w][p].attempts)
        BY <1>1, <1>5, <2>2 DEF Reschedule, UpdateTransient
      <3>3. jobs[w][p].attempts = queue[p].attempts + 1
        BY <1>1, <1>5, <3>1 DEF Reschedule, AttemptsRead
      <3>4. /\ queue'[p].state = IF jobs[w][p].attempts >= MaxAttempts
                                 THEN "failed" ELSE "pending"
            /\ queue'[p].revision = queue[p].revision
            /\ queue'[p].attempts = jobs[w][p].attempts
        BY <1>2, <3>2, RescheduledRow
      <3>5. queue'[p].state = "pending" <=> queue'[p].attempts < MaxAttempts
        BY <1>2, <3>4, MaxAttemptsAssumption
      <3> QED
        BY <2>1, <3>1, <3>3, <3>4, <3>5
    <2>3. CASE ~Matches(queue, p, jobs[w][p].revision)
      <3>1. queue' = queue
        BY <1>5, <2>3 DEF Reschedule, UpdateTransient
      <3> QED
        BY <2>1, <3>1
    <2> QED
      BY <2>2, <2>3
  <1> QED
    BY <1>3, <1>4, <1>5

-----------------------------------------------------------------------------
(* The action properties.                                                  *)

(* Only an enqueue, or a worker that holds the current revision, changes   *)
(* the verdict on a row.                                                   *)
THEOREM NewerRevisionSafe == Spec => NewerRevisionKept
  <1>1. ASSUME IInv, [Next]_vars, NEW p \in Paths,
               Present(queue, p), Verdict(queue'[p]) # Verdict(queue[p])
        PROVE  \/ queue'[p].revision = queue[p].revision + 1
               \/ \E w \in Workers : /\ jobs[w][p].status # "none"
                                     /\ jobs[w][p].revision = queue[p].revision
    <2>1. QueueStep
      BY <1>1, QueueSteps
    <2>2. CASE UNCHANGED <<queue, goal>>
      BY <1>1, <2>2
    <2>3. ASSUME NEW q \in Paths, DebouncePasses(q) \/ BackoffPasses(q) PROVE FALSE
      BY <1>1, <2>3, TimeRows DEF IInv
    <2>4. ASSUME NEW h \in Hooks, NEW q \in Paths, Enqueue(h, q)
          PROVE  queue'[p].revision = queue[p].revision + 1
      BY <1>1, <2>4, EnqueueRows DEF IInv
    <2>5. ASSUME NEW w \in Workers, NEW q \in Paths,
                 PreparePermanentFailure(w, q) \/ Acknowledge(w, q) \/ Reschedule(w, q)
          PROVE  /\ jobs[w][p].status # "none"
                 /\ jobs[w][p].revision = queue[p].revision
      BY <1>1, <2>5, WorkerRows
    <2> QED
      BY <2>1, <2>2, <2>3, <2>4, <2>5 DEF QueueStep
  <1>2. IInv /\ [Next]_vars =>
          [ \A p \in Paths :
              (Present(queue, p) /\ Verdict(queue'[p]) # Verdict(queue[p])) =>
                  \/ queue'[p].revision = queue[p].revision + 1
                  \/ \E w \in Workers : /\ jobs[w][p].status # "none"
                                        /\ jobs[w][p].revision = queue[p].revision
          ]_vars
    BY <1>1
  <1> QED
    BY <1>2, InductiveInvariant, PTL DEF Spec, NewerRevisionKept

(* Within one revision attempts count up one by one, failed is final, and  *)
(* only a worker that was about to prepare a row fails it before           *)
(* MaxAttempts.                                                            *)
THEOREM AttemptsBounded == Spec => AttemptsCounted
  <1>1. ASSUME IInv, [Next]_vars, NEW p \in Paths,
               Present(queue, p), Present(queue', p),
               queue'[p].revision = queue[p].revision,
               Verdict(queue'[p]) # Verdict(queue[p])
        PROVE  /\ Pending(queue, p)
               /\ queue'[p].attempts = queue[p].attempts + 1
               /\ queue'[p].attempts <= MaxAttempts
               /\ queue'[p].attempts < MaxAttempts =>
                     Pending(queue', p) \/ ToPrepare(p)
               /\ Pending(queue', p) => queue'[p].attempts < MaxAttempts
    <2>1. QueueStep
      BY <1>1, QueueSteps
    <2>2. CASE UNCHANGED <<queue, goal>>
      BY <1>1, <2>2
    <2>3. ASSUME NEW q \in Paths, DebouncePasses(q) \/ BackoffPasses(q) PROVE FALSE
      BY <1>1, <2>3, TimeRows DEF IInv
    <2>4. ASSUME NEW h \in Hooks, NEW q \in Paths, Enqueue(h, q) PROVE FALSE
      <3>1. TypeOK
        BY <1>1 DEF IInv
      <3>2. queue[p].revision \in Nat
        BY <3>1 DEF TypeOK, Row
      <3> QED
        BY <1>1, <2>4, <3>1, <3>2, EnqueueRows
    <2>5. ASSUME NEW w \in Workers, NEW q \in Paths,
                 PreparePermanentFailure(w, q) \/ Acknowledge(w, q) \/ Reschedule(w, q)
          PROVE  /\ Pending(queue, p)
                 /\ queue'[p].attempts = queue[p].attempts + 1
                 /\ queue'[p].attempts <= MaxAttempts
                 /\ queue'[p].attempts < MaxAttempts =>
                       Pending(queue', p) \/ ToPrepare(p)
                 /\ Pending(queue', p) => queue'[p].attempts < MaxAttempts
      <3>1. q = p
        BY <1>1, <2>5, WorkerRows
      <3>2. /\ Pending(queue, p)
            /\ queue'[p].attempts = queue[p].attempts + 1
            /\ queue'[p].attempts < MaxAttempts =>
                  Pending(queue', p) \/ ToPrepare(p)
            /\ Pending(queue', p) => queue'[p].attempts < MaxAttempts
        BY <1>1, <2>5, <3>1, WorkerRows DEF Present, Pending, ToPrepare
      <3>3. queue[p].attempts \in Nat /\ queue[p].attempts < MaxAttempts
        BY <1>1, <3>2 DEF IInv, TypeOK, Row, AttemptsRead
      <3> QED
        BY <3>2, <3>3, MaxAttemptsAssumption
    <2> QED
      BY <2>1, <2>2, <2>3, <2>4, <2>5 DEF QueueStep
  <1>2. IInv /\ [Next]_vars =>
          [ \A p \in Paths :
              ( /\ Present(queue, p) /\ Present(queue', p)
                /\ queue'[p].revision = queue[p].revision
                /\ Verdict(queue'[p]) # Verdict(queue[p]) ) =>
                  /\ Pending(queue, p)
                  /\ queue'[p].attempts = queue[p].attempts + 1
                  /\ queue'[p].attempts <= MaxAttempts
                  /\ queue'[p].attempts < MaxAttempts =>
                        Pending(queue', p) \/ ToPrepare(p)
                  /\ Pending(queue', p) => queue'[p].attempts < MaxAttempts
          ]_vars
    BY <1>1
  <1> QED
    BY <1>2, InductiveInvariant, PTL DEF Spec, AttemptsCounted

-----------------------------------------------------------------------------
(* The refinement.                                                         *)

LEMMA HeldCaptured ==
  ASSUME TypeOK, NEW p \in Paths
  PROVE  Held(p) \in Nat /\ (Captured(p) <=> goal[p] <= Held(p))
  BY DEF TypeOK, Held, Captured

LEMMA HeldCapturedNext ==
  ASSUME TypeOK', NEW p \in Paths
  PROVE  Held(p)' \in Nat /\ (Captured(p)' <=> goal'[p] <= Held(p)')
  BY DEF TypeOK, Held, Captured

(* Whatever happens below, as long as no verdict and no goal changes.      *)
LEMMA WorkStep ==
  ASSUME IInv', goal' = goal,
         \A p \in Paths : queue'[p].state = queue[p].state
  PROVE  Capture!Work
  <1>1. TypeOK' /\ NoLostUpdate'
    BY DEF IInv
  <1>2. \A p \in Paths : Status(p)' = Status(p)
    BY DEF Status
  <1>3. [p \in Paths |-> Held(p)]' \in [Paths -> Nat]
    BY <1>1, HeldCapturedNext
  <1>4. ASSUME NEW p \in Paths, Status(p) = "done" PROVE goal[p] <= Held(p)'
    <2>1. queue'[p].state = "absent"
      BY <1>4, <1>1 DEF Status, TypeOK, Row, RowState
    <2>2. Captured(p)'
      BY <1>1, <2>1 DEF NoLostUpdate, Present
    <2> QED
      BY <1>1, <2>2, HeldCapturedNext
  <1> QED
    BY <1>2, <1>3, <1>4 DEF Capture!Work

LEMMA CaptureStep == IInv /\ IInv' /\ [Next]_vars => Capture!Next
  <1> SUFFICES ASSUME IInv, IInv', [Next]_vars PROVE Capture!Next
    OBVIOUS
  <1>0. /\ TypeOK /\ TypeOK'
        /\ queue \in [Paths -> Row] /\ queue' \in [Paths -> Row]
        /\ goal \in [Paths -> Nat] /\ goal' \in [Paths -> Nat]
    BY DEF IInv, TypeOK
  <1>1. QueueStep
    BY QueueSteps
  <1>2. CASE UNCHANGED <<queue, goal>>
    BY <1>2, WorkStep DEF Capture!Next
  <1>3. ASSUME NEW p \in Paths, DebouncePasses(p) \/ BackoffPasses(p)
        PROVE  Capture!Next
    <2>1. goal' = goal /\ \A q \in Paths : queue'[q].state = queue[q].state
      BY <1>0, <1>3, TimeRows DEF Verdict
    <2> QED
      BY <2>1, WorkStep DEF Capture!Next
  <1>4. ASSUME NEW h \in Hooks, NEW p \in Paths, Enqueue(h, p) PROVE Capture!Next
    <2>1. \A q \in Paths : Held(q)' = Held(q)
      BY <1>4 DEF Enqueue, Held, storeVars
    <2>2. /\ Status(p)' = "wanted"
          /\ \A q \in Paths \ {p} : Status(q)' = Status(q)
      BY <1>0, <1>4, EnqueueRows DEF Status
    <2>3. /\ goal[p] <= goal'[p]
          /\ \A q \in Paths \ {p} : goal'[q] = goal[q]
      BY <1>0, <1>4 DEF Enqueue, IInv, GoalWritten
    <2>4. Capture!Request(p)
      BY <1>0, <2>1, <2>2, <2>3 DEF Capture!Request
    <2> QED
      BY <2>4 DEF Capture!Next
  <1>5. ASSUME NEW w \in Workers, NEW p \in Paths,
               PreparePermanentFailure(w, p) \/ Acknowledge(w, p) \/ Reschedule(w, p)
        PROVE  Capture!Next
    <2>1. goal' = goal /\ \A q \in Paths \ {p} : queue'[q] = queue[q]
      BY <1>5, WorkerRows
    <2>2. CASE queue'[p].state = queue[p].state
      BY <2>1, <2>2, WorkStep DEF Capture!Next
    <2>3. CASE queue'[p].state # queue[p].state
      <3>1. /\ Pending(queue, p)
            /\ \/ queue'[p].state = "absent" /\ Captured(p)
               \/ queue'[p].state = "failed"
        BY <1>5, <2>3, WorkerRows DEF Pending
      <3>2. Status(p) = "wanted" /\ \A q \in Paths \ {p} : Status(q)' = Status(q)
        BY <2>1, <3>1 DEF Status, Pending
      <3>3. \A q \in Paths : Held(q)' = Held(q)
        BY <1>5 DEF PreparePermanentFailure, Acknowledge, Reschedule, Held, storeVars
      <3>4. CASE queue'[p].state = "absent" /\ Captured(p)
        <4>1. Status(p)' = "done"
          BY <3>4 DEF Status
        <4>2. goal[p] <= Held(p)
          BY <1>0, <3>4, HeldCaptured
        <4> QED
          BY <2>1, <3>2, <3>3, <4>1, <4>2 DEF Capture!Complete, Capture!Next
      <3>5. CASE queue'[p].state = "failed"
        <4>1. Status(p)' = "failed"
          BY <3>5 DEF Status
        <4> QED
          BY <2>1, <3>2, <3>3, <4>1 DEF Capture!GiveUp, Capture!Next
      <3> QED
        BY <3>1, <3>4, <3>5
    <2> QED
      BY <2>2, <2>3
  <1> QED
    BY <1>1, <1>2, <1>3, <1>4, <1>5 DEF QueueStep

(* The hooks, workers, locks and stores implement TranscriptCapture.       *)
THEOREM CaptureRefined == Spec => ImplementsCapture
  <1>1. Init => Capture!Init
    BY DEF Init, Capture!Init, Status, Held, NoRow
  <1>2. IInv /\ IInv' /\ [Next]_vars => [Capture!Next]_(Capture!vars)
    BY CaptureStep
  <1> QED
    BY <1>1, <1>2, InductiveInvariant, PTL DEF Spec, ImplementsCapture, Capture!Spec
=============================================================================
