----------------------------- MODULE IngestQueue -----------------------------
(***************************************************************************)
(* The SQLite table `ingest_jobs` of ingest_queue.py: one row per          *)
(* transcript path, and the statements that the hooks and the worker run   *)
(* on it.  Each operator is one statement: it takes the table and returns  *)
(* the table after the statement commits.                                  *)
(*                                                                         *)
(* Timestamps are reduced to what the statements compare them with:        *)
(*   settled    enqueued_at <= now - debounce   (the debounce has passed)  *)
(*   due        next_attempt_at <= now          (no backoff is running)    *)
(* and the order of enqueued_at is the relation `before` of pairs of       *)
(* queued paths.  `source` and `last_error` are left out.                  *)
(***************************************************************************)
EXTENDS Naturals, FiniteSets

CONSTANTS
    Paths,         \* transcript paths, the primary key
    MaxAttempts,   \* MAX_ATTEMPTS: attempts after which a revision is failed
    MaxJobs        \* rows that one call of ready() may return (LIMIT)

ASSUME PathsAssumption == IsFiniteSet(Paths)
ASSUME MaxAttemptsAssumption == MaxAttempts \in Nat \ {0}
ASSUME MaxJobsAssumption == MaxJobs \in Nat \ {0}

(* A row; the state "absent" stands for a path without a row.              *)
RowState == {"absent", "pending", "failed"}

Row == [state    : RowState,
        revision : Nat,
        attempts : Nat,
        settled  : BOOLEAN,
        due      : BOOLEAN]

NoRow == [state |-> "absent", revision |-> 0, attempts |-> 0,
          settled |-> FALSE, due |-> FALSE]

Present(table, p) == table[p].state # "absent"
Pending(table, p) == table[p].state = "pending"
HasPending(table) == \E p \in Paths : Pending(table, p)

(* A row has a revision from 1 on, a path without a row has none.          *)
Numbered(table) == \A p \in Paths : Present(table, p) <=> table[p].revision # 0

(* The row a statement with WHERE transcript_path = ? AND revision = ?     *)
(* selects.                                                                *)
Matches(table, p, revision) ==
    Present(table, p) /\ table[p].revision = revision

-----------------------------------------------------------------------------
(* Mutant: the UPSERT without `revision = ingest_jobs.revision + 1`.       *)
UpsertSameRevision(table, p) ==
    [table EXCEPT ![p] = [state    |-> "pending",
                          revision |-> table[p].revision,
                          attempts |-> 0,
                          settled  |-> FALSE,
                          due      |-> TRUE]]

(* enqueue(): an UPSERT.  A new path starts at revision 1; a known path    *)
(* becomes a fresh pending job with the next revision, whatever state the  *)
(* old revision was in.                                                    *)
Upsert(table, p) ==
    [table EXCEPT ![p] = [state    |-> "pending",
                          revision |-> table[p].revision + 1,
                          attempts |-> 0,
                          settled  |-> FALSE,
                          due      |-> TRUE]]

(* enqueued_at = now puts the path behind every other queued path.         *)
MoveLast(before, table, p) ==
    { pair \in before : pair[1] # p /\ pair[2] # p }
        \cup { <<q, p>> : q \in { r \in Paths \ {p} : Present(table, r) } }

Forget(before, p) == { pair \in before : pair[1] # p /\ pair[2] # p }

(* Mutant: ready() without `state = 'pending'`.                            *)
ReadyPathsOfAnyState(table, debounced) ==
    { p \in Paths : /\ Present(table, p)
                    /\ table[p].due
                    /\ debounced => table[p].settled }

(* The rows ready() may return.  A worker started with --once calls it     *)
(* with debounce 0.                                                        *)
ReadyPaths(table, debounced) ==
    { p \in Paths : /\ table[p].state = "pending"
                    /\ table[p].due
                    /\ debounced => table[p].settled }

(* Mutant: ORDER BY enqueued_at DESC.                                      *)
ReadyBatchesNewestFirst(table, before, debounced) ==
    LET ready == ReadyPaths(table, debounced)
    IN  { S \in SUBSET ready :
            /\ Cardinality(S) <= MaxJobs
            /\ Cardinality(S) = MaxJobs \/ S = ready
            /\ \A p \in S, q \in ready \ S : <<p, q>> \notin before }

(* ORDER BY enqueued_at LIMIT MaxJobs: no ready row is passed over for a   *)
(* later one.                                                              *)
ReadyBatches(table, before, debounced) ==
    LET ready == ReadyPaths(table, debounced)
    IN  { S \in SUBSET ready :
            /\ Cardinality(S) <= MaxJobs
            /\ Cardinality(S) = MaxJobs \/ S = ready
            /\ \A p \in S, q \in ready \ S : <<q, p>> \notin before }

(* Mutant: DELETE ... WHERE transcript_path = ?                            *)
AcknowledgesAnyRevision(table, p, revision) ==
    Present(table, p) /\ table[p].state = "pending"

(* acknowledge(): DELETE the revision that was processed, if it is still   *)
(* the current one and pending.                                            *)
Acknowledges(table, p, revision) ==
    Matches(table, p, revision) /\ table[p].state = "pending"

Delete(table, p) == [table EXCEPT ![p] = NoRow]

(* The row that mark_transient_failure() writes: failed after MaxAttempts, *)
(* else pending with a backoff to wait for.                                *)
Rescheduled(row, attempts) ==
    [row EXCEPT !.attempts = attempts,
                !.state    = IF attempts >= MaxAttempts THEN "failed" ELSE "pending",
                !.due      = attempts >= MaxAttempts]

(* Mutant: UPDATE ... WHERE transcript_path = ?, relying on the SELECT.    *)
UpdateTransientAnyRevision(table, p, revision, attempts) ==
    IF Present(table, p)
    THEN [table EXCEPT ![p] = Rescheduled(@, attempts)]
    ELSE table

(* The UPDATE of mark_transient_failure(): `attempts` was computed from a  *)
(* SELECT that ran before, outside the UPDATE's transaction.               *)
UpdateTransient(table, p, revision, attempts) ==
    IF Matches(table, p, revision)
    THEN [table EXCEPT ![p] = Rescheduled(@, attempts)]
    ELSE table

(* The row that mark_permanent_failure() writes.                           *)
Rejected(row) == [row EXCEPT !.attempts = @ + 1, !.state = "failed"]

(* The UPDATE of mark_permanent_failure().                                 *)
UpdatePermanent(table, p, revision) ==
    IF Matches(table, p, revision)
    THEN [table EXCEPT ![p] = Rejected(@)]
    ELSE table

-----------------------------------------------------------------------------
(* What the passing of wall-clock time does to a row.                      *)
DebounceElapsed(table, p) == [table EXCEPT ![p] = [@ EXCEPT !.settled = TRUE]]
BackoffElapsed(table, p)  == [table EXCEPT ![p] = [@ EXCEPT !.due = TRUE]]
=============================================================================
