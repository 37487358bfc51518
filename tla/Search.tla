--------------------------------- MODULE Search ---------------------------------
(***************************************************************************)
(* engine.py: a search over the chunks of a few sessions, from the request *)
(* through reranking and grouping by session to the routing that may make  *)
(* it search a second time.                                                *)
(*                                                                         *)
(* Scores are in percent.  How a chunk gets its score (embedding, keywords,*)
(* recency, importance, boosts) is left open: a search may find any few of *)
(* the chunks that pass its filters, in any order and with any scores.     *)
(* The collection holds the chunks of the sessions as they are.            *)
(***************************************************************************)
EXTENDS Chunker

CONSTANTS
    Sessions,     \* session ids, numbers in their order
    Project,      \* Project[s]: the project of session s
    NoProject,    \* the request names no project
    TurnKinds,    \* the turns that a session may add
    MaxLength,    \* bound: MaxLength[s] turns of session s
    Searched,     \* bound: the transcripts over which searches run
    Limits,       \* values of top_k
    MaxHits,      \* bound: chunks that one search finds
    Scores        \* scores of chunks before overlaps are penalised

ASSUME SessionAssumption ==
    /\ IsFiniteSet(Sessions) /\ Sessions \subseteq Nat
    /\ DOMAIN Project = Sessions
    /\ MaxLength \in [Sessions -> Nat]
    /\ NoProject \notin { Project[s] : s \in Sessions }
ASSUME KindAssumption ==
    TurnKinds \subseteq Turn /\ Searched \subseteq [Sessions -> Seq(Turn)]
ASSUME ScoreAssumption ==
    /\ Scores \subseteq 0 .. 100
    /\ Limits \subseteq Nat \ {0}
    /\ MaxHits \in Nat

VARIABLES
    turns,      \* turns[s]: the transcript of session s
    pc,         \* where the search is
    request,    \* project, mode and top_k of the request
    round,      \* which of the searches of search_with_routing() runs
    items,      \* the chunks found, with their scores so far
    boosted,    \* history: items before overlaps were penalised
    left,       \* left_index + 1
    right,      \* right_index + 1
    found,      \* the results of the search that ended last
    primary     \* the results of the first search

rerankVars == <<items, boosted, left, right>>
vars == <<turns, pc, request, round, rerankVars, found, primary>>

-----------------------------------------------------------------------------
HighScore == 70      \* _HIGH_SCORE_THRESHOLD
MediumScore == 55    \* _MEDIUM_SCORE_THRESHOLD
Penalty == 10

Score == 0 .. 100

Projects == { Project[s] : s \in Sessions }

Request == [project : Projects \cup {NoProject}, mode : BOOLEAN, topK : Limits]

NoRequest == [project |-> NoProject, mode |-> FALSE, topK |-> 0]

(* A SearchResult, without the chunks that it lists.                       *)
Result == [session : Sessions, score : Score]

TypeOK ==
    /\ turns \in [Sessions -> Seq(Turn)]
    /\ pc \in {"idle", "searching", "reranking", "routing", "answered"}
    /\ request \in Request \cup {NoRequest}
    /\ round \in {"primary", "decision", "expanded"}
    /\ Len(items) <= MaxHits
    /\ Len(boosted) = Len(items)
    /\ \A k \in DOMAIN items : items[k].score \in Score
    /\ left \in Nat /\ right \in Nat
    /\ found \subseteq Result /\ Cardinality(found) <= request.topK
    /\ primary \subseteq Result /\ Cardinality(primary) <= request.topK

Init ==
    /\ turns = [s \in Sessions |-> <<>>]
    /\ pc = "idle"
    /\ request = NoRequest
    /\ round = "primary"
    /\ items = <<>>
    /\ boosted = <<>>
    /\ left = 1
    /\ right = 2
    /\ found = {}
    /\ primary = {}

(* Sessions grow, and are ingested.                                        *)
SessionGrows(s) ==
    /\ Len(turns[s]) < MaxLength[s]
    /\ \E turn \in TurnKinds : turns' = [turns EXCEPT ![s] = Append(@, turn)]
    /\ pc = "idle" \/ turns' \in Searched
    /\ UNCHANGED <<pc, request, round, rerankVars, found, primary>>

Ask ==
    /\ pc = "idle"
    /\ turns \in Searched
    /\ request' \in Request
    /\ pc' = "searching"
    /\ UNCHANGED <<turns, round, rerankVars, found, primary>>

-----------------------------------------------------------------------------
(* SearchEngine.search()                                                   *)

(* The sessions that pass the project filter; it is off when expanded.     *)
InScope ==
    { s \in Sessions :
        \/ request.project = NoProject \/ round = "expanded"
        \/ Project[s] = request.project }

Candidates ==
    UNION { { [session |-> s, chunk |-> c] : c \in Chunks(turns[s]) } :
              s \in InScope }

(* Any few chunks, twice top_k at most, that are still in the collection   *)
(* and have at least _MIN_SCORE; their scores after boosting.              *)
FindHits ==
    /\ pc = "searching"
    /\ \E n \in 0 .. (IF MaxHits < 2 * request.topK THEN MaxHits
                                                   ELSE 2 * request.topK) :
       \E hit \in [1 .. n -> Candidates], score \in [1 .. n -> Scores] :
          /\ \A k, l \in 1 .. n : k # l => hit[k] # hit[l]
          /\ items' = [ k \in 1 .. n |-> [session |-> hit[k].session,
                                          chunk   |-> hit[k].chunk,
                                          score   |-> score[k]] ]
    /\ boosted' = items'
    /\ left' = 1
    /\ right' = 2
    /\ pc' = "reranking"
    /\ UNCHANGED <<turns, request, round, found, primary>>

TurnCount(chunk) == chunk.end - chunk.start + 1

(* _turn_overlap_ratio() of at least one half.                             *)
Overlaps(c, d) ==
    LET shared == Min({c.end, d.end}) - Max({c.start, d.start}) + 1
    IN  shared > 0 /\ 2 * shared >= Min({TurnCount(c), TurnCount(d)})

Reduced(score) == Max({score - Penalty, 0})

(* Mutant: the list is taken to be sorted already.                         *)
PenalisedRight(l, r) ==
    [items EXCEPT ![r].score = Reduced(@)]

(* The one of two overlapping chunks of a session that scores lower, the   *)
(* left one of equals, loses a tenth.                                      *)
Penalised(l, r) ==
    IF items[l].score <= items[r].score
    THEN [items EXCEPT ![l].score = Reduced(@)]
    ELSE [items EXCEPT ![r].score = Reduced(@)]

Clash(l, r) ==
    /\ items[l].session = items[r].session
    /\ Overlaps(items[l].chunk, items[r].chunk)

(* Mutant: only neighbours are compared.                                   *)
CompareNeighbours ==
    /\ pc = "reranking"
    /\ left < Len(items)
    /\ items' = IF Clash(left, right) THEN Penalised(left, right) ELSE items
    /\ left' = left + 1
    /\ right' = left + 2
    /\ UNCHANGED <<turns, pc, request, round, boosted, found, primary>>

(* One turn of the inner loop of _rerank().                                *)
Compare ==
    /\ pc = "reranking"
    /\ left < Len(items)
    /\ items' = IF Clash(left, right) THEN Penalised(left, right) ELSE items
    /\ IF right < Len(items)
       THEN right' = right + 1 /\ UNCHANGED left
       ELSE left' = left + 1 /\ right' = left + 2
    /\ UNCHANGED <<turns, pc, request, round, boosted, found, primary>>

(* The score of a session is that of its best chunk.                       *)
BestScore(list, s) ==
    Max({ list[k].score : k \in { l \in DOMAIN list : list[l].session = s } })

Grouped ==
    { [session |-> s, score |-> BestScore(items, s)] :
        s \in { items[k].session : k \in DOMAIN items } }

(* sort(key=lambda r: (-r.score, r.session_id))                            *)
Outranks(r, q) ==
    r.score > q.score \/ (r.score = q.score /\ r.session < q.session)

(* results[:top_k] of the sorted results.                                  *)
Top(results) ==
    { r \in results :
        Cardinality({ q \in results : Outranks(q, r) }) < request.topK }

(* Mutant: the results of a search are not cut.                            *)
GroupAll ==
    /\ pc = "reranking"
    /\ left >= Len(items)
    /\ found' = Grouped
    /\ items' = <<>> /\ boosted' = <<>> /\ left' = 1 /\ right' = 2
    /\ pc' = "routing"
    /\ UNCHANGED <<turns, request, round, primary>>

(* Results by session; nothing else is left of the search.                 *)
Group ==
    /\ pc = "reranking"
    /\ left >= Len(items)
    /\ found' = Top(Grouped)
    /\ items' = <<>> /\ boosted' = <<>> /\ left' = 1 /\ right' = 2
    /\ pc' = "routing"
    /\ UNCHANGED <<turns, request, round, primary>>

-----------------------------------------------------------------------------
(* search_with_routing()                                                   *)

TopScore == Max({ r.score : r \in found } \cup {0})

AnotherRound(kind) ==
    /\ pc = "routing" /\ round = "primary"
    /\ primary' = found
    /\ found' = {}
    /\ round' = kind
    /\ pc' = "searching"
    /\ UNCHANGED <<turns, request, rerankVars>>

(* MEDIUM: decisions are searched as well.                                 *)
AlsoDecisions ==
    /\ TopScore >= MediumScore /\ TopScore < HighScore /\ ~request.mode
    /\ AnotherRound("decision")

Weak == TopScore < MediumScore \/ (TopScore < HighScore /\ request.mode)

(* LOW: the project filter is dropped.                                     *)
Widen ==
    /\ Weak /\ request.project # NoProject
    /\ AnotherRound("expanded")

(* HIGH, or nothing else to try.                                           *)
ReturnPrimary ==
    /\ pc = "routing" /\ round = "primary"
    /\ TopScore >= HighScore \/ (Weak /\ request.project = NoProject)
    /\ primary' = found
    /\ pc' = "answered"
    /\ UNCHANGED <<turns, request, round, rerankVars, found>>

(* Mutant: the second search wins where both have a session.               *)
MergedExtraFirst ==
    Top(found \cup { r \in primary : \A q \in found : q.session # r.session })

(* _merge_by_session()                                                     *)
Merged ==
    Top(primary \cup { r \in found : \A q \in primary : q.session # r.session })

Merge ==
    /\ pc = "routing" /\ round # "primary"
    /\ found' = Merged
    /\ pc' = "answered"
    /\ UNCHANGED <<turns, request, round, rerankVars, primary>>

Forget ==
    /\ pc = "answered"
    /\ pc' = "idle"
    /\ request' = NoRequest
    /\ round' = "primary"
    /\ found' = {}
    /\ primary' = {}
    /\ UNCHANGED <<turns, rerankVars>>

Next ==
    \/ \E s \in Sessions : SessionGrows(s)
    \/ Ask \/ FindHits \/ Compare \/ Group
    \/ AlsoDecisions \/ Widen \/ ReturnPrimary \/ Merge \/ Forget

Spec == Init /\ [][Next]_vars

-----------------------------------------------------------------------------
(* Properties.                                                             *)

(* However a session's chunks overlap and in whatever order they are       *)
(* compared, its best chunk keeps its score: penalties for overlaps never  *)
(* change the order of the sessions, or what the routing decides.          *)
BestIsSpared ==
    \A s \in { items[k].session : k \in DOMAIN items } :
        BestScore(items, s) = BestScore(boosted, s)

(* Of two chunks of a session that overlap by half, at least one has been  *)
(* moved down when the reranking ends.                                     *)
OverlapsPenalised ==
    (pc = "reranking" /\ left >= Len(items)) =>
        \A l, r \in DOMAIN items :
            l # r /\ Clash(l, r) =>
                \E k \in {l, r} :
                    items[k].score < boosted[k].score \/ items[k].score = 0

(* A second search, of decisions or of all projects, never hides what the  *)
(* first one found: a session is left out only behind top_k others that    *)
(* score as high, and it keeps its score.                                  *)
RoutingHidesNothing ==
    pc = "answered" =>
        \A r \in primary :
            \/ r \in found
            \/ /\ Cardinality(found) = request.topK
               /\ \A q \in found : q.session # r.session /\ q.score >= r.score

(* A session that grows keeps the ids of its chunks: `wwt setup`, which    *)
(* upserts and never deletes, leaves no chunk behind that the grown        *)
(* session does not have.  (It sets their access counts back to 0.)        *)
GrowingKeepsIds ==
    [][ \A s \in Sessions : ChunkIds(turns[s]) \subseteq ChunkIds(turns'[s]) ]_turns

(* Overlapping windows leave nobody out: every long enough turn of the     *)
(* user can be found, the last one of the session too.                     *)
UserTurnsFound ==
    \A s \in Sessions : \A i \in 0 .. Len(turns[s]) - 1 :
        (/\ Len(turns[s]) >= MinTurns
         /\ TurnAt(turns[s], i).role = "user"
         /\ TurnAt(turns[s], i).chars >= MinChunkChars)
            => \E c \in SmallWindows(turns[s]) : c.start <= i /\ i <= c.end
=============================================================================
