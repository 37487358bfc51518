------------------------------ MODULE SearchProof ------------------------------
(***************************************************************************)
(* Proofs about Search and the chunker it searches the chunks of, for any  *)
(* number of sessions, turns, chunks found and results asked for: what the *)
(* reranking and the routing keep, and what the windows cover.             *)
(***************************************************************************)
EXTENDS Search, LeastNumbers

(* Results are by session: one result of each.                             *)
OnePerSession(results) ==
    \A r, q \in results : r.session = q.session => r = q

(* A chunk found; the chunk itself is of no matter here.                   *)
ItemsTyped(list) ==
    /\ DOMAIN list = 1 .. Len(list) /\ Len(list) \in Nat
    /\ list = [k \in DOMAIN list |-> list[k]]
    /\ \A k \in DOMAIN list :
          /\ list[k] = [session |-> list[k].session, chunk |-> list[k].chunk,
                        score   |-> list[k].score]
          /\ list[k].session \in Sessions /\ list[k].score \in Score

(* The penalties change scores only, and only move chunks down.            *)
OnlyMovedDown ==
    \A k \in DOMAIN items :
        /\ items[k].session = boosted[k].session
        /\ items[k].chunk = boosted[k].chunk
        /\ items[k].score <= boosted[k].score

(* The two loops of _rerank() compare each pair once.                      *)
InLoops ==
    /\ left \in Nat \ {0} /\ right \in Nat /\ left < right
    /\ left < Len(items) => right <= Len(items)

MovedDown(k) == items[k].score < boosted[k].score \/ items[k].score = 0

ComparedPenalised ==
    \A l, r \in DOMAIN items :
        (l < left \/ (l = left /\ r < right)) /\ l < r /\ Clash(l, r)
            => MovedDown(l) \/ MovedDown(r)

(* The chunks found.                                                       *)
ItemsInv ==
    /\ ItemsTyped(items) /\ ItemsTyped(boosted)
    /\ Len(items) <= MaxHits /\ Len(boosted) = Len(items)
    /\ OnlyMovedDown
    /\ InLoops
    /\ ComparedPenalised
    /\ BestIsSpared

(* The request, and the results of its searches so far.                    *)
ResultsInv ==
    /\ request \in Request \cup {NoRequest}
    /\ request = NoRequest <=> pc = "idle"
    /\ found \subseteq Result /\ Cardinality(found) <= request.topK
    /\ primary \subseteq Result /\ Cardinality(primary) <= request.topK
    /\ OnePerSession(found) /\ OnePerSession(primary)
    /\ RoutingHidesNothing

IInv ==
    /\ turns \in [Sessions -> Seq(Turn)]
    /\ pc \in {"idle", "searching", "reranking", "routing", "answered"}
    /\ round \in {"primary", "decision", "expanded"}
    /\ pc # "reranking" => items = <<>> /\ boosted = <<>> /\ left = 1 /\ right = 2
    /\ ItemsInv
    /\ ResultsInv

-----------------------------------------------------------------------------
(* Results in their order.                                                 *)
Above(results, r) == { q \in results : Outranks(q, r) }

LEMMA OutranksIsOrder ==
  ASSUME NEW R \in SUBSET Result, OnePerSession(R),
         NEW x \in R, NEW y \in R
  PROVE  /\ ~Outranks(x, x)
         /\ x # y => Outranks(x, y) \/ Outranks(y, x)
         /\ \A z \in R : Outranks(x, y) /\ Outranks(y, z) => Outranks(x, z)
         /\ Outranks(x, y) => x.score >= y.score
  <1>1. \A z \in R : z.score \in Score /\ z.session \in Sessions
    BY DEF Result
  <1>2. \A z \in R : z.score \in Nat /\ z.session \in Nat
    <2>1. Sessions \subseteq Nat /\ Score \subseteq Nat
      BY SessionAssumption DEF Score
    <2> QED
      BY <1>1, <2>1
  <1> QED
    BY <1>2 DEF Outranks, OnePerSession

(* Results of which there are some have a best one and a worst one.        *)
LEMMA BestAndWorst ==
  ASSUME NEW R \in SUBSET Result, OnePerSession(R),
         NEW S \in SUBSET R, IsFiniteSet(S), S # {}
  PROVE  /\ \E x \in S : \A y \in S : ~Outranks(y, x)
         /\ \E x \in S : \A y \in S : ~Outranks(x, y)
  <1> DEFINE A == { p \in S \X S : Outranks(p[1], p[2]) }
             B == { p \in S \X S : Outranks(p[2], p[1]) }
  <1>1. \A x, y \in S : /\ <<x, y>> \in A <=> Outranks(x, y)
                        /\ <<x, y>> \in B <=> Outranks(y, x)
    OBVIOUS
  <1>2. /\ \A x \in S : ~Outranks(x, x)
        /\ \A x, y, z \in S : Outranks(x, y) /\ Outranks(y, z) => Outranks(x, z)
    BY OutranksIsOrder
  <1> HIDE DEF A, B
  <1>3. /\ \A x \in S : <<x, x>> \notin A /\ <<x, x>> \notin B
        /\ \A x, y, z \in S : <<x, y>> \in A /\ <<y, z>> \in A => <<x, z>> \in A
        /\ \A x, y, z \in S : <<x, y>> \in B /\ <<y, z>> \in B => <<x, z>> \in B
    BY <1>1, <1>2
  <1>4. \E x \in S : \A y \in S : <<y, x>> \notin A
    BY <1>3, MinimalElement
  <1>5. \E x \in S : \A y \in S : <<y, x>> \notin B
    BY <1>3, MinimalElement
  <1> QED
    BY <1>1, <1>4, <1>5

(* results[:top_k] of the sorted list: at most top_k of the results, and   *)
(* whatever is cut off is behind top_k others.                             *)
LEMMA TopIsCut ==
  ASSUME NEW R \in SUBSET Result, IsFiniteSet(R), OnePerSession(R),
         request.topK \in Nat
  PROVE  /\ Top(R) \in SUBSET R /\ IsFiniteSet(Top(R)) /\ OnePerSession(Top(R))
         /\ Cardinality(Top(R)) <= request.topK
         /\ \A r \in R \ Top(R) :
               /\ Cardinality(Top(R)) = request.topK
               /\ \A q \in Top(R) : q.session # r.session /\ q.score >= r.score
  <1> DEFINE K == request.topK
  <1>1. Top(R) = { r \in R : Cardinality(Above(R, r)) < K }
    BY DEF Top, Above
  <1>2. /\ Top(R) \in SUBSET R /\ IsFiniteSet(Top(R)) /\ OnePerSession(Top(R))
        /\ Cardinality(Top(R)) \in Nat
    BY <1>1, FS_Subset, FS_CardinalityType DEF OnePerSession
  <1>3. \A r \in R : IsFiniteSet(Above(R, r)) /\ Cardinality(Above(R, r)) \in Nat
    BY FS_Subset, FS_CardinalityType DEF Above
  <1>4. Cardinality(Top(R)) <= K
    <2> SUFFICES ASSUME Cardinality(Top(R)) > K
                 PROVE  FALSE
      BY <1>2
    <2>1. Top(R) # {}
      BY <1>2, FS_EmptySet
    <2>2. PICK x \in Top(R) : \A y \in Top(R) : ~Outranks(x, y)
      BY <1>2, <2>1, BestAndWorst
    <2>3. \A y \in Top(R) \ {x} : y \in Above(R, x)
      BY <1>2, <2>2, OutranksIsOrder DEF Above
    <2>4. Cardinality(Top(R) \ {x}) = Cardinality(Top(R)) - 1
      BY <1>2, FS_RemoveElement
    <2>5. Cardinality(Top(R) \ {x}) <= Cardinality(Above(R, x))
      BY <1>2, <1>3, <2>3, FS_Subset
    <2>6. Cardinality(Above(R, x)) < K
      BY <1>1
    <2> QED
      BY <1>2, <1>3, <2>4, <2>5, <2>6
  <1>5. ASSUME NEW r \in R \ Top(R)
        PROVE  Cardinality(Top(R)) >= K
    <2>1. IsFiniteSet(R \ Top(R))
      BY FS_Subset
    <2>2. PICK x \in R \ Top(R) : \A y \in R \ Top(R) : ~Outranks(y, x)
      BY <1>5, <2>1, BestAndWorst
    <2>3. Above(R, x) \in SUBSET Top(R)
      BY <2>2 DEF Above
    <2>4. Cardinality(Above(R, x)) <= Cardinality(Top(R))
      BY <1>2, <2>3, FS_Subset
    <2>5. Cardinality(Above(R, x)) >= K
      BY <1>1, <1>3
    <2> QED
      BY <1>2, <1>3, <2>4, <2>5
  <1>6. ASSUME NEW r \in R \ Top(R), NEW q \in Top(R)
        PROVE  q.session # r.session /\ q.score >= r.score
    <2>1. q \in R /\ q # r
      BY <1>2
    <2>2. ~Outranks(r, q)
      <3> SUFFICES ASSUME Outranks(r, q)
                   PROVE  FALSE
        OBVIOUS
      <3>1. Above(R, r) \in SUBSET Above(R, q)
        BY <2>1, OutranksIsOrder DEF Above
      <3>2. Cardinality(Above(R, r)) <= Cardinality(Above(R, q))
        BY <1>3, <2>1, <3>1, FS_Subset
      <3> QED
        BY <1>1, <1>3, <2>1, <3>2
    <2> QED
      BY <2>1, <2>2, OutranksIsOrder DEF OnePerSession
  <1> QED
    BY <1>2, <1>4, <1>5, <1>6

-----------------------------------------------------------------------------
(* Reranking.                                                              *)
LEMMA ListLength ==
  ASSUME NEW n \in Nat, NEW f, f = [k \in 1 .. n |-> f[k]]
  PROVE  Len(f) = n /\ DOMAIN f = 1 .. n
  <1> DEFINE V == { f[k] : k \in 1 .. n }
  <1>1. f \in [1 .. n -> V]
    OBVIOUS
  <1>2. f \in Seq(V)
    <2> HIDE DEF V
    <2> QED
      BY <1>1
  <1>3. Len(f) \in Nat /\ DOMAIN f = 1 .. Len(f) /\ DOMAIN f = 1 .. n
    <2> HIDE DEF V
    <2> QED
      BY <1>1, <1>2
  <1> QED
    BY <1>3

(* Overlapping is mutual.                                                  *)
LEMMA ClashIsMutual ==
  ASSUME NEW l, NEW r, Clash(l, r)
  PROVE  Clash(r, l)
  <1>1. ASSUME NEW c, NEW d, Overlaps(c, d)
        PROVE  Overlaps(d, c)
    <2>1. /\ {c.end, d.end} = {d.end, c.end} /\ {c.start, d.start} = {d.start, c.start}
          /\ {TurnCount(c), TurnCount(d)} = {TurnCount(d), TurnCount(c)}
      OBVIOUS
    <2> QED
      BY <1>1, <2>1 DEF Overlaps
  <1> QED
    BY <1>1 DEF Clash

LEMMA ReducedIsLess ==
  ASSUME NEW score \in Score
  PROVE  /\ Reduced(score) \in Score /\ Reduced(score) <= score
         /\ Reduced(score) < score \/ Reduced(score) = 0
  <1>1. {score - Penalty, 0} # {}
    OBVIOUS
  <1>2. Reduced(score) = IF score - Penalty >= 0 THEN score - Penalty ELSE 0
    BY DEF Reduced, Max, Penalty, Score
  <1> QED
    BY <1>2 DEF Penalty, Score

(* The score of the best chunk of s, and what characterises it.            *)
OfSession(list, s) == { k \in DOMAIN list : list[k].session = s }

LEMMA BestScoreIsReached ==
  ASSUME NEW list, ItemsTyped(list), NEW s, OfSession(list, s) # {}
  PROVE  /\ BestScore(list, s) \in Score
         /\ \E k \in OfSession(list, s) : list[k].score = BestScore(list, s)
         /\ \A k \in OfSession(list, s) : list[k].score <= BestScore(list, s)
  <1> DEFINE S == { list[k].score : k \in OfSession(list, s) }
  <1>1. S \in SUBSET (0 .. 100) /\ S # {}
    <2>1. \A k \in OfSession(list, s) : list[k].score \in 0 .. 100
      BY DEF ItemsTyped, OfSession, Score
    <2> QED
      BY <2>1
  <1>2. BestScore(list, s) = Max(S)
    BY DEF BestScore, OfSession
  <1>3. Max(S) \in S /\ \A m \in S : m <= Max(S)
    <2> HIDE DEF S
    <2> QED
      BY <1>1, MaxIsGreatest
  <1> QED
    BY <1>1, <1>2, <1>3 DEF Score

LEMMA BestScoreIs ==
  ASSUME NEW list, ItemsTyped(list), NEW s, NEW best \in Score,
         \E k \in OfSession(list, s) : list[k].score = best,
         \A k \in OfSession(list, s) : list[k].score <= best
  PROVE  BestScore(list, s) = best
  <1>1. /\ BestScore(list, s) \in Score
        /\ \E k \in OfSession(list, s) : list[k].score = BestScore(list, s)
        /\ \A k \in OfSession(list, s) : list[k].score <= BestScore(list, s)
    BY BestScoreIsReached
  <1> QED
    BY <1>1 DEF Score

(* A penalty moves down one chunk, which has a better one or an equal one  *)
(* of its session beside it.                                               *)
LEMMA PenaltySpares ==
  ASSUME ItemsTyped(items), NEW l \in DOMAIN items, NEW r \in DOMAIN items,
         l # r, Clash(l, r), NEW new, new = Penalised(l, r)
  PROVE  /\ ItemsTyped(new) /\ Len(new) = Len(items)
         /\ \A k \in DOMAIN items :
               /\ new[k].session = items[k].session
               /\ new[k].chunk = items[k].chunk
               /\ new[k].score <= items[k].score
         /\ \E k \in {l, r} : new[k].score < items[k].score \/ new[k].score = 0
         /\ \A s : OfSession(items, s) # {} => BestScore(new, s) = BestScore(items, s)
  <1>1. PICK k \in {l, r}, m \in {l, r} :
           /\ k # m /\ items[k].score <= items[m].score
           /\ new = [items EXCEPT ![k].score = Reduced(items[k].score)]
    <2>1. items[l].score \in Score /\ items[r].score \in Score
      BY DEF ItemsTyped
    <2>2. items[l].score <= items[r].score \/ items[r].score <= items[l].score
      BY <2>1 DEF Score
    <2> QED
      BY <2>2 DEF Penalised
  <1>2. items[k].session = items[m].session /\ k \in DOMAIN items /\ m \in DOMAIN items
    BY <1>1 DEF Clash
  <1>3. /\ Reduced(items[k].score) \in Score /\ Reduced(items[k].score) <= items[k].score
        /\ Reduced(items[k].score) < items[k].score \/ Reduced(items[k].score) = 0
    BY <1>2, ReducedIsLess DEF ItemsTyped
  <1>4. /\ DOMAIN new = DOMAIN items
        /\ \A i \in DOMAIN items : i # k => new[i] = items[i]
        /\ new[k] = [items[k] EXCEPT !.score = Reduced(items[k].score)]
        /\ new = [i \in DOMAIN items |-> new[i]]
    BY <1>1, <1>2
  <1>5. new[k] = [session |-> items[k].session, chunk |-> items[k].chunk,
                  score   |-> Reduced(items[k].score)]
    BY <1>2, <1>4 DEF ItemsTyped
  <1>6. Len(new) = Len(items)
    BY <1>4, ListLength DEF ItemsTyped
  <1>7. ItemsTyped(new)
    BY <1>2, <1>3, <1>4, <1>5, <1>6 DEF ItemsTyped
  <1>8. \A i \in DOMAIN items :
           /\ new[i].session = items[i].session
           /\ new[i].chunk = items[i].chunk
           /\ new[i].score <= items[i].score
    <2> SUFFICES ASSUME NEW i \in DOMAIN items
                 PROVE  /\ new[i].session = items[i].session
                        /\ new[i].chunk = items[i].chunk
                        /\ new[i].score <= items[i].score
      OBVIOUS
    <2>1. CASE i = k
      BY <2>1, <1>3, <1>5
    <2>2. CASE i # k
      <3>1. items[i].score \in Score
        BY DEF ItemsTyped
      <3> QED
        BY <2>2, <3>1, <1>4 DEF Score
    <2> QED
      BY <2>1, <2>2
  <1>9. ASSUME NEW s, OfSession(items, s) # {}
        PROVE  BestScore(new, s) = BestScore(items, s)
    <2> DEFINE best == BestScore(items, s)
    <2>1. /\ best \in Score /\ \E i \in OfSession(items, s) : items[i].score = best
          /\ \A i \in OfSession(items, s) : items[i].score <= best
      BY <1>9, BestScoreIsReached
    <2>2. OfSession(new, s) = OfSession(items, s)
      BY <1>4, <1>8 DEF OfSession
    <2> HIDE DEF best
    <2>3. \A i \in OfSession(items, s) :
             /\ i \in DOMAIN items /\ items[i].score \in Score /\ new[i].score \in Score
             /\ new[i].score <= items[i].score
      BY <1>4, <1>7, <1>8 DEF OfSession, ItemsTyped
    <2>4. \A i \in OfSession(items, s) : new[i].score <= best
      <3>1. \A x, y, z \in Score : x <= y /\ y <= z => x <= z
        BY DEF Score
      <3> QED
        BY <2>1, <2>3, <3>1
    <2>5. PICK i \in OfSession(items, s) : items[i].score = best
      BY <2>1
    <2>6. \E j \in OfSession(items, s) : new[j].score = best
      <3>1. CASE i # k
        BY <3>1, <1>4, <2>5 DEF OfSession
      <3>2. CASE i = k
        <4>1. m \in OfSession(items, s)
          BY <3>2, <1>2, <2>5 DEF OfSession
        <4>2. items[m].score = best
          BY <3>2, <4>1, <1>1, <2>1, <2>3, <2>5 DEF Score
        <4> QED
          BY <4>1, <4>2, <1>1, <1>2, <1>4
      <3> QED
        BY <3>1, <3>2
    <2> QED
      BY <1>7, <2>1, <2>2, <2>4, <2>6, BestScoreIs DEF best
  <1>10. new[k].score < items[k].score \/ new[k].score = 0
    BY <1>3, <1>5
  <1> QED
    BY <1>1, <1>6, <1>7, <1>8, <1>9, <1>10

-----------------------------------------------------------------------------
(* The steps of a search.                                                  *)
LEMMA ResultsFinite ==
  ASSUME NEW R \in SUBSET Result, OnePerSession(R)
  PROVE  IsFiniteSet(R) /\ Cardinality(R) \in Nat
  <1> DEFINE f == [r \in R |-> r.session]
  <1>1. f \in [R -> Sessions] /\ \A r \in R : f[r] = r.session
    BY DEF Result
  <1>2. f \in Injection(R, Sessions)
    <2> HIDE DEF f
    <2> QED
      BY <1>1 DEF Injection, IsInjective, OnePerSession
  <1> QED
    BY <1>2, FS_Injection, FS_CardinalityType, SessionAssumption

LEMMA TopKType ==
  ASSUME request \in Request \cup {NoRequest}
  PROVE  request.topK \in Nat
  <1>1. Limits \subseteq Nat
    BY ScoreAssumption
  <1>2. CASE request \in Request
    BY <1>1, <1>2 DEF Request
  <1>3. CASE request = NoRequest
    BY <1>3 DEF NoRequest
  <1> QED
    BY <1>2, <1>3

LEMMA ItemsStay ==
  ASSUME ItemsInv, UNCHANGED rerankVars
  PROVE  ItemsInv'
  BY DEF ItemsInv, rerankVars, ItemsTyped, OnlyMovedDown, InLoops, ComparedPenalised,
         BestIsSpared, Clash, MovedDown

LEMMA NoItems ==
  ASSUME items = <<>>, boosted = <<>>, left = 1, right = 2
  PROVE  ItemsInv
  <1>1. Len(<<>>) = 0 /\ DOMAIN <<>> = {} /\ 0 <= MaxHits
    BY ScoreAssumption
  <1> QED
    BY <1>1 DEF ItemsInv, ItemsTyped, OnlyMovedDown, InLoops, ComparedPenalised, BestIsSpared

LEMMA NoItemsLeft ==
  ASSUME items' = <<>>, boosted' = <<>>, left' = 1, right' = 2
  PROVE  ItemsInv'
  <1>1. Len(<<>>) = 0 /\ DOMAIN <<>> = {} /\ 0 <= MaxHits
    BY ScoreAssumption
  <1> QED
    BY <1>1 DEF ItemsInv, ItemsTyped, OnlyMovedDown, InLoops, ComparedPenalised, BestIsSpared

LEMMA InitIInv == Init => IInv
  <1> SUFFICES ASSUME Init
               PROVE  IInv
    OBVIOUS
  <1>1. ItemsInv
    BY NoItems DEF Init
  <1>2. Cardinality({}) = 0 /\ 0 <= NoRequest.topK
    BY FS_EmptySet DEF NoRequest
  <1>3. ResultsInv
    BY <1>2 DEF Init, ResultsInv, OnePerSession, RoutingHidesNothing
  <1>4. turns \in [Sessions -> Seq(Turn)]
    BY DEF Init
  <1> QED
    BY <1>1, <1>3, <1>4 DEF Init, IInv

LEMMA IInvIsTyped == IInv => TypeOK
  <1> SUFFICES ASSUME IInv
               PROVE  TypeOK
    OBVIOUS
  <1>1. \A k \in DOMAIN items : items[k].score \in Score
    BY DEF IInv, ItemsInv, ItemsTyped
  <1> QED
    BY <1>1 DEF IInv, TypeOK, ItemsInv, ItemsTyped, InLoops, ResultsInv

(* Sessions that grow are none of the search's business.                   *)
LEMMA SessionGrowsKeeps ==
  ASSUME IInv, NEW s \in Sessions, SessionGrows(s)
  PROVE  IInv'
  <1>1. ItemsInv'
    BY ItemsStay DEF IInv, SessionGrows
  <1>2. turns' \in [Sessions -> Seq(Turn)]
    <2>1. PICK turn \in TurnKinds : turns' = [turns EXCEPT ![s] = Append(turns[s], turn)]
      BY DEF SessionGrows
    <2>2. turn \in Turn
      BY KindAssumption
    <2>3. Append(turns[s], turn) \in Seq(Turn)
      BY <2>2 DEF IInv
    <2> QED
      BY <2>1, <2>3 DEF IInv
  <1>3. ResultsInv'
    BY DEF IInv, ResultsInv, SessionGrows, OnePerSession, RoutingHidesNothing
  <1> QED
    BY <1>1, <1>2, <1>3 DEF IInv, SessionGrows, rerankVars

LEMMA AskKeeps ==
  ASSUME IInv, Ask
  PROVE  IInv'
  <1>1. ItemsInv'
    BY ItemsStay DEF IInv, Ask
  <1>2. request = NoRequest /\ NoRequest.topK = 0
    BY DEF IInv, ResultsInv, Ask, NoRequest
  <1>3. request' \in Request /\ request'.topK \in Nat \ {0}
    BY ScoreAssumption DEF Ask, Request
  <1>4. Cardinality(found) \in Nat /\ Cardinality(primary) \in Nat
    BY ResultsFinite DEF IInv, ResultsInv
  <1>5. ResultsInv'
    BY <1>2, <1>3, <1>4 DEF IInv, ResultsInv, Ask, OnePerSession, RoutingHidesNothing
  <1> QED
    BY <1>1, <1>5 DEF IInv, Ask, rerankVars

LEMMA FindHitsKeeps ==
  ASSUME IInv, FindHits
  PROVE  IInv'
  <1>1. PICK n \in 0 .. MaxHits : \E hit \in [1 .. n -> Candidates], score \in [1 .. n -> Scores] :
           items' = [ k \in 1 .. n |-> [session |-> hit[k].session,
                                        chunk   |-> hit[k].chunk,
                                        score   |-> score[k]] ]
    <2>1. PICK n \in 0 .. (IF MaxHits < 2 * request.topK THEN MaxHits ELSE 2 * request.topK) :
            \E hit \in [1 .. n -> Candidates], score \in [1 .. n -> Scores] :
               items' = [ k \in 1 .. n |-> [session |-> hit[k].session,
                                            chunk   |-> hit[k].chunk,
                                            score   |-> score[k]] ]
      BY DEF FindHits
    <2>2. n \in 0 .. MaxHits
      BY TopKType, ScoreAssumption DEF IInv, ResultsInv
    <2> QED
      BY <2>1, <2>2
  <1>2. PICK hit \in [1 .. n -> Candidates], score \in [1 .. n -> Scores] :
           items' = [ k \in 1 .. n |-> [session |-> hit[k].session,
                                        chunk   |-> hit[k].chunk,
                                        score   |-> score[k]] ]
    BY <1>1
  <1>3. \A h \in Candidates : h.session \in Sessions
    BY DEF Candidates, InScope
  <1>4. n \in Nat /\ n <= MaxHits /\ Scores \subseteq Score
    BY ScoreAssumption DEF Score
  <1>5. DOMAIN items' = 1 .. n /\ Len(items') = n
    BY <1>2, <1>4, ListLength
  <1>6. ItemsTyped(items)'
    <2>1. \A k \in 1 .. n : /\ items'[k].session = hit[k].session
                             /\ items'[k].chunk = hit[k].chunk
                             /\ items'[k].score = score[k]
      BY <1>2
    <2>2. \A k \in 1 .. n : hit[k].session \in Sessions /\ score[k] \in Score
      BY <1>3, <1>4
    <2> QED
      BY <1>2, <1>4, <1>5, <2>1, <2>2 DEF ItemsTyped
  <1>7. boosted' = items' /\ left' = 1 /\ right' = 2
    BY DEF FindHits
  <1>8. ItemsTyped(boosted)'
    BY <1>6, <1>7 DEF ItemsTyped
  <1>9. OnlyMovedDown' /\ BestIsSpared'
    <2>1. \A k \in DOMAIN items' : items'[k].score \in Score
      BY <1>6 DEF ItemsTyped
    <2>2. \A x \in Score : x <= x
      BY DEF Score
    <2> QED
      BY <1>7, <2>1, <2>2 DEF OnlyMovedDown, BestIsSpared
  <1>10. InLoops' /\ ComparedPenalised'
    BY <1>5, <1>7 DEF InLoops, ComparedPenalised
  <1>11. ItemsInv'
    BY <1>4, <1>5, <1>6, <1>7, <1>8, <1>9, <1>10 DEF ItemsInv
  <1>12. ResultsInv'
    BY DEF IInv, ResultsInv, FindHits, OnePerSession, RoutingHidesNothing
  <1> QED
    BY <1>11, <1>12 DEF IInv, FindHits

LEMMA CompareKeeps ==
  ASSUME IInv, Compare
  PROVE  IInv'
  <1>1. /\ ItemsTyped(items) /\ ItemsTyped(boosted) /\ OnlyMovedDown /\ InLoops
        /\ ComparedPenalised /\ BestIsSpared
        /\ Len(items) <= MaxHits /\ Len(boosted) = Len(items)
    BY DEF IInv, ItemsInv
  <1>2. /\ left < Len(items) /\ boosted' = boosted
        /\ items' = IF Clash(left, right) THEN Penalised(left, right) ELSE items
        /\ IF right < Len(items)
           THEN right' = right + 1 /\ left' = left
           ELSE left' = left + 1 /\ right' = left + 2
    BY DEF Compare
  <1>3. Len(items) \in Nat /\ DOMAIN items = 1 .. Len(items) /\ DOMAIN boosted = DOMAIN items
    BY <1>1 DEF ItemsTyped
  <1>4. left \in DOMAIN items /\ right \in DOMAIN items /\ left < right
    BY <1>1, <1>2, <1>3 DEF InLoops
  <1>5. /\ ItemsTyped(items') /\ Len(items') = Len(items) /\ DOMAIN items' = DOMAIN items
        /\ \A k \in DOMAIN items :
              /\ items'[k].session = items[k].session
              /\ items'[k].chunk = items[k].chunk
              /\ items'[k].score <= items[k].score
        /\ \A s : OfSession(items, s) # {} => BestScore(items', s) = BestScore(items, s)
        /\ Clash(left, right) =>
              \E k \in {left, right} : items'[k].score < items[k].score \/ items'[k].score = 0
    <2>1. CASE Clash(left, right)
      <3>1. left # right
        BY <1>3, <1>4
      <3>2. items' = Penalised(left, right)
        BY <1>2, <2>1
      <3>3. ItemsTyped(items') /\ Len(items') = Len(items)
        BY <1>1, <1>4, <2>1, <3>1, <3>2, PenaltySpares
      <3>4. DOMAIN items' = DOMAIN items
        BY <1>3, <3>3 DEF ItemsTyped
      <3> QED
        BY <1>1, <1>4, <2>1, <3>1, <3>2, <3>3, <3>4, PenaltySpares
    <2>2. CASE ~Clash(left, right)
      <3>1. \A k \in DOMAIN items : items[k].score \in Score
        BY <1>1 DEF ItemsTyped
      <3>2. \A x \in Score : x <= x
        BY DEF Score
      <3> QED
        BY <1>1, <1>2, <2>2, <3>1, <3>2
    <2> QED
      BY <2>1, <2>2
  <1>6. \A k \in DOMAIN items :
           items'[k].score \in Score /\ items[k].score \in Score /\ boosted[k].score \in Score
    BY <1>1, <1>3, <1>5 DEF ItemsTyped
  <1>7. OnlyMovedDown'
    <2>1. \A x, y, z \in Score : x <= y /\ y <= z => x <= z
      BY DEF Score
    <2> QED
      BY <1>1, <1>2, <1>3, <1>5, <1>6, <2>1 DEF OnlyMovedDown
  <1>8. InLoops'
    BY <1>1, <1>2, <1>3, <1>4, <1>5 DEF InLoops
  <1>9. BestIsSpared'
    <2>1. \A s \in { items[k].session : k \in DOMAIN items } : OfSession(items, s) # {}
      BY DEF OfSession
    <2>2. { items'[k].session : k \in DOMAIN items' } = { items[k].session : k \in DOMAIN items }
      BY <1>5
    <2>3. \A s \in { items[k].session : k \in DOMAIN items } :
             BestScore(items', s) = BestScore(boosted, s)
      BY <1>1, <1>5, <2>1 DEF BestIsSpared
    <2> QED
      BY <1>2, <2>2, <2>3 DEF BestIsSpared
  <1>10. \A k \in DOMAIN items : MovedDown(k) => MovedDown(k)'
    <2>1. \A x, y, z \in Score : /\ x <= y /\ y < z => x < z
                                 /\ x <= y /\ y = 0 => x = 0
      BY DEF Score
    <2> QED
      BY <1>2, <1>5, <1>6, <2>1 DEF MovedDown
  <1>11. ASSUME NEW l \in DOMAIN items, NEW r \in DOMAIN items,
                l = left, r = right, Clash(l, r)
         PROVE  MovedDown(l)' \/ MovedDown(r)'
    <2>1. \A x, y, z \in Score : x < y /\ y <= z => x < z
      BY DEF Score
    <2>2. \A k \in DOMAIN items : items[k].score <= boosted[k].score
      BY <1>1 DEF OnlyMovedDown
    <2>3. ASSUME NEW k \in DOMAIN items,
                 items'[k].score < items[k].score \/ items'[k].score = 0
          PROVE  MovedDown(k)'
      BY <1>2, <1>6, <2>1, <2>2, <2>3 DEF MovedDown
    <2>4. PICK k \in {l, r} : items'[k].score < items[k].score \/ items'[k].score = 0
      BY <1>5, <1>11
    <2> QED
      BY <2>3, <2>4
  <1>12. ComparedPenalised'
    <2> SUFFICES ASSUME NEW l \in DOMAIN items, NEW r \in DOMAIN items, l < r, Clash(l, r),
                        l < left' \/ (l = left' /\ r < right')
                 PROVE  MovedDown(l)' \/ MovedDown(r)'
      BY <1>5 DEF ComparedPenalised, Clash
    <2>1. l < left \/ (l = left /\ r < right) \/ (l = left /\ r = right)
      BY <1>2, <1>3, <1>4
    <2>2. CASE l = left /\ r = right
      BY <2>2, <1>11
    <2>3. CASE l < left \/ (l = left /\ r < right)
      <3>1. MovedDown(l) \/ MovedDown(r)
        BY <1>1, <2>3 DEF ComparedPenalised
      <3> QED
        BY <1>10, <3>1
    <2> QED
      BY <2>1, <2>2, <2>3
  <1>13. ItemsInv'
    BY <1>1, <1>2, <1>5, <1>7, <1>8, <1>9, <1>12 DEF ItemsInv, ItemsTyped
  <1>14. ResultsInv'
    BY DEF IInv, ResultsInv, Compare, OnePerSession, RoutingHidesNothing
  <1> QED
    BY <1>13, <1>14 DEF IInv, Compare

LEMMA GroupKeeps ==
  ASSUME IInv, Group
  PROVE  IInv'
  <1>1. ItemsInv'
    BY NoItemsLeft DEF Group
  <1>2. Grouped \in SUBSET Result /\ OnePerSession(Grouped)
    <2>1. ItemsTyped(items)
      BY DEF IInv, ItemsInv
    <2>2. \A s \in { items[k].session : k \in DOMAIN items } :
             s \in Sessions /\ OfSession(items, s) # {}
      BY <2>1 DEF ItemsTyped, OfSession
    <2>3. \A s \in { items[k].session : k \in DOMAIN items } :
             s \in Sessions /\ BestScore(items, s) \in Score
      BY <2>1, <2>2, BestScoreIsReached
    <2> QED
      BY <2>3 DEF Grouped, Result, OnePerSession
  <1>3. request.topK \in Nat
    BY TopKType DEF IInv, ResultsInv
  <1>4. /\ Top(Grouped) \in SUBSET Grouped /\ OnePerSession(Top(Grouped))
        /\ Cardinality(Top(Grouped)) <= request.topK
    BY <1>2, <1>3, ResultsFinite, TopIsCut
  <1>5. ResultsInv'
    BY <1>2, <1>4 DEF IInv, ResultsInv, Group, OnePerSession, RoutingHidesNothing
  <1> QED
    BY <1>1, <1>5 DEF IInv, Group

LEMMA AnotherRoundKeeps ==
  ASSUME IInv, NEW kind \in {"decision", "expanded"}, AnotherRound(kind)
  PROVE  IInv'
  <1>1. ItemsInv'
    BY ItemsStay DEF IInv, AnotherRound
  <1>2. Cardinality({}) = 0 /\ request.topK \in Nat
    BY FS_EmptySet, TopKType DEF IInv, ResultsInv
  <1>3. ResultsInv'
    BY <1>2 DEF IInv, ResultsInv, AnotherRound, OnePerSession, RoutingHidesNothing
  <1> QED
    BY <1>1, <1>3 DEF IInv, AnotherRound, rerankVars

LEMMA ReturnPrimaryKeeps ==
  ASSUME IInv, ReturnPrimary
  PROVE  IInv'
  <1>1. ItemsInv'
    BY ItemsStay DEF IInv, ReturnPrimary
  <1>2. ResultsInv'
    BY DEF IInv, ResultsInv, ReturnPrimary, OnePerSession, RoutingHidesNothing
  <1> QED
    BY <1>1, <1>2 DEF IInv, ReturnPrimary, rerankVars

LEMMA MergeKeeps ==
  ASSUME IInv, Merge
  PROVE  IInv'
  <1> DEFINE both == primary \cup { r \in found : \A q \in primary : q.session # r.session }
  <1>1. ItemsInv'
    BY ItemsStay DEF IInv, Merge
  <1>2. /\ both \in SUBSET Result /\ OnePerSession(both) /\ primary \subseteq both
        /\ request.topK \in Nat
    BY TopKType DEF IInv, ResultsInv, OnePerSession
  <1>3. found' = Top(both)
    BY DEF Merge, Merged
  <1> HIDE DEF both
  <1>4. IsFiniteSet(both)
    BY <1>2, ResultsFinite
  <1>5. /\ found' \in SUBSET both /\ OnePerSession(found)'
        /\ Cardinality(found') <= request.topK
        /\ \A r \in both \ found' :
              /\ Cardinality(found') = request.topK
              /\ \A q \in found' : q.session # r.session /\ q.score >= r.score
    BY <1>2, <1>3, <1>4, TopIsCut DEF OnePerSession
  <1>6. RoutingHidesNothing'
    BY <1>2, <1>5 DEF RoutingHidesNothing, Merge
  <1>7. ResultsInv'
    BY <1>2, <1>5, <1>6 DEF IInv, ResultsInv, Merge, OnePerSession
  <1> QED
    BY <1>1, <1>7 DEF IInv, Merge, rerankVars

LEMMA ForgetKeeps ==
  ASSUME IInv, Forget
  PROVE  IInv'
  <1>1. ItemsInv'
    BY ItemsStay DEF IInv, Forget
  <1>2. Cardinality({}) = 0 /\ NoRequest.topK = 0
    BY FS_EmptySet DEF NoRequest
  <1>3. ResultsInv'
    BY <1>2 DEF IInv, ResultsInv, Forget, OnePerSession, RoutingHidesNothing
  <1> QED
    BY <1>1, <1>3 DEF IInv, Forget, rerankVars

LEMMA NextKeepsIInv == IInv /\ [Next]_vars => IInv'
  <1> SUFFICES ASSUME IInv, [Next]_vars
               PROVE  IInv'
    OBVIOUS
  <1>1. CASE UNCHANGED vars
    <2>1. ItemsInv'
      BY <1>1, ItemsStay DEF IInv, vars, rerankVars
    <2> QED
      BY <1>1, <2>1 DEF IInv, vars, rerankVars, ResultsInv, OnePerSession,
                        RoutingHidesNothing
  <1>2. CASE Next
    <2>1. ASSUME NEW s \in Sessions, SessionGrows(s) PROVE IInv'
      BY <2>1, SessionGrowsKeeps
    <2>2. CASE AlsoDecisions
      BY <2>2, AnotherRoundKeeps DEF AlsoDecisions
    <2>3. CASE Widen
      BY <2>3, AnotherRoundKeeps DEF Widen
    <2> QED
      BY <1>2, <2>1, <2>2, <2>3, AskKeeps, FindHitsKeeps, CompareKeeps, GroupKeeps,
         ReturnPrimaryKeeps, MergeKeeps, ForgetKeeps DEF Next
  <1> QED
    BY <1>1, <1>2

(* The inductive invariant of a search: the penalties handed out so far    *)
(* have moved down one chunk of each pair compared that overlaps, and no   *)
(* session's best; results are one per session and at most top_k.          *)
THEOREM InductiveInvariant == Spec => []IInv
  BY InitIInv, NextKeepsIInv, PTL DEF Spec

(* The variables of a search keep their types, and no search or merge      *)
(* returns more than top_k results.                                        *)
THEOREM TypeCorrect == Spec => []TypeOK
  BY IInvIsTyped, InductiveInvariant, PTL

(* However a session's chunks overlap and in whatever order _rerank()      *)
(* compares them, its best chunk keeps its score.                          *)
THEOREM BestAreSpared == Spec => []BestIsSpared
  <1>1. IInv => BestIsSpared
    BY DEF IInv, ItemsInv
  <1> QED
    BY <1>1, InductiveInvariant, PTL

(* When _rerank() is done, of any two chunks of a session that overlap by  *)
(* half at least one has been moved down, though scores change as it goes. *)
THEOREM OverlapsArePenalised == Spec => []OverlapsPenalised
  <1>1. ASSUME IInv, pc = "reranking", left >= Len(items),
               NEW l \in DOMAIN items, NEW r \in DOMAIN items, l # r, Clash(l, r)
        PROVE  MovedDown(l) \/ MovedDown(r)
    <2>1. Len(items) \in Nat /\ DOMAIN items = 1 .. Len(items) /\ left \in Nat /\ right \in Nat
      BY <1>1 DEF IInv, ItemsInv, ItemsTyped, InLoops
    <2>2. ComparedPenalised
      BY <1>1 DEF IInv, ItemsInv
    <2>3. CASE l < r
      <3>1. l < left
        BY <1>1, <2>1, <2>3
      <3> QED
        BY <1>1, <2>2, <2>3, <3>1 DEF ComparedPenalised
    <2>4. CASE r < l
      <3>1. r < left /\ Clash(r, l)
        BY <1>1, <2>1, <2>4, ClashIsMutual
      <3> QED
        BY <1>1, <2>2, <2>4, <3>1 DEF ComparedPenalised
    <2> QED
      BY <1>1, <2>1, <2>3, <2>4
  <1>2. IInv => OverlapsPenalised
    BY <1>1 DEF OverlapsPenalised, MovedDown
  <1> QED
    BY <1>2, InductiveInvariant, PTL

(* The second search of search_with_routing() hides nothing that the first *)
(* one found: what is left out is behind top_k others of other sessions    *)
(* that score as high.                                                     *)
THEOREM RoutingHides == Spec => []RoutingHidesNothing
  <1>1. IInv => RoutingHidesNothing
    BY DEF IInv, ResultsInv
  <1> QED
    BY <1>1, InductiveInvariant, PTL

-----------------------------------------------------------------------------
(* The length of a chunk's text, a sum over the turns of a batch.          *)
Chars(t, batch) == MapThenSumSet(LAMBDA i : TurnAt(t, i).chars, batch)

Any(S) == CHOOSE x \in S : TRUE

(* The equation of the sum over S, given the sums over smaller sets.       *)
SumOf(t, f, S) ==
    IF S = {} THEN 0 ELSE TurnAt(t, Any(S)).chars + f[S \ {Any(S)}]

IsSum(t, S, f) == f = [U \in SUBSET S |-> SumOf(t, f, U)]

LEMMA CharsIsSum ==
  ASSUME NEW t, NEW S
  PROVE  Chars(t, S) = (CHOOSE f : IsSum(t, S, f))[S]
  BY DEF Chars, MapThenSumSet, MapThenFoldSet, IsSum, SumOf, Any

LEMMA AnyIsOne ==
  ASSUME NEW S, S # {}
  PROVE  Any(S) \in S
  BY DEF Any

(* There is such a function: if there is none up to some size of the sets, *)
(* there is a least size of that kind.                                     *)
LEMMA SumExists ==
  ASSUME NEW t, NEW S, IsFiniteSet(S)
  PROVE  \E f : IsSum(t, S, f)
  <1> DEFINE Upto(d) == { U \in SUBSET S : Cardinality(U) <= d }
             Defined(d) == \E f : f = [U \in Upto(d) |-> SumOf(t, f, U)]
             Undefined == { d \in Nat : ~Defined(d) }
  <1>1. \A U \in SUBSET S : IsFiniteSet(U) /\ Cardinality(U) \in Nat
    BY FS_Subset, FS_CardinalityType
  <1>2. Defined(0)
    <2>1. Upto(0) = {{}}
      <3>1. \A U \in SUBSET S : Cardinality(U) <= 0 <=> U = {}
        BY <1>1, FS_EmptySet
      <3> QED
        BY <3>1
    <2> DEFINE f == [U \in {{}} |-> 0]
    <2>2. f = [U \in {{}} |-> SumOf(t, f, U)]
      BY DEF SumOf
    <2> HIDE DEF f, Upto
    <2> QED
      BY <2>1, <2>2
  <1>3. ASSUME NEW d \in Nat, Defined(d)
        PROVE  Defined(d + 1)
    <2>1. PICK g : g = [U \in Upto(d) |-> SumOf(t, g, U)]
      BY <1>3
    <2> DEFINE f == [U \in Upto(d + 1) |-> SumOf(t, g, U)]
    <2>2. \A U \in Upto(d + 1) : U # {} => U \ {Any(U)} \in Upto(d)
      BY <1>1, AnyIsOne, OneLess
    <2>3. Upto(d) \subseteq Upto(d + 1)
      BY <1>1
    <2> HIDE DEF Upto
    <2>4. \A U \in Upto(d) : f[U] = g[U]
      BY <2>1, <2>3
    <2>5. \A U \in Upto(d + 1) : SumOf(t, f, U) = SumOf(t, g, U)
      <3> HIDE DEF f
      <3> QED
        BY <2>2, <2>4 DEF SumOf
    <2>6. f = [U \in Upto(d + 1) |-> SumOf(t, f, U)]
      BY <2>5
    <2> HIDE DEF f
    <2> QED
      BY <2>6
  <1>4. Undefined = {}
    <2> HIDE DEF Defined
    <2> SUFFICES ASSUME Undefined # {}
                 PROVE  FALSE
      OBVIOUS
    <2>1. PICK d \in Undefined : \A e \in Undefined : d <= e
      <3>1. Undefined \in SUBSET Nat
        OBVIOUS
      <3> HIDE DEF Undefined
      <3> QED
        BY <3>1, LeastNumber
    <2>2. d \in Nat \ {0} /\ ~Defined(d)
      BY <1>2
    <2>3. d - 1 \in Nat /\ Defined(d - 1) /\ (d - 1) + 1 = d
      BY <2>1, <2>2
    <2> QED
      BY <1>3, <2>2, <2>3
  <1>5. Cardinality(S) \in Nat /\ Upto(Cardinality(S)) = SUBSET S
    BY <1>1, FS_Subset, FS_CardinalityType
  <1>6. Defined(Cardinality(S))
    <2> HIDE DEF Defined
    <2> QED
      BY <1>4, <1>5
  <1> QED
    BY <1>5, <1>6 DEF IsSum

(* What two of them have in common, they agree on.                         *)
LEMMA SumsAgree ==
  ASSUME NEW t, NEW S, IsFiniteSet(S), NEW f, IsSum(t, S, f),
         NEW u, NEW T, IsFiniteSet(T), NEW g, IsSum(u, T, g),
         NEW V \in SUBSET (S \cap T), \A i \in V : TurnAt(t, i).chars = TurnAt(u, i).chars
  PROVE  f[V] = g[V]
  <1> DEFINE D == { U \in SUBSET V : f[U] # g[U] }
             N == { Cardinality(U) : U \in D }
  <1>1. \A U \in SUBSET V : IsFiniteSet(U) /\ Cardinality(U) \in Nat
    BY FS_Subset, FS_CardinalityType
  <1>2. D = {}
    <2> SUFFICES ASSUME D # {}
                 PROVE  FALSE
      OBVIOUS
    <2>1. N \in SUBSET Nat /\ N # {}
      BY <1>1
    <2>2. PICK n \in N : \A m \in N : n <= m
      <3> HIDE DEF N
      <3> QED
        BY <2>1, LeastNumber
    <2>3. PICK U \in D : \A W \in D : Cardinality(U) <= Cardinality(W)
      BY <2>2
    <2>4. /\ U \in SUBSET S /\ U \in SUBSET T /\ U \in SUBSET V
          /\ f[U] = SumOf(t, f, U) /\ g[U] = SumOf(u, g, U)
      BY DEF IsSum
    <2>5. U # {}
      BY <2>4 DEF SumOf
    <2>6. Any(U) \in U
      BY <2>5, AnyIsOne
    <2>7. U \ {Any(U)} \in SUBSET V /\ U \ {Any(U)} \notin D
      BY <1>1, <2>3, <2>4, <2>6, OneLess
    <2>8. f[U \ {Any(U)}] = g[U \ {Any(U)}]
      BY <2>7
    <2>9. TurnAt(t, Any(U)).chars = TurnAt(u, Any(U)).chars
      BY <2>4, <2>6
    <2> QED
      BY <2>4, <2>5, <2>8, <2>9 DEF SumOf
  <1> QED
    BY <1>2

LEMMA CharsIs ==
  ASSUME NEW t, NEW S, IsFiniteSet(S)
  PROVE  \E f : IsSum(t, S, f) /\ \A U \in SUBSET S : Chars(t, U) = f[U]
  <1>1. PICK f : IsSum(t, S, f)
    BY SumExists
  <1>2. ASSUME NEW U \in SUBSET S
        PROVE  Chars(t, U) = f[U]
    <2> DEFINE g == CHOOSE h : IsSum(t, U, h)
    <2>1. IsFiniteSet(U)
      BY FS_Subset
    <2>2. IsSum(t, U, g) /\ Chars(t, U) = g[U]
      BY <2>1, SumExists, CharsIsSum
    <2> HIDE DEF g
    <2>3. U \in SUBSET (U \cap S)
      OBVIOUS
    <2> QED
      BY <1>1, <2>1, <2>2, <2>3, SumsAgree
  <1> QED
    BY <1>1, <1>2

LEMMA CharsOfSame ==
  ASSUME NEW t, NEW u, NEW S, IsFiniteSet(S),
         \A i \in S : TurnAt(t, i).chars = TurnAt(u, i).chars
  PROVE  Chars(t, S) = Chars(u, S)
  <1>1. PICK f : IsSum(t, S, f) /\ \A U \in SUBSET S : Chars(t, U) = f[U]
    BY CharsIs
  <1>2. PICK g : IsSum(u, S, g) /\ \A U \in SUBSET S : Chars(u, U) = g[U]
    BY CharsIs
  <1>3. S \in SUBSET (S \cap S)
    OBVIOUS
  <1>4. f[S] = g[S]
    BY <1>1, <1>2, <1>3, SumsAgree
  <1> QED
    BY <1>1, <1>2, <1>4

LEMMA CharsUnfold ==
  ASSUME NEW t, NEW S, IsFiniteSet(S)
  PROVE  /\ Chars(t, {}) = 0
         /\ S # {} => Chars(t, S) = TurnAt(t, Any(S)).chars + Chars(t, S \ {Any(S)})
  <1>1. PICK f : IsSum(t, S, f) /\ \A U \in SUBSET S : Chars(t, U) = f[U]
    BY CharsIs
  <1>2. \A U \in SUBSET S : f[U] = SumOf(t, f, U)
    BY <1>1 DEF IsSum
  <1> QED
    BY <1>1, <1>2 DEF SumOf


(* All turns of a set have a length.                                       *)
Lengths(t, S) == IsFiniteSet(S) /\ \A i \in S : TurnAt(t, i).chars \in Nat

LEMMA CharsType ==
  ASSUME NEW t, NEW S, Lengths(t, S)
  PROVE  Chars(t, S) \in Nat
  <1> DEFINE D == { U \in SUBSET S : Chars(t, U) \notin Nat }
  <1>1. ASSUME D # {}
        PROVE  FALSE
    <2>1. PICK U \in D : IsFiniteSet(U) /\ \A x \in U : U \ {x} \notin D
      <3>1. D \in SUBSET (SUBSET S)
        OBVIOUS
      <3> HIDE DEF D
      <3> QED
        BY <1>1, <3>1, LeastSubset DEF Lengths
    <2>2. U # {}
      <3>1. Chars(t, {}) = 0
        BY <2>1, CharsUnfold
      <3> QED
        BY <3>1
    <2>3. Any(U) \in U
      BY <2>2, AnyIsOne
    <2>4. Chars(t, U \ {Any(U)}) \in Nat
      BY <2>1, <2>3
    <2>5. TurnAt(t, Any(U)).chars \in Nat
      BY <2>3 DEF Lengths
    <2>6. Chars(t, U) = TurnAt(t, Any(U)).chars + Chars(t, U \ {Any(U)})
      BY <2>1, <2>2, CharsUnfold
    <2> QED
      BY <2>4, <2>5, <2>6
  <1> QED
    BY <1>1

(* The sum does not depend on the turn that is taken out first.            *)
LEMMA CharsWithout ==
  ASSUME NEW t, NEW S, Lengths(t, S), NEW e \in S
  PROVE  Chars(t, S) = TurnAt(t, e).chars + Chars(t, S \ {e})
  <1> DEFINE D == { U \in SUBSET S : \E x \in U :
                      Chars(t, U) # TurnAt(t, x).chars + Chars(t, U \ {x}) }
  <1>1. ASSUME D # {}
        PROVE  FALSE
    <2>1. PICK U \in D : IsFiniteSet(U) /\ \A x \in U : U \ {x} \notin D
      <3>1. D \in SUBSET (SUBSET S)
        OBVIOUS
      <3> HIDE DEF D
      <3> QED
        BY <1>1, <3>1, LeastSubset DEF Lengths
    <2>2. PICK x \in U : Chars(t, U) # TurnAt(t, x).chars + Chars(t, U \ {x})
      OBVIOUS
    <2> DEFINE a == Any(U)
               R == (U \ {a}) \ {x}
    <2>3. a \in U /\ Chars(t, U) = TurnAt(t, a).chars + Chars(t, U \ {a})
      BY <2>1, <2>2, AnyIsOne, CharsUnfold
    <2> HIDE DEF a
    <2>4. a # x
      BY <2>2, <2>3
    <2>5. Chars(t, U \ {a}) = TurnAt(t, x).chars + Chars(t, R)
      <3>1. x \in U \ {a} /\ U \ {a} \in SUBSET S /\ U \ {a} \notin D
        BY <2>1, <2>3, <2>4
      <3> QED
        BY <3>1
    <2>6. Chars(t, U \ {x}) = TurnAt(t, a).chars + Chars(t, R)
      <3>1. a \in U \ {x} /\ U \ {x} \in SUBSET S /\ U \ {x} \notin D
        BY <2>1, <2>3, <2>4
      <3>2. (U \ {x}) \ {a} = R
        OBVIOUS
      <3> QED
        BY <3>1, <3>2
    <2>7. Lengths(t, R)
      BY FS_Subset DEF Lengths
    <2>8. Chars(t, R) \in Nat
      BY <2>7, CharsType
    <2>9. TurnAt(t, a).chars \in Nat /\ TurnAt(t, x).chars \in Nat
      BY <2>3 DEF Lengths
    <2> HIDE DEF R
    <2> QED
      BY <2>2, <2>3, <2>5, <2>6, <2>8, <2>9
  <1>2. S \notin D
    BY <1>1
  <1> QED
    BY <1>2

(* More turns have no less text.                                           *)
LEMMA CharsGrow ==
  ASSUME NEW t, NEW S, Lengths(t, S), NEW A \in SUBSET S
  PROVE  Chars(t, A) <= Chars(t, S)
  <1> DEFINE D == { U \in SUBSET S : A \subseteq U /\ ~(Chars(t, A) <= Chars(t, U)) }
  <1>0. \A U \in SUBSET S : Lengths(t, U)
    BY FS_Subset DEF Lengths
  <1>1. ASSUME D # {}
        PROVE  FALSE
    <2>1. PICK U \in D : IsFiniteSet(U) /\ \A x \in U : U \ {x} \notin D
      <3>1. D \in SUBSET (SUBSET S)
        OBVIOUS
      <3> HIDE DEF D
      <3> QED
        BY <1>1, <3>1, LeastSubset DEF Lengths
    <2>2. Chars(t, A) \in Nat
      BY <1>0, CharsType
    <2>3. PICK x \in U : x \notin A
      <3>1. U # A
        BY <2>2
      <3> QED
        BY <3>1
    <2>4. Chars(t, A) <= Chars(t, U \ {x})
      BY <2>1, <2>3
    <2>5. Chars(t, U) = TurnAt(t, x).chars + Chars(t, U \ {x})
      BY <1>0, CharsWithout
    <2>6. TurnAt(t, x).chars \in Nat /\ Chars(t, U \ {x}) \in Nat
      BY <1>0, CharsType DEF Lengths
    <2> QED
      BY <2>2, <2>4, <2>5, <2>6
  <1>2. S \notin D
    BY <1>1
  <1> QED
    BY <1>2

Lines(t, batch) == { i \in batch : TurnAt(t, i).chars > 0 }

LEMMA RawLengthIs ==
  ASSUME NEW t, NEW batch
  PROVE  RawLength(t, batch) =
           IF Lines(t, batch) = {} THEN 0
           ELSE Chars(t, Lines(t, batch)) + Cardinality(Lines(t, batch)) - 1
  BY DEF RawLength, Lines, Chars

LEMMA LinesHaveLengths ==
  ASSUME NEW t, NEW batch, Lengths(t, batch)
  PROVE  /\ Lengths(t, Lines(t, batch))
         /\ IsFiniteSet(Lines(t, batch))
         /\ Chars(t, Lines(t, batch)) \in Nat
         /\ Cardinality(Lines(t, batch)) \in Nat
         /\ Lines(t, batch) # {} => Cardinality(Lines(t, batch)) > 0
  <1>1. IsFiniteSet(Lines(t, batch))
    BY FS_Subset DEF Lines, Lengths
  <1>2. Lengths(t, Lines(t, batch))
    BY <1>1 DEF Lines, Lengths
  <1>3. Cardinality(Lines(t, batch)) \in Nat
    BY <1>1, FS_CardinalityType
  <1>4. Lines(t, batch) # {} => Cardinality(Lines(t, batch)) # 0
    BY <1>1, FS_EmptySet
  <1> QED
    BY <1>1, <1>2, <1>3, <1>4, CharsType

(* A batch that gets more turns keeps the text that it has.                *)
LEMMA RawLengthGrows ==
  ASSUME NEW t, NEW u, NEW S, NEW A \in SUBSET S, Lengths(u, S),
         \A i \in A : TurnAt(t, i) = TurnAt(u, i)
  PROVE  RawLength(t, A) \in Nat /\ RawLength(t, A) <= RawLength(u, S)
  <1> DEFINE L == Lines(t, A)
             M == Lines(u, S)
  <1>1. Lengths(t, A)
    BY FS_Subset DEF Lengths
  <1>2. L \subseteq M /\ \A i \in L : TurnAt(t, i).chars = TurnAt(u, i).chars
    BY DEF Lines
  <1>3. /\ IsFiniteSet(L) /\ IsFiniteSet(M) /\ Lengths(u, M)
        /\ Chars(t, L) \in Nat /\ Cardinality(L) \in Nat
        /\ Chars(u, M) \in Nat /\ Cardinality(M) \in Nat
        /\ (L # {} => Cardinality(L) > 0) /\ (M # {} => Cardinality(M) > 0)
    BY <1>1, LinesHaveLengths
  <1> HIDE DEF L, M
  <1>4. Chars(t, L) = Chars(u, L)
    BY <1>2, <1>3, CharsOfSame
  <1>5. Chars(u, L) <= Chars(u, M)
    BY <1>2, <1>3, CharsGrow
  <1>6. Cardinality(L) <= Cardinality(M)
    BY <1>2, <1>3, FS_Subset
  <1>7. RawLength(t, A) = (IF L = {} THEN 0 ELSE Chars(t, L) + Cardinality(L) - 1)
    BY RawLengthIs DEF L
  <1>8. RawLength(u, S) = (IF M = {} THEN 0 ELSE Chars(u, M) + Cardinality(M) - 1)
    BY RawLengthIs DEF M
  <1> QED
    BY <1>2, <1>3, <1>4, <1>5, <1>6, <1>7, <1>8

(* A batch has at least the text of any of its turns.                      *)
LEMMA RawLengthOfOne ==
  ASSUME NEW t, NEW S, Lengths(t, S), NEW i \in S
  PROVE  TurnAt(t, i).chars <= RawLength(t, S)
  <1> DEFINE M == Lines(t, S)
             c == TurnAt(t, i).chars
  <1>1. c \in Nat
    BY DEF Lengths
  <1>2. /\ Lengths(t, M) /\ Chars(t, M) \in Nat /\ Cardinality(M) \in Nat
        /\ (M # {} => Cardinality(M) > 0)
    BY LinesHaveLengths
  <1>3. RawLength(t, S) = (IF M = {} THEN 0 ELSE Chars(t, M) + Cardinality(M) - 1)
    BY RawLengthIs
  <1>4. i \in M <=> c > 0
    BY DEF Lines
  <1>5. ASSUME i \in M
        PROVE  c <= Chars(t, M)
    <2> HIDE DEF M
    <2>1. Chars(t, M) = c + Chars(t, M \ {i})
      BY <1>2, <1>5, CharsWithout
    <2>2. Lengths(t, M \ {i})
      BY <1>2, FS_Subset DEF Lengths
    <2>3. Chars(t, M \ {i}) \in Nat
      BY <2>2, CharsType
    <2> QED
      BY <1>1, <2>1, <2>3
  <1> HIDE DEF M
  <1> QED
    BY <1>1, <1>2, <1>3, <1>4, <1>5

-----------------------------------------------------------------------------
(* What chunk_turns() makes of a session's turns.                          *)

LEMMA BatchesHaveLengths ==
  ASSUME NEW t \in Seq(Turn), NEW start \in Nat, NEW size \in Nat
  PROVE  Lengths(t, Batch(t, start, size))
  <1>1. IsFiniteSet(start .. start + size - 1)
    BY FS_Interval
  <1>2. IsFiniteSet(Batch(t, start, size))
    BY <1>1, FS_Subset DEF Batch
  <1>3. ASSUME NEW i \in Batch(t, start, size)
        PROVE  TurnAt(t, i).chars \in Nat
    <2>1. i \in Nat /\ i + 1 \in 1 .. Len(t)
      BY <1>3 DEF Batch
    <2>2. t[i + 1] \in Turn
      BY <2>1
    <2> QED
      BY <2>2 DEF Turn, TurnAt
  <1> QED
    BY <1>2, <1>3 DEF Lengths

LEMMA KeptGrows ==
  ASSUME NEW t \in Seq(Turn), NEW u \in Seq(Turn), Len(t) <= Len(u),
         \A i \in 1 .. Len(t) : t[i] = u[i],
         NEW start \in Nat, NEW size \in Nat,
         Kept(t, Batch(t, start, size))
  PROVE  Kept(u, Batch(u, start, size))
  <1> DEFINE A == Batch(t, start, size)
             S == Batch(u, start, size)
  <1>1. A \in SUBSET S
    BY DEF Batch
  <1>2. \A i \in A : TurnAt(t, i) = TurnAt(u, i)
    BY DEF Batch, TurnAt
  <1>3. Lengths(u, S)
    BY BatchesHaveLengths
  <1>4. Lengths(t, A)
    BY BatchesHaveLengths
  <1> HIDE DEF A, S
  <1>5. HasUser(u, S)
    BY <1>1, <1>2 DEF Kept, HasUser, A
  <1>6. RawLength(t, A) \in Nat /\ RawLength(t, A) <= RawLength(u, S)
    BY <1>1, <1>2, <1>3, RawLengthGrows
  <1>7. RawLength(u, S) \in Nat
    BY <1>3, RawLengthGrows
  <1>8. RawLength(u, S) >= MinChunkChars
    BY <1>6, <1>7, LimitAssumption DEF Kept, A
  <1> QED
    BY <1>5, <1>8 DEF Kept, S

LEMMA StepIsPositive == WindowStep \in Nat \ {0} /\ WindowStep <= MaxTurns
  BY WindowAssumption DEF WindowStep

(* The ids of a longer session's chunks are those it had, and more.        *)
LEMMA IdsGrow ==
  ASSUME NEW t \in Seq(Turn), NEW u \in Seq(Turn), Len(t) <= Len(u),
         \A i \in 1 .. Len(t) : t[i] = u[i]
  PROVE  ChunkIds(t) \subseteq ChunkIds(u)
  <1> SUFFICES ASSUME NEW c \in Chunks(t)
               PROVE  \E d \in Chunks(u) : IdOf(d) = IdOf(c)
    BY DEF ChunkIds
  <1>1. ASSUME NEW granularity, NEW i \in Nat, NEW e, NEW f
        PROVE  IdOf(Chunk(granularity, i, e)) = IdOf(Chunk(granularity, i, f))
    BY DEF IdOf, Chunk
  <1>2. CASE c \in SmallWindows(t)
    <2>1. PICK i \in WindowStarts(t) :
             /\ Kept(t, Batch(t, i, MaxTurns))
             /\ c = Chunk("small-window", i, LastTurn(t, i, MaxTurns))
      BY <1>2 DEF SmallWindows, BatchChunks
    <2>2. i \in Nat /\ i \in WindowStarts(u)
      BY WindowAssumption, StepIsPositive DEF WindowStarts
    <2>3. Kept(u, Batch(u, i, MaxTurns))
      BY <2>1, <2>2, KeptGrows, WindowAssumption
    <2>4. Chunk("small-window", i, LastTurn(u, i, MaxTurns)) \in Chunks(u)
      BY <2>2, <2>3 DEF Chunks, SmallWindows, BatchChunks
    <2> QED
      BY <1>1, <2>1, <2>2, <2>4
  <1>3. CASE c \in TurnPairs(t)
    <2>1. PICK i \in PairStarts(t) :
             Kept(t, Batch(t, i, 2)) /\ c = Chunk("turn-pair", i, LastTurn(t, i, 2))
      BY <1>3 DEF TurnPairs, BatchChunks
    <2>2. i \in Nat /\ i \in PairStarts(u)
      BY DEF PairStarts
    <2>3. Kept(u, Batch(u, i, 2))
      BY <2>1, <2>2, KeptGrows
    <2>4. Chunk("turn-pair", i, LastTurn(u, i, 2)) \in Chunks(u)
      BY <2>2, <2>3 DEF Chunks, TurnPairs, BatchChunks
    <2> QED
      BY <1>1, <2>1, <2>2, <2>4
  <1>4. CASE c \in Outline(t)
    <2>1. /\ Len(t) >= MinOutlineTurns /\ HasUser(t, 0 .. Len(t) - 1)
          /\ c = Chunk("session-outline", 0, Len(t) - 1)
      BY <1>4 DEF Outline
    <2>2. Len(u) >= MinOutlineTurns /\ HasUser(u, 0 .. Len(u) - 1)
      BY <2>1, LimitAssumption DEF HasUser, TurnAt
    <2>3. Chunk("session-outline", 0, Len(u) - 1) \in Chunks(u)
      BY <2>2 DEF Chunks, Outline
    <2> QED
      BY <1>1, <2>1, <2>3
  <1> QED
    BY <1>2, <1>3, <1>4 DEF Chunks

LEMMA ShiftedRemainder ==
  ASSUME NEW n \in Nat, NEW k \in Nat \ {0}
  PROVE  (n + k) % k = n % k
  <1> DEFINE q == n \div k
             r == n % k
  <1>1. q \in Nat /\ r \in 0 .. k - 1 /\ n = k * q + r
    OBVIOUS
  <1>2. k * (q + 1) = k * q + k
    <2> HIDE DEF q
    <2> QED
      BY <1>1
  <1> HIDE DEF q, r
  <1>3. n + k = k * (q + 1) + r /\ q + 1 \in Nat
    BY <1>1, <1>2
  <1>4. (n + k) % k = r
    BY <1>1, <1>3
  <1> QED
    BY <1>4 DEF r

(* Below any number, less than k away, there is a multiple of k.           *)
LEMMA MultipleBelow ==
  ASSUME NEW n \in Nat, NEW k \in Nat \ {0}
  PROVE  \E m \in 0 .. n : m % k = 0 /\ n - m < k
  <1> DEFINE S == { m \in 0 .. n : m % k = 0 }
             m == Max(S)
  <1>1. S # {} /\ S \in SUBSET (0 .. n)
    <2>1. 0 % k = 0
      OBVIOUS
    <2> QED
      BY <2>1
  <1>2. m \in S /\ \A l \in S : l <= m
    <2> HIDE DEF S
    <2> QED
      BY <1>1, MaxIsGreatest
  <1> HIDE DEF m
  <1>3. ASSUME n - m >= k
        PROVE  FALSE
    <2>1. m \in Nat /\ m + k \in 0 .. n /\ (m + k) % k = 0
      <3>1. m \in Nat /\ m % k = 0 /\ m + k \in 0 .. n
        BY <1>2, <1>3
      <3>2. (m + k) % k = m % k
        BY <3>1, ShiftedRemainder
      <3> QED
        BY <3>1, <3>2
    <2>2. m + k <= m
      BY <1>2, <2>1
    <2> QED
      BY <2>1, <2>2
  <1>4. m \in 0 .. n /\ m % k = 0
    BY <1>2
  <1> QED
    BY <1>3, <1>4

(* With enough overlap the windows cover every turn.                       *)
LEMMA WindowsCover ==
  ASSUME MinTurns - 1 <= Overlap,
         NEW t \in Seq(Turn), Len(t) >= MinTurns, NEW i \in 0 .. Len(t) - 1
  PROVE  \E j \in WindowStarts(t) :
            j \in Nat /\ j <= i /\ i < j + MaxTurns
  <1> DEFINE d == IF i <= Len(t) - MinTurns THEN i ELSE Len(t) - MinTurns
  <1>1. d \in Nat /\ d <= i /\ d <= Len(t) - MinTurns
    BY WindowAssumption
  <1>2. PICK j \in 0 .. d : j % WindowStep = 0 /\ d - j < WindowStep
    BY <1>1, MultipleBelow, StepIsPositive
  <1>3. j \in WindowStarts(t)
    BY <1>1, <1>2, WindowAssumption DEF WindowStarts
  <1>4. WindowStep + MinTurns - 1 <= MaxTurns
    BY WindowAssumption DEF WindowStep
  <1>5. i < j + MaxTurns
    BY <1>2, <1>4, StepIsPositive, WindowAssumption
  <1> QED
    BY <1>1, <1>3, <1>5

LEMMA IsFound ==
  ASSUME MinTurns - 1 <= Overlap,
         NEW t \in Seq(Turn), Len(t) >= MinTurns, NEW i \in 0 .. Len(t) - 1,
         TurnAt(t, i).role = "user", TurnAt(t, i).chars >= MinChunkChars
  PROVE  \E c \in SmallWindows(t) : c.start <= i /\ i <= c.end
  <1>1. PICK j \in WindowStarts(t) : j \in Nat /\ j <= i /\ i < j + MaxTurns
    BY WindowsCover
  <1> DEFINE S == Batch(t, j, MaxTurns)
             c == Chunk("small-window", j, LastTurn(t, j, MaxTurns))
  <1>2. i \in S
    BY <1>1, WindowAssumption DEF Batch
  <1>3. Lengths(t, S)
    BY <1>1, WindowAssumption, BatchesHaveLengths
  <1> HIDE DEF S
  <1>4. TurnAt(t, i).chars <= RawLength(t, S)
    BY <1>2, <1>3, RawLengthOfOne
  <1>5. TurnAt(t, i).chars \in Nat
    BY <1>2, <1>3 DEF Lengths
  <1>6. RawLength(t, S) \in Nat
    BY <1>3, RawLengthGrows
  <1>7. Kept(t, S)
    BY <1>2, <1>4, <1>5, <1>6, LimitAssumption DEF Kept, HasUser
  <1>8. c \in SmallWindows(t)
    BY <1>7 DEF SmallWindows, BatchChunks, S
  <1>9. c.start = j /\ c.end = LastTurn(t, j, MaxTurns)
    BY DEF Chunk
  <1>10. i <= LastTurn(t, j, MaxTurns)
    BY <1>1, WindowAssumption DEF LastTurn
  <1> HIDE DEF c
  <1> QED
    BY <1>1, <1>8, <1>9, <1>10

(* Where windows overlap by all but one of the turns that a window needs,  *)
(* as those of chunk_turns() do by default (2 to 6 turns, 2 of them        *)
(* shared), every long enough turn of the user is in one that is kept.     *)
THEOREM EveryTurnIsFound ==
  ASSUME MinTurns - 1 <= Overlap
  PROVE  Spec => []UserTurnsFound
  <1>1. TypeOK => UserTurnsFound
    BY IsFound DEF TypeOK, UserTurnsFound
  <1> QED
    BY <1>1, TypeCorrect, PTL

(* A session that grows keeps the ids of all its chunks, for every choice  *)
(* of the sizes of windows and of the limits.                              *)
THEOREM IdsSurvive == Spec => GrowingKeepsIds
  <1> DEFINE Keeps == \A s \in Sessions : ChunkIds(turns[s]) \subseteq ChunkIds(turns'[s])
  <1>1. ASSUME TypeOK, NEW s \in Sessions, SessionGrows(s)
        PROVE  Keeps
    <2>1. PICK turn \in TurnKinds : turns' = [turns EXCEPT ![s] = Append(@, turn)]
      BY <1>1 DEF SessionGrows
    <2>2. turn \in Turn
      BY KindAssumption
    <2>3. ASSUME NEW q \in Sessions
          PROVE  ChunkIds(turns[q]) \subseteq ChunkIds(turns'[q])
      <3>1. turns[q] \in Seq(Turn)
        BY <1>1 DEF TypeOK
      <3>2. CASE q = s
        <4> DEFINE t == turns[s]
                   u == Append(t, turn)
        <4>1. turns'[q] = u
          BY <1>1, <2>1, <3>2 DEF TypeOK
        <4>2. u \in Seq(Turn) /\ Len(t) <= Len(u) /\ \A i \in 1 .. Len(t) : t[i] = u[i]
          BY <2>2, <3>1, <3>2
        <4> QED
          BY <3>1, <3>2, <4>1, <4>2, IdsGrow
      <3>3. CASE q # s
        BY <1>1, <2>1, <3>3 DEF TypeOK
      <3> QED
        BY <3>2, <3>3
    <2> QED
      BY <2>3
  <1>2. TypeOK /\ [Next]_vars => [Keeps]_turns
    <2> SUFFICES ASSUME TypeOK, [Next]_vars, UNCHANGED turns => FALSE
                 PROVE  Keeps
      OBVIOUS
    <2>1. PICK s \in Sessions : SessionGrows(s)
      BY DEF Next, vars, Ask, FindHits, Compare, Group, AlsoDecisions, Widen,
             AnotherRound, ReturnPrimary, Merge, Forget
    <2> QED
      BY <1>1, <2>1
  <1> QED
    BY <1>2, TypeCorrect, PTL DEF Spec, GrowingKeepsIds
=============================================================================
