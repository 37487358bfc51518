------------------------------ MODULE SetupProof ------------------------------
(***************************************************************************)
(* The files of the user: proofs that setups, however many run side by     *)
(* side and die, register a hook once and with its script, and keep what   *)
(* the user wrote, for any number of processes, edits and sessions.        *)
(***************************************************************************)
EXTENDS Setup, LeastNumbers, SequenceTheorems

(* The pieces of a file of the user.                                       *)
Pieces == {"own", "wwt", "start", "rules", "to", "end", "closing"}
OwnedText == Seq(Pieces)

(* How much of a text the user wrote, and of the part of it from m to n.   *)
Own(text) == Cardinality(Places(text, "own"))
OwnIn(text, m, n) == { i \in m .. n : text[i] = "own" }

-----------------------------------------------------------------------------
(* The pieces of the user in texts that are extended and put together.     *)
LEMMA PlacesFinite ==
  ASSUME NEW t \in OwnedText
  PROVE  IsFiniteSet(Places(t, "own")) /\ Own(t) \in Nat
  <1>1. IsFiniteSet(1 .. Len(t))
    BY FS_Interval DEF OwnedText
  <1>2. Places(t, "own") \in SUBSET (1 .. Len(t))
    BY DEF Places, OwnedText
  <1> QED
    BY <1>1, <1>2, FS_Subset, FS_CardinalityType DEF Own

LEMMA OwnOfEmpty == Own(<<>>) = 0
  BY FS_EmptySet DEF Own, Places

LEMMA OwnOfAppend ==
  ASSUME NEW t \in OwnedText, NEW piece \in Pieces
  PROVE  /\ Append(t, piece) \in OwnedText
         /\ Own(Append(t, piece)) = Own(t) + (IF piece = "own" THEN 1 ELSE 0)
  <1> DEFINE u == Append(t, piece)
  <1>1. /\ u \in OwnedText /\ Len(u) = Len(t) + 1 /\ Len(t) \in Nat
        /\ \A i \in 1 .. Len(t) : u[i] = t[i]
        /\ u[Len(t) + 1] = piece
    BY AppendProperties DEF OwnedText
  <1> HIDE DEF u
  <1>2. Places(u, "own") =
          Places(t, "own") \cup (IF piece = "own" THEN {Len(t) + 1} ELSE {})
    BY <1>1 DEF Places, OwnedText
  <1>3. Len(t) + 1 \notin Places(t, "own")
    BY DEF Places, OwnedText
  <1> QED
    <2>1. Own(u) = Own(t) + (IF piece = "own" THEN 1 ELSE 0)
      <3>1. CASE piece = "own"
        BY <3>1, <1>2, <1>3, PlacesFinite, FS_AddElement DEF Own
      <3>2. CASE piece # "own"
        <4>1. Places(u, "own") = Places(t, "own")
          BY <3>2, <1>2
        <4> QED
          BY <3>2, <4>1, PlacesFinite DEF Own
      <3> QED
        BY <3>1, <3>2
    <2> QED
      BY <1>1, <2>1 DEF u

(* A shifted set has the same size.                                        *)
LEMMA ShiftedSize ==
  ASSUME NEW S \in SUBSET Nat, IsFiniteSet(S), NEW k \in Int
  PROVE  /\ IsFiniteSet({ k + i : i \in S })
         /\ Cardinality({ k + i : i \in S }) = Cardinality(S)
  <1> DEFINE T == { k + i : i \in S }
             f == [i \in S |-> k + i]
  <1>1. f \in [S -> T] /\ \A i \in S : f[i] = k + i /\ i \in Nat
    OBVIOUS
  <1>2. f \in Injection(S, T)
    <2>1. \A i, j \in S : f[i] = f[j] => i = j
      BY <1>1
    <2> HIDE DEF f, T
    <2> QED
      BY <1>1, <2>1 DEF Injection, IsInjective
  <1>3. f \in Surjection(S, T)
    <2>1. \A x \in T : \E i \in S : f[i] = x
      BY <1>1
    <2> HIDE DEF f, T
    <2> QED
      BY <1>1, <2>1 DEF Surjection
  <1>4. ExistsBijection(S, T)
    BY <1>2, <1>3 DEF ExistsBijection, Bijection
  <1> QED
    BY <1>4, FS_Bijection

LEMMA OwnOfConcat ==
  ASSUME NEW t \in OwnedText, NEW u \in OwnedText
  PROVE  t \o u \in OwnedText /\ Own(t \o u) = Own(t) + Own(u)
  <1> DEFINE v == t \o u
             S == Places(t, "own")
             T == { Len(t) + i : i \in Places(u, "own") }
  <1>1. /\ v \in OwnedText /\ Len(v) = Len(t) + Len(u)
        /\ \A i \in 1 .. Len(t) + Len(u) :
              v[i] = IF i <= Len(t) THEN t[i] ELSE u[i - Len(t)]
    BY ConcatProperties DEF OwnedText
  <1> HIDE DEF v
  <1>2. Len(t) \in Nat /\ Len(u) \in Nat /\ Places(u, "own") \in SUBSET Nat
    BY DEF OwnedText, Places
  <1>3. Places(v, "own") = S \cup T
    <2>1. ASSUME NEW i \in Places(v, "own")
          PROVE  i \in S \cup T
      <3>1. i \in 1 .. Len(t) + Len(u) /\ v[i] = "own"
        BY <1>1, <1>2 DEF Places, OwnedText
      <3>2. CASE i <= Len(t)
        BY <3>1, <3>2, <1>1, <1>2 DEF Places, OwnedText
      <3>3. CASE i > Len(t)
        <4>1. i - Len(t) \in Places(u, "own") /\ i = Len(t) + (i - Len(t))
          BY <3>1, <3>3, <1>1, <1>2 DEF Places, OwnedText
        <4> QED
          BY <4>1
      <3> QED
        BY <3>1, <3>2, <3>3, <1>2
    <2>2. ASSUME NEW i \in S
          PROVE  i \in Places(v, "own")
      BY <2>2, <1>1, <1>2 DEF Places, OwnedText
    <2>3. ASSUME NEW i \in Places(u, "own")
          PROVE  Len(t) + i \in Places(v, "own")
      BY <2>3, <1>1, <1>2 DEF Places, OwnedText
    <2> QED
      BY <2>1, <2>2, <2>3
  <1>4. S \cap T = {}
    BY <1>2 DEF Places, OwnedText
  <1>5. IsFiniteSet(T) /\ Cardinality(T) = Own(u)
    <2>1. IsFiniteSet(Places(u, "own"))
      BY PlacesFinite
    <2>2. Len(t) \in Int
      BY <1>2
    <2>3. IsFiniteSet(T) /\ Cardinality(T) = Cardinality(Places(u, "own"))
      <3> HIDE DEF S
      <3> QED
        BY <1>2, <2>1, <2>2, ShiftedSize
    <2> QED
      BY <2>3 DEF Own
  <1>6. Cardinality(S \cup T) = Cardinality(S) + Cardinality(T)
    <2> HIDE DEF S, T
    <2>1. IsFiniteSet(S)
      BY PlacesFinite DEF S
    <2>2. Cardinality(S \cap T) = 0
      BY <1>4, FS_EmptySet DEF S, T
    <2>3. Cardinality(S) \in Nat /\ Cardinality(T) \in Nat
      BY <2>1, <1>5, FS_CardinalityType
    <2>4. Cardinality(S \cup T) = Cardinality(S) + Cardinality(T) - Cardinality(S \cap T)
      BY <2>1, <1>5, FS_Union
    <2> QED
      BY <2>2, <2>3, <2>4
  <1> QED
    BY <1>1, <1>3, <1>5, <1>6 DEF Own, v

LEMMA OwnOfPart ==
  ASSUME NEW t \in OwnedText, NEW m \in Nat \ {0}, NEW n \in 0 .. Len(t)
  PROVE  /\ SubSeq(t, m, n) \in OwnedText
         /\ IsFiniteSet(OwnIn(t, m, n))
         /\ Own(SubSeq(t, m, n)) = Cardinality(OwnIn(t, m, n))
  <1> DEFINE u == SubSeq(t, m, n)
  <1>1. Len(t) \in Nat /\ \A i \in m .. n : t[i] \in Pieces
    BY DEF OwnedText
  <1>2. /\ u \in OwnedText
        /\ Len(u) = IF m <= n THEN n - m + 1 ELSE 0
        /\ \A i \in 1 .. n - m + 1 : u[i] = t[m + i - 1]
    BY <1>1, SubSeqProperties DEF OwnedText
  <1> HIDE DEF u
  <1>3. OwnIn(t, m, n) = { (m - 1) + i : i \in Places(u, "own") }
    <2>1. ASSUME NEW i \in OwnIn(t, m, n)
          PROVE  i - (m - 1) \in Places(u, "own") /\ i = (m - 1) + (i - (m - 1))
      <3>1. i \in m .. n /\ t[i] = "own"
        BY DEF OwnIn
      <3>2. i - (m - 1) \in 1 .. Len(u) /\ u[i - (m - 1)] = t[i]
        BY <3>1, <1>1, <1>2
      <3> QED
        BY <3>1, <3>2, <1>2 DEF Places, OwnedText
    <2>2. ASSUME NEW i \in Places(u, "own")
          PROVE  (m - 1) + i \in OwnIn(t, m, n)
      <3>1. i \in 1 .. Len(u) /\ u[i] = "own"
        BY <1>2 DEF Places, OwnedText
      <3> QED
        BY <3>1, <1>1, <1>2 DEF OwnIn
    <2> QED
      BY <2>1, <2>2
  <1>4. IsFiniteSet(Places(u, "own"))
    BY <1>2, PlacesFinite
  <1>5. Places(u, "own") \in SUBSET Nat
    BY <1>2 DEF Places, OwnedText
  <1>6. m - 1 \in Int
    OBVIOUS
  <1>7. /\ IsFiniteSet(OwnIn(t, m, n))
        /\ Cardinality(OwnIn(t, m, n)) = Cardinality(Places(u, "own"))
    BY <1>3, <1>4, <1>5, <1>6, ShiftedSize
  <1> QED
    BY <1>2, <1>7 DEF Own, u

-----------------------------------------------------------------------------
(* The rules in a memory file.  A block is closed: an end marker follows   *)
(* each start marker before any text of the user does.                     *)
ClosedBlocks(text) ==
    \A i \in Places(text, "start") : \E e \in Places(text, "end") :
        i < e /\ \A j \in i .. e : text[j] # "own"

(* What _BLOCK_PATTERN.sub() makes of the text from a place on, given what *)
(* it makes of what follows.                                               *)
ReplacedFrom(text, new, rest, from) ==
    LET start == NextAt(text, "start", from)
        end   == IF start = 0 THEN 0 ELSE NextAt(text, "end", start)
    IN  IF end = 0
        THEN SubSeq(text, from, Len(text))
        ELSE SubSeq(text, from, start - 1) \o new \o rest[end + 1]

LEMMA NextAtIsFirst ==
  ASSUME NEW t \in OwnedText, NEW piece, NEW from \in 1 .. Len(t) + 1
  PROVE  \/ /\ NextAt(t, piece, from) = 0
            /\ \A j \in from .. Len(t) : t[j] # piece
         \/ /\ NextAt(t, piece, from) \in from .. Len(t)
            /\ t[NextAt(t, piece, from)] = piece
            /\ \A j \in from .. NextAt(t, piece, from) - 1 : t[j] # piece
  <1> DEFINE places == { i \in from .. Len(t) : t[i] = piece }
  <1>1. NextAt(t, piece, from) = IF places = {} THEN 0 ELSE Min(places)
    BY DEF NextAt
  <1>2. Len(t) \in Nat /\ places \in SUBSET Nat
    BY DEF OwnedText
  <1>3. CASE places = {}
    BY <1>1, <1>3
  <1>4. CASE places # {}
    <2> DEFINE n == Min(places)
    <2>1. n \in places /\ \A m \in places : n <= m
      BY <1>2, <1>4, MinIsLeast
    <2> HIDE DEF n
    <2>2. \A j \in from .. n - 1 : t[j] # piece
      BY <1>2, <2>1
    <2>3. NextAt(t, piece, from) = n
      BY <1>1, <1>4 DEF n
    <2> QED
      BY <2>1, <2>2, <2>3
  <1> QED
    BY <1>3, <1>4

(* What a place is replaced by depends on later places only.               *)
LEMMA ReplacedLater ==
  ASSUME NEW t \in OwnedText, NEW new, NEW f, NEW g, NEW from \in 1 .. Len(t) + 1,
         \A i \in from + 1 .. Len(t) + 1 : f[i] = g[i]
  PROVE  ReplacedFrom(t, new, f, from) = ReplacedFrom(t, new, g, from)
  <1> DEFINE start == NextAt(t, "start", from)
             end   == IF start = 0 THEN 0 ELSE NextAt(t, "end", start)
  <1>1. Len(t) \in Nat
    BY DEF OwnedText
  <1>2. end = 0 \/ end + 1 \in from + 1 .. Len(t) + 1
    <2>1. start = 0 \/ start \in from .. Len(t)
      BY NextAtIsFirst
    <2>2. start \in from .. Len(t) =>
            NextAt(t, "end", start) = 0 \/ NextAt(t, "end", start) \in start .. Len(t)
      <3> HIDE DEF start
      <3>1. start \in from .. Len(t) => start \in 1 .. Len(t) + 1
        BY <1>1
      <3> QED
        BY <3>1, NextAtIsFirst
    <2> HIDE DEF start
    <2> QED
      BY <1>1, <2>1, <2>2
  <1> QED
    BY <1>2 DEF ReplacedFrom

(* The pattern's replacement is defined: by induction on the length of the *)
(* rest of the text.                                                       *)
LEMMA ReplacedDefined ==
  ASSUME NEW t \in OwnedText, NEW new
  PROVE  \E f : f = [from \in 1 .. Len(t) + 1 |-> ReplacedFrom(t, new, f, from)]
  <1> DEFINE N == Len(t) + 1
             Defined(d) ==
               \E f : f = [from \in N + 1 - d .. N |-> ReplacedFrom(t, new, f, from)]
             T == { d \in 0 .. N : ~Defined(d) }
  <1>1. N \in Nat \ {0}
    BY DEF OwnedText
  <1>2. Defined(0)
    <2>1. N + 1 - 0 .. N = {}
      BY <1>1
    <2>2. [from \in {} |-> 0] = [from \in {} |-> ReplacedFrom(t, new, [x \in {} |-> 0], from)]
      OBVIOUS
    <2> QED
      BY <2>1, <2>2
  <1>3. ASSUME NEW d \in 0 .. N - 1, Defined(d)
        PROVE  Defined(d + 1)
    <2> DEFINE k == N - d
    <2>1. k \in 1 .. N /\ N + 1 - d = k + 1 /\ N + 1 - (d + 1) = k
      BY <1>1
    <2> HIDE DEF k, N
    <2>2. PICK g : g = [from \in k + 1 .. N |-> ReplacedFrom(t, new, g, from)]
      BY <1>3, <2>1
    <2> DEFINE f == [from \in k .. N |->
                       IF from = k THEN ReplacedFrom(t, new, g, k) ELSE g[from]]
    <2>3. \A i \in k + 1 .. N : f[i] = g[i]
      BY <1>1, <2>1
    <2>4. ASSUME NEW from \in k .. N
          PROVE  f[from] = ReplacedFrom(t, new, f, from)
      <3> HIDE DEF f
      <3>1. ReplacedFrom(t, new, f, from) = ReplacedFrom(t, new, g, from)
        <4>1. from \in 1 .. Len(t) + 1
          BY <1>1, <2>1 DEF N
        <4>2. \A i \in from + 1 .. Len(t) + 1 : f[i] = g[i]
          BY <1>1, <2>1, <2>3 DEF N
        <4> QED
          BY <4>1, <4>2, ReplacedLater
      <3>2. f[from] = ReplacedFrom(t, new, g, from)
        <4>1. CASE from = k
          BY <4>1 DEF f
        <4>2. CASE from # k
          <5>1. from \in k + 1 .. N
            BY <4>2, <1>1, <2>1
          <5> QED
            BY <5>1, <2>2, <2>3
        <4> QED
          BY <4>1, <4>2
      <3> QED
        BY <3>1, <3>2
    <2>5. f = [from \in k .. N |-> f[from]]
      OBVIOUS
    <2>6. f = [from \in k .. N |-> ReplacedFrom(t, new, f, from)]
      <3> HIDE DEF f
      <3> QED
        BY <2>4, <2>5
    <2> HIDE DEF f
    <2> QED
      BY <2>1, <2>6
  <1>4. T = {}
    <2> HIDE DEF Defined, N
    <2>1. SUFFICES ASSUME T # {}
                   PROVE  FALSE
      OBVIOUS
    <2>2. PICK d \in T : \A m \in T : d <= m
      <3>1. T \in SUBSET Nat
        BY <1>1
      <3> QED
        BY <2>1, <3>1, LeastNumber
    <2>3. d # 0 /\ d \in 0 .. N /\ ~Defined(d)
      BY <1>2, <2>2
    <2>4. d - 1 \in 0 .. N - 1
      BY <1>1, <2>3
    <2>5. Defined(d - 1)
      BY <1>1, <2>2, <2>4
    <2>6. Defined((d - 1) + 1)
      BY <1>3, <2>4, <2>5
    <2> QED
      BY <1>1, <2>3, <2>6
  <1>5. Defined(N)
    <2> HIDE DEF Defined, N
    <2> QED
      BY <1>1, <1>4
  <1> QED
    <2>1. N + 1 - N = 1
      BY <1>1
    <2> QED
      BY <1>5, <2>1

(* ReplaceBlocks() is that function, at the first place.                   *)
LEMMA ReplaceBlocksIsReplaced ==
  ASSUME NEW t \in OwnedText, NEW new
  PROVE  \E f : /\ ReplaceBlocks(t, new) = f[1]
                /\ \A from \in 1 .. Len(t) + 1 :
                      f[from] = ReplacedFrom(t, new, f, from)
  <1> DEFINE f == CHOOSE f : f = [from \in 1 .. Len(t) + 1 |-> ReplacedFrom(t, new, f, from)]
  <1>1. f = [from \in 1 .. Len(t) + 1 |-> ReplacedFrom(t, new, f, from)]
    BY ReplacedDefined
  <1>2. ReplaceBlocks(t, new) = f[1]
    BY DEF ReplaceBlocks, ReplacedFrom
  <1>3. \A from \in 1 .. Len(t) + 1 : f[from] = ReplacedFrom(t, new, f, from)
    <2> HIDE DEF f
    <2> QED
      BY <1>1
  <1> QED
    BY <1>2, <1>3

LEMMA ClosedConcat ==
  ASSUME NEW t \in OwnedText, NEW u \in OwnedText, ClosedBlocks(t), ClosedBlocks(u)
  PROVE  ClosedBlocks(t \o u)
  <1> DEFINE v == t \o u
  <1>1. /\ v \in OwnedText /\ Len(v) = Len(t) + Len(u)
        /\ \A i \in 1 .. Len(t) + Len(u) :
              v[i] = IF i <= Len(t) THEN t[i] ELSE u[i - Len(t)]
    BY ConcatProperties DEF OwnedText
  <1>2. Len(t) \in Nat /\ Len(u) \in Nat
    BY DEF OwnedText
  <1> HIDE DEF v
  <1>3. ASSUME NEW i \in Places(v, "start")
        PROVE  \E e \in Places(v, "end") : i < e /\ \A j \in i .. e : v[j] # "own"
    <2>1. i \in 1 .. Len(t) + Len(u) /\ v[i] = "start"
      BY <1>1 DEF Places, OwnedText
    <2>2. CASE i <= Len(t)
      <3>1. i \in Places(t, "start")
        BY <1>1, <1>2, <2>1, <2>2 DEF Places, OwnedText
      <3>2. PICK e \in Places(t, "end") : i < e /\ \A j \in i .. e : t[j] # "own"
        BY <3>1 DEF ClosedBlocks
      <3>3. e \in 1 .. Len(t) /\ t[e] = "end"
        BY DEF Places, OwnedText
      <3>4. e \in Places(v, "end")
        BY <1>1, <1>2, <3>3 DEF Places, OwnedText
      <3>5. \A j \in i .. e : v[j] # "own"
        BY <1>1, <1>2, <2>1, <3>2, <3>3
      <3> QED
        BY <3>2, <3>4, <3>5
    <2>3. CASE i > Len(t)
      <3>1. i - Len(t) \in Places(u, "start")
        BY <1>1, <1>2, <2>1, <2>3 DEF Places, OwnedText
      <3>2. PICK e \in Places(u, "end") :
              i - Len(t) < e /\ \A j \in i - Len(t) .. e : u[j] # "own"
        BY <3>1 DEF ClosedBlocks
      <3>3. e \in 1 .. Len(u) /\ u[e] = "end"
        BY DEF Places, OwnedText
      <3>4. Len(t) + e \in Places(v, "end")
        BY <1>1, <1>2, <3>3 DEF Places, OwnedText
      <3>5. \A j \in i .. Len(t) + e : v[j] # "own"
        <4> SUFFICES ASSUME NEW j \in i .. Len(t) + e
                     PROVE  v[j] # "own"
          OBVIOUS
        <4>1. j - Len(t) \in i - Len(t) .. e /\ v[j] = u[j - Len(t)]
          BY <1>1, <1>2, <2>1, <2>3, <3>3
        <4> QED
          BY <3>2, <4>1
      <3>6. i < Len(t) + e
        BY <1>2, <2>1, <3>2, <3>3
      <3> QED
        BY <3>4, <3>5, <3>6
    <2> QED
      BY <1>2, <2>1, <2>2, <2>3
  <1> QED
    BY <1>3 DEF ClosedBlocks, v

LEMMA ClosedAppend ==
  ASSUME NEW t \in OwnedText, ClosedBlocks(t)
  PROVE  ClosedBlocks(Append(t, "own"))
  <1> DEFINE u == Append(t, "own")
  <1>1. /\ u \in OwnedText /\ Len(u) = Len(t) + 1 /\ Len(t) \in Nat
        /\ \A i \in 1 .. Len(t) : u[i] = t[i]
        /\ u[Len(t) + 1] = "own"
    <2>1. "own" \in Pieces
      BY DEF Pieces
    <2> QED
      BY <2>1, AppendProperties DEF OwnedText
  <1> HIDE DEF u
  <1>2. ASSUME NEW i \in Places(u, "start")
        PROVE  \E e \in Places(u, "end") : i < e /\ \A j \in i .. e : u[j] # "own"
    <2>1. i \in Places(t, "start")
      BY <1>1 DEF Places, OwnedText
    <2>2. PICK e \in Places(t, "end") : i < e /\ \A j \in i .. e : t[j] # "own"
      BY <2>1 DEF ClosedBlocks
    <2>3. e \in 1 .. Len(t) /\ t[e] = "end" /\ i \in 1 .. Len(t)
      BY <2>1 DEF Places, OwnedText
    <2>4. e \in Places(u, "end")
      BY <1>1, <2>3 DEF Places, OwnedText
    <2>5. \A j \in i .. e : u[j] # "own"
      BY <1>1, <2>2, <2>3
    <2> QED
      BY <2>2, <2>4, <2>5
  <1> QED
    BY <1>2 DEF ClosedBlocks, u

(* The block and the empty text have no text of the user and are closed.   *)
LEMMA BlockIsClosed ==
  ASSUME NEW new \in {Block, <<>>}
  PROVE  new \in OwnedText /\ ClosedBlocks(new) /\ Own(new) = 0
  <1>1. <<>> \in OwnedText /\ ClosedBlocks(<<>>) /\ Own(<<>>) = 0
    BY OwnOfEmpty DEF ClosedBlocks, Places, OwnedText
  <1>2. Block \in OwnedText
    <2>1. {"start", "rules", "to", "end", "closing"} \subseteq Pieces
      BY DEF Pieces
    <2> QED
      BY <2>1 DEF Block, OwnedText
  <1>3. /\ Len(Block) = 7 /\ Block[1] = "start" /\ Block[2] = "rules"
        /\ Block[3] = "start" /\ Block[4] = "to" /\ Block[5] = "end"
        /\ Block[6] = "closing" /\ Block[7] = "end"
    BY DEF Block
  <1>4. DOMAIN Block = 1 .. 7
    BY <1>2, <1>3 DEF OwnedText
  <1>5. \A i \in 1 .. 7 : i \in {1, 2, 3, 4, 5, 6, 7}
    OBVIOUS
  <1>6. Own(Block) = 0
    <2>1. Places(Block, "own") = {}
      BY <1>3, <1>4, <1>5 DEF Places
    <2> QED
      BY <2>1, FS_EmptySet DEF Own
  <1>7. ClosedBlocks(Block)
    <2>1. 5 \in Places(Block, "end") /\ Places(Block, "start") \subseteq {1, 3}
      BY <1>3, <1>4, <1>5 DEF Places
    <2>2. \A j \in 1 .. 7 : Block[j] # "own"
      BY <1>3, <1>5
    <2> QED
      BY <2>1, <2>2 DEF ClosedBlocks
  <1> QED
    BY <1>1, <1>2, <1>6, <1>7

LEMMA OwnInSplits ==
  ASSUME NEW t \in OwnedText, NEW m \in 1 .. Len(t) + 1, NEW k \in m .. Len(t),
         NEW e \in k .. Len(t), \A j \in k .. e : t[j] # "own"
  PROVE  Cardinality(OwnIn(t, m, Len(t))) =
           Cardinality(OwnIn(t, m, k - 1)) + Cardinality(OwnIn(t, e + 1, Len(t)))
  <1> DEFINE A == OwnIn(t, m, k - 1)
             B == OwnIn(t, e + 1, Len(t))
  <1>1. Len(t) \in Nat
    BY DEF OwnedText
  <1>2. OwnIn(t, m, Len(t)) = A \cup B /\ A \cap B = {}
    BY <1>1 DEF OwnIn
  <1>3. IsFiniteSet(A) /\ IsFiniteSet(B)
    BY <1>1, OwnOfPart
  <1>4. Cardinality(A) \in Nat /\ Cardinality(B) \in Nat /\ Cardinality(A \cap B) = 0
    BY <1>2, <1>3, FS_CardinalityType, FS_EmptySet
  <1>5. Cardinality(A \cup B) = Cardinality(A) + Cardinality(B) - Cardinality(A \cap B)
    <2> HIDE DEF A, B
    <2> QED
      BY <1>3, FS_Union
  <1> HIDE DEF A, B
  <1>6. Cardinality(A \cup B) = Cardinality(A) + Cardinality(B)
    BY <1>4, <1>5
  <1> QED
    BY <1>2, <1>6 DEF A, B

(* Replacing or removing the blocks of a text keeps what the user wrote:   *)
(* by induction on the length of the rest of the text.                     *)
LEMMA ReplacingKeepsOwn ==
  ASSUME NEW t \in OwnedText, ClosedBlocks(t), NEW new \in {Block, <<>>}
  PROVE  LET r == ReplaceBlocks(t, new)
         IN  r \in OwnedText /\ ClosedBlocks(r) /\ Own(r) = Own(t)
  <1>1. PICK f : /\ ReplaceBlocks(t, new) = f[1]
                 /\ \A from \in 1 .. Len(t) + 1 :
                       f[from] = ReplacedFrom(t, new, f, from)
    BY ReplaceBlocksIsReplaced
  <1> DEFINE Kept(from) == /\ f[from] \in OwnedText
                           /\ ClosedBlocks(f[from])
                           /\ Own(f[from]) = Cardinality(OwnIn(t, from, Len(t)))
             T == { d \in 0 .. Len(t) : ~Kept(Len(t) + 1 - d) }
  <1>2. Len(t) \in Nat /\ DOMAIN t = 1 .. Len(t)
    BY DEF OwnedText
  <1>3. ASSUME NEW from \in 1 .. Len(t) + 1,
               \A i \in from + 1 .. Len(t) + 1 : Kept(i)
        PROVE  Kept(from)
    <2> DEFINE start == NextAt(t, "start", from)
               end   == NextAt(t, "end", start)
    <2>1. CASE start = 0
      <3>1. \A j \in from .. Len(t) : t[j] # "start"
        BY <1>2, <2>1, NextAtIsFirst
      <3>2. f[from] = SubSeq(t, from, Len(t))
        BY <1>1, <2>1 DEF ReplacedFrom
      <3>3. /\ f[from] \in OwnedText
            /\ Own(f[from]) = Cardinality(OwnIn(t, from, Len(t)))
        BY <1>2, <3>2, OwnOfPart
      <3>4. ClosedBlocks(f[from])
        <4>1. /\ Len(f[from]) = IF from <= Len(t) THEN Len(t) - from + 1 ELSE 0
              /\ \A i \in 1 .. Len(t) - from + 1 : f[from][i] = t[from + i - 1]
          <5>1. \A i \in from .. Len(t) : t[i] \in Pieces
            BY <1>2 DEF OwnedText
          <5> QED
            BY <1>2, <3>2, <5>1, SubSeqProperties
        <4>2. Places(f[from], "start") = {}
          <5> SUFFICES ASSUME NEW i \in Places(f[from], "start")
                       PROVE  FALSE
            OBVIOUS
          <5>1. i \in 1 .. Len(f[from]) /\ f[from][i] = "start"
            BY <3>3 DEF Places, OwnedText
          <5>2. from + i - 1 \in from .. Len(t) /\ f[from][i] = t[from + i - 1]
            BY <1>2, <4>1, <5>1
          <5> QED
            BY <3>1, <5>1, <5>2
        <4> QED
          BY <4>2 DEF ClosedBlocks
      <3> QED
        BY <3>3, <3>4
    <2>2. CASE start # 0
      <3>1. /\ start \in from .. Len(t) /\ t[start] = "start"
            /\ \A j \in from .. start - 1 : t[j] # "start"
        BY <2>2, NextAtIsFirst
      <3> HIDE DEF start
      <3>2. PICK e \in Places(t, "end") : start < e /\ \A j \in start .. e : t[j] # "own"
        BY <1>2, <3>1 DEF ClosedBlocks, Places
      <3>3. e \in 1 .. Len(t) /\ t[e] = "end"
        BY <1>2 DEF Places
      <3>4. end \in start .. Len(t) /\ end <= e
        BY <1>2, <3>1, <3>2, <3>3, NextAtIsFirst
      <3> HIDE DEF end
      <3>5. \A j \in start .. end : t[j] # "own"
        BY <1>2, <3>2, <3>3, <3>4
      <3> DEFINE head == SubSeq(t, from, start - 1)
      <3>6. f[from] = head \o new \o f[end + 1]
        <4>1. f[from] = ReplacedFrom(t, new, f, from)
          BY <1>1
        <4>2. start # 0 /\ end # 0
          BY <1>2, <3>1, <3>4
        <4> QED
          BY <4>1, <4>2 DEF ReplacedFrom, start, end
      <3>7. Kept(end + 1)
        BY <1>2, <1>3, <3>1, <3>4
      <3>8. /\ head \in OwnedText
            /\ Own(head) = Cardinality(OwnIn(t, from, start - 1))
        BY <1>2, <3>1, OwnOfPart
      <3>9. ClosedBlocks(head)
        <4>1. /\ Len(head) = IF from <= start - 1 THEN start - from ELSE 0
              /\ \A i \in 1 .. start - from : head[i] = t[from + i - 1]
          <5>1. \A i \in from .. start - 1 : t[i] \in Pieces
            BY <1>2, <3>1 DEF OwnedText
          <5> QED
            BY <1>2, <3>1, <5>1, SubSeqProperties
        <4> HIDE DEF head
        <4>2. Places(head, "start") = {}
          BY <1>2, <3>1, <3>8, <4>1 DEF Places, OwnedText
        <4> QED
          BY <4>2 DEF ClosedBlocks
      <3> HIDE DEF head
      <3>10. new \in OwnedText /\ ClosedBlocks(new) /\ Own(new) = 0
        BY BlockIsClosed
      <3>11. /\ head \o new \in OwnedText /\ ClosedBlocks(head \o new)
             /\ Own(head \o new) = Own(head)
        BY <3>8, <3>9, <3>10, OwnOfConcat, ClosedConcat, PlacesFinite
      <3>12. /\ f[from] \in OwnedText /\ ClosedBlocks(f[from])
             /\ Own(f[from]) = Own(head) + Own(f[end + 1])
        BY <3>6, <3>7, <3>11, OwnOfConcat, ClosedConcat
      <3>13. Own(f[from]) = Cardinality(OwnIn(t, from, Len(t)))
        BY <3>1, <3>4, <3>5, <3>7, <3>8, <3>12, OwnInSplits
      <3> QED
        BY <3>12, <3>13
    <2> QED
      BY <2>1, <2>2
  <1>4. T = {}
    <2> HIDE DEF Kept
    <2>1. SUFFICES ASSUME T # {}
                   PROVE  FALSE
      OBVIOUS
    <2>2. PICK d \in T : \A m \in T : d <= m
      <3>1. T \in SUBSET Nat
        BY <1>2
      <3> QED
        BY <2>1, <3>1, LeastNumber
    <2>3. d \in 0 .. Len(t) /\ ~Kept(Len(t) + 1 - d)
      BY <2>2
    <2>4. ASSUME NEW i \in (Len(t) + 1 - d) + 1 .. Len(t) + 1
          PROVE  Kept(i)
      <3> DEFINE c == Len(t) + 1 - i
      <3>1. c \in 0 .. Len(t) /\ c < d /\ i = Len(t) + 1 - c
        BY <1>2, <2>3
      <3>2. c \notin T
        BY <2>2, <2>3, <3>1
      <3> HIDE DEF c
      <3>3. Kept(Len(t) + 1 - c)
        BY <3>1, <3>2
      <3> QED
        BY <3>1, <3>3
    <2>5. Len(t) + 1 - d \in 1 .. Len(t) + 1
      BY <1>2, <2>3
    <2> QED
      BY <1>3, <2>3, <2>4, <2>5
  <1>5. Kept(1)
    <2>1. CASE Len(t) = 0
      BY <1>2, <1>3, <2>1
    <2>2. CASE Len(t) # 0
      <3>1. Len(t) \in 0 .. Len(t) /\ Len(t) + 1 - Len(t) = 1
        BY <1>2
      <3> HIDE DEF Kept
      <3> QED
        BY <1>4, <3>1
    <2> QED
      BY <2>1, <2>2
  <1>6. Own(t) = Cardinality(OwnIn(t, 1, Len(t)))
    BY <1>2 DEF Own, Places, OwnIn
  <1> QED
    BY <1>1, <1>5, <1>6

-----------------------------------------------------------------------------
(* The inductive invariant.  The steps of each part of a plan:             *)
StepsOf(action) ==
    CASE action = "install" -> {"begin", "read", "truncate", "fill"}
      [] action = "ingest"  -> {"begin", "files"}
      [] OTHER              -> {"begin", "truncate", "fill"}

Steps == {"begin", "read", "truncate", "fill", "files"} \cup Over

SettingsTypes ==
    /\ machine \in Machines
    /\ machine.agents \subseteq homes
    /\ scripts \subseteq homes /\ homes \subseteq Agents
    /\ owned \in [UserFiles -> [state : {"missing", "empty", "whole"}, text : OwnedText]]
    /\ at \in [Processes -> [phase : Nat, step : Steps]]
    /\ copy \in [Processes -> OwnedText]
    /\ wrote \in [UserFiles -> Nat]
    /\ disturbed \subseteq UserFiles

(* A process has not begun, is over, or is at a step of a part of its plan. *)
Placed(p) ==
    \/ at[p].phase = 0 /\ at[p].step = "begin"
    \/ at[p].phase = 1 /\ at[p].step \in Over
    \/ at[p].phase \in 1 .. Len(PlanOf(p)) /\ at[p].step \in StepsOf(Part(p).do)

PlaceOfPart == \A p \in Processes : Placed(p)

(* An empty file is one that a process is writing.                         *)
EmptyIsHeld ==
    \A k \in UserFiles \ disturbed : owned[k].state = "empty" =>
        \E p \in Processes : Holds(p, k) /\ at[p].step = "fill"

(* A hook stands once in the settings; a setup that is going to register   *)
(* it has read settings without it, and has written the script before.     *)
HookOnce ==
    \A a \in Agents :
        /\ \A i, j \in Places(owned[a].text, "wwt") : i = j
        /\ Contains(owned[a].text, "wwt") => a \in scripts

ReadWithoutHook ==
    \A p \in Processes, a \in Agents : Holds(p, a) => ~Contains(copy[p], "wwt")

ScriptFirst ==
    \A p \in Processes :
        Active(p) /\ Part(p).do = "install" /\ at[p].step # "begin" => Target(p) \in scripts

(* What the user wrote is in the file, and in what a process has read of   *)
(* it and will write.                                                      *)
OwnStands ==
    \A k \in UserFiles \ disturbed :
        owned[k].state # "empty" => Own(owned[k].text) = wrote[k]

OwnIsRead ==
    \A p \in Processes : \A k \in UserFiles \ disturbed :
        Holds(p, k) => Own(copy[p]) = wrote[k]

MemoryIsClosed ==
    /\ ClosedBlocks(owned[Memory].text)
    /\ \A p \in Processes : Holds(p, Memory) => ClosedBlocks(copy[p])

(* The hook of an agent that is on the machine is registered by a setup    *)
(* that is past that part.                                                 *)
InstallPhase(a) ==
    CASE a = "claude-code" -> 1
      [] a = "gemini-cli"  -> 5
      [] a = "codex-cli"   -> 6

PastPart(p, n) == at[p].step = "ended" \/ (at[p].step \notin Over /\ at[p].phase > n)

HookStands ==
    \A p \in Setups : \A a \in machine.agents \ disturbed :
        PastPart(p, InstallPhase(a)) =>
            owned[a].state = "empty" \/ Contains(owned[a].text, "wwt")

(* A setup reads transcripts in the part that ingests them.                *)
ReadsInIngest ==
    /\ reading = [p \in Readers |-> reading[p]]
    /\ \A p \in Setups : reading[p].step # "none" => IsAt(p, "ingest", "files")

FilesInv ==
    /\ SettingsTypes
    /\ PlaceOfPart
    /\ EmptyIsHeld
    /\ HookOnce
    /\ ReadWithoutHook
    /\ ScriptFirst
    /\ OwnStands
    /\ OwnIsRead
    /\ MemoryIsClosed
    /\ HookStands

SettingsInv == FilesInv /\ ReadsInIngest

settingsVars == <<machine, owned, at, copy, homes, scripts, wrote, disturbed>>

(* A setup goes on, or ends with an error, and leaves the files alone.     *)
Walk(p) ==
    /\ Active(p) /\ at[p].step \notin {"truncate", "fill"}
    /\ \/ Halt(p, "aborted")
       \/ Part(p).do = "ingest" /\ Goto(p, "files")
       \/ (Part(p).do = "ingest" \/ Target(p) \notin machine.agents) /\ NextPart(p)
    /\ UNCHANGED <<machine, owned, copy, homes, scripts, wrote, disturbed>>

SettingsStep ==
    \/ UNCHANGED settingsVars
    \/ \E k \in UserFiles : Edit(k)
    \/ \E p \in Processes : Begin(p) \/ ReadUserFile(p) \/ Truncate(p) \/ Fill(p) \/ Die(p)
    \/ \E p \in Setups : WriteScript(p) \/ Walk(p)

(* What a reading step of a setup or the worker does to the settings.      *)
LEMMA ReadingWalks ==
  ASSUME SettingsInv, NEW p \in Setups \cup {Worker},
         DetectSource(p) \/ ReadTurns(p) \/ ReadMeta(p)
  PROVE  UNCHANGED settingsVars \/ (p \in Setups /\ Walk(p))
  <1>1. UNCHANGED <<machine, owned, copy, homes, scripts, wrote, disturbed>>
    BY DEF DetectSource, ReadTurns, ReadMeta, UnreadVars, agentVars, userVars,
           hookVars
  <1>2. reading[p].step # "none"
    BY DEF DetectSource, ReadTurns, ReadMeta, Reads
  <1>3. UNCHANGED at \/ (p # Worker /\ Halt(p, "aborted"))
    BY DEF DetectSource, ReadTurns, ReadMeta, Raised, Rejected, Advance
  <1>4. CASE UNCHANGED at
    BY <1>1, <1>4 DEF settingsVars
  <1>5. CASE p # Worker /\ Halt(p, "aborted")
    <2>1. p \in Setups /\ IsAt(p, "ingest", "files")
      BY <1>2, <1>5 DEF SettingsInv, FilesInv, ReadsInIngest
    <2> QED
      BY <1>1, <1>5, <2>1 DEF Walk, IsAt
  <1> QED
    BY <1>3, <1>4, <1>5

LEMMA EveryStepSettings ==
  ASSUME SettingsInv, [Next]_vars
  PROVE  SettingsStep
  <1> USE DEF SettingsStep
  <1>1. CASE UNCHANGED vars
    BY <1>1 DEF vars, settingsVars, agentVars, userVars, localVars, hookVars
  <1>2. ASSUME NEW s \in Sessions,
               \/ Open(s) \/ BeginLine(s) \/ EndLine(s) \/ Close(s) \/ EndTurn(s)
               \/ TakeJob(s) \/ Discover(s)
        PROVE  UNCHANGED settingsVars
    BY <1>2 DEF Open, BeginLine, EndLine, Close, EndTurn, TakeJob, Discover,
                UploadLeaves,
                settingsVars, agentVars, userVars, localVars, hookVars
  <1>3. ASSUME StoreJob \/ ReadDate \/ UploadText
        PROVE  UNCHANGED settingsVars
    BY <1>3 DEF StoreJob, ReadDate, UploadText, UploadLeaves,
                settingsVars, agentVars, userVars, localVars, hookVars
  <1>4. ASSUME NEW p \in Setups, Scan(p) \/ NextFile(p) \/ StoreBatch(p)
        PROVE  UNCHANGED settingsVars \/ Walk(p)
    <2>1. UNCHANGED <<machine, owned, copy, homes, scripts, wrote, disturbed>>
      BY <1>4 DEF Scan, NextFile, StoreBatch, agentVars, userVars, hookVars
    <2>2. Active(p) /\ Part(p).do = "ingest" /\ at[p].step \in {"begin", "files"}
      BY <1>4 DEF Scan, NextFile, StoreBatch, IsAt
    <2>3. UNCHANGED at \/ NextPart(p) \/ Goto(p, "files")
      BY <1>4 DEF Scan, NextFile, StoreBatch
    <2> QED
      BY <2>1, <2>2, <2>3 DEF Walk, settingsVars
  <1>5. ASSUME NEW p \in Setups, Skip(p) \/ ReadFails(p)
        PROVE  Walk(p)
    <2>1. UNCHANGED <<machine, owned, copy, homes, scripts, wrote, disturbed>>
      BY <1>5 DEF Skip, ReadFails, agentVars, userVars, hookVars
    <2>2. machine.agents \subseteq homes
      BY DEF SettingsInv, FilesInv, SettingsTypes
    <2> QED
      BY <1>5, <2>1, <2>2 DEF Skip, ReadFails, IsAt, Walk
  <1>6. CASE Next
    BY <1>2, <1>3, <1>4, <1>5, <1>6, ReadingWalks DEF Next
  <1> QED
    BY <1>1, <1>6

-----------------------------------------------------------------------------
(* The parts of a plan.                                                    *)
PlanActions == {"install", "ingest", "remember", "remove"}

LEMMA PlanOfSetup ==
  ASSUME NEW p \in Setups
  PROVE  /\ Len(PlanOf(p)) = (IF p \in WithMemory THEN 7 ELSE 6)
         /\ PlanOf(p)[1] = Do("install", "claude-code")
         /\ PlanOf(p)[2] = Do("ingest", "claude-code")
         /\ PlanOf(p)[3] = Do("ingest", "gemini-cli")
         /\ PlanOf(p)[4] = Do("ingest", "codex-cli")
         /\ PlanOf(p)[5] = Do("install", "gemini-cli")
         /\ PlanOf(p)[6] = Do("install", "codex-cli")
         /\ p \in WithMemory => PlanOf(p)[7] = Do("remember", Memory)
  <1> DEFINE tail == IF p \in WithMemory THEN <<Do("remember", Memory)>> ELSE <<>>
             A == [do : PlanActions, agent : UserFiles]
             head == <<Do("install", "claude-code"), Do("ingest", "claude-code"),
                       Do("ingest", "gemini-cli"), Do("ingest", "codex-cli"),
                       Do("install", "gemini-cli"), Do("install", "codex-cli")>>
  <1>1. PlanOf(p) = head \o tail
    BY ProcessesAssumption DEF PlanOf
  <1>2. head \in Seq(A) /\ tail \in Seq(A)
    <2>1. \A action \in PlanActions, k \in UserFiles : Do(action, k) \in A
      BY DEF Do
    <2> HIDE DEF A
    <2> QED
      BY <2>1 DEF PlanActions, UserFiles, Agents
  <1>3. Len(head) = 6 /\ Len(tail) = IF p \in WithMemory THEN 1 ELSE 0
    OBVIOUS
  <1>4. /\ Len(PlanOf(p)) = Len(head) + Len(tail)
        /\ \A i \in 1 .. Len(head) + Len(tail) :
              PlanOf(p)[i] = IF i <= Len(head) THEN head[i] ELSE tail[i - Len(head)]
    <2> HIDE DEF head, tail, A
    <2> QED
      BY ConcatProperties, <1>1, <1>2
  <1>5. \A i \in 1 .. 6 : PlanOf(p)[i] = head[i]
    <2> HIDE DEF head, tail
    <2> QED
      BY <1>3, <1>4
  <1>6. p \in WithMemory => PlanOf(p)[7] = tail[1]
    <2> HIDE DEF head, tail
    <2> QED
      BY <1>3, <1>4
  <1> QED
    BY <1>3, <1>4, <1>5, <1>6

LEMMA PlanOfRemover ==
  ASSUME NEW p \in Removers
  PROVE  Len(PlanOf(p)) = 1 /\ PlanOf(p)[1] = Do("remove", Memory)
  BY DEF PlanOf

(* A part that is not about a memory file installs or ingests, and is of   *)
(* an agent; only the install parts write settings.                        *)
LEMMA PartsOfPlan ==
  ASSUME NEW p \in Processes, NEW n \in 1 .. Len(PlanOf(p))
  PROVE  /\ Len(PlanOf(p)) \in Nat \ {0}
         /\ \/ /\ PlanOf(p)[n].do \in {"install", "ingest"}
               /\ PlanOf(p)[n].agent \in Agents
               /\ p \in Setups
            \/ /\ PlanOf(p)[n].do \in {"remember", "remove"}
               /\ PlanOf(p)[n].agent = Memory
  <1>1. CASE p \in Removers
    BY <1>1, PlanOfRemover DEF Do
  <1>2. CASE p \in Setups
    <2>1. n \in 1 .. 6 \/ (n = 7 /\ p \in WithMemory)
      <3>1. Len(PlanOf(p)) = (IF p \in WithMemory THEN 7 ELSE 6)
        BY <1>2, PlanOfSetup
      <3>2. CASE p \in WithMemory
        BY <3>1, <3>2
      <3>3. CASE p \notin WithMemory
        BY <3>1, <3>3
      <3> QED
        BY <3>2, <3>3
    <2>2. \A i \in 1 .. 6 : i \in {1, 2, 3, 4, 5, 6}
      OBVIOUS
    <2> QED
      BY <1>2, <2>1, <2>2, PlanOfSetup DEF Do, Agents
  <1> QED
    BY <1>1, <1>2 DEF Processes

-----------------------------------------------------------------------------
(* A process that does not move keeps its place.                           *)
LEMMA OthersStay ==
  ASSUME NEW q \in Processes, at'[q] = at[q]
  PROVE  /\ Active(q)' <=> Active(q)
         /\ Part(q)' = Part(q) /\ Target(q)' = Target(q)
         /\ \A k : Holds(q, k)' <=> Holds(q, k)
         /\ \A n : PastPart(q, n)' <=> PastPart(q, n)
         /\ \A do, step : IsAt(q, do, step)' <=> IsAt(q, do, step)
  BY DEF Active, Part, Target, Holds, PastPart, IsAt

(* What a process at a step of a part is about.                            *)
LEMMA PlaceKnown ==
  ASSUME SettingsInv, NEW p \in Processes, Active(p)
  PROVE  /\ at[p].phase \in 1 .. Len(PlanOf(p)) /\ at[p].step \in StepsOf(Part(p).do)
         /\ Len(PlanOf(p)) \in Nat \ {0}
         /\ Target(p) \in UserFiles
         /\ \/ Part(p).do \in {"install", "ingest"} /\ Target(p) \in Agents /\ p \in Setups
            \/ Part(p).do \in {"remember", "remove"} /\ Target(p) = Memory
         /\ at[p].step \in {"truncate", "fill"} =>
               Holds(p, Target(p)) /\ (Target(p) \in Agents => Part(p).do = "install")
  <1>1. at[p].phase \in 1 .. Len(PlanOf(p)) /\ at[p].step \in StepsOf(Part(p).do)
    BY DEF SettingsInv, FilesInv, PlaceOfPart, Placed, Active
  <1>2. /\ Len(PlanOf(p)) \in Nat \ {0}
        /\ \/ Part(p).do \in {"install", "ingest"} /\ Target(p) \in Agents /\ p \in Setups
           \/ Part(p).do \in {"remember", "remove"} /\ Target(p) = Memory
    BY <1>1, PartsOfPlan DEF Part, Target
  <1>3. Memory \notin Agents
    BY DEF Memory, Agents
  <1>4. Part(p).do = "ingest" => at[p].step \notin {"truncate", "fill"}
    BY <1>1 DEF StepsOf
  <1> QED
    BY <1>1, <1>2, <1>3, <1>4 DEF Holds, UserFiles

(* Going on to the next part, or ending.                                   *)
LEMMA NextPartPlace ==
  ASSUME SettingsInv, NEW p \in Processes, Active(p), NextPart(p)
  PROVE  /\ at' \in [Processes -> [phase : Nat, step : Steps]]
         /\ \A q \in Processes \ {p} : at'[q] = at[q]
         /\ \/ at'[p].phase = 1 /\ at'[p].step = "ended"
            \/ /\ at'[p].phase \in 1 .. Len(PlanOf(p)) /\ at'[p].step = "begin"
               /\ "begin" \in StepsOf(Part(p).do)'
         /\ \A k : ~Holds(p, k)'
         /\ p \in Setups => \A a \in Agents :
               PastPart(p, InstallPhase(a))' =>
                  \/ PastPart(p, InstallPhase(a))
                  \/ Part(p).do = "install" /\ Target(p) = a
  <1> DEFINE n == at[p].phase
             N == Len(PlanOf(p))
  <1>1. /\ n \in 1 .. N /\ N \in Nat \ {0} /\ at \in [Processes -> [phase : Nat, step : Steps]]
        /\ at[p].step \notin Over
    BY PlaceKnown DEF SettingsInv, FilesInv, SettingsTypes, Active
  <1>2. /\ n = N => at'[p] = [phase |-> 1, step |-> "ended"]
        /\ n # N => at'[p] = [phase |-> n + 1, step |-> "begin"]
        /\ \A q \in Processes \ {p} : at'[q] = at[q]
    BY <1>1 DEF NextPart
  <1>3. at' \in [Processes -> [phase : Nat, step : Steps]]
    <2>1. [phase |-> 1, step |-> "ended"] \in [phase : Nat, step : Steps]
      BY DEF Steps, Over
    <2>2. [phase |-> n + 1, step |-> "begin"] \in [phase : Nat, step : Steps]
      BY <1>1 DEF Steps
    <2>3. at' = [at EXCEPT ![p] = IF n = N THEN [phase |-> 1, step |-> "ended"]
                                  ELSE [phase |-> n + 1, step |-> "begin"]]
      BY <1>1 DEF NextPart
    <2> HIDE DEF n, N
    <2> QED
      BY <1>1, <2>1, <2>2, <2>3
  <1>4. \/ at'[p].phase = 1 /\ at'[p].step = "ended"
        \/ at'[p].phase \in 1 .. N /\ at'[p].step = "begin"
    BY <1>1, <1>2
  <1>5. "begin" \in StepsOf(Part(p).do)'
    BY DEF StepsOf
  <1>6. \A k : ~Holds(p, k)'
    BY <1>4 DEF Holds, Active, Over
  <1>7. ASSUME p \in Setups, NEW a \in Agents, PastPart(p, InstallPhase(a))'
        PROVE  \/ PastPart(p, InstallPhase(a))
               \/ Part(p).do = "install" /\ Target(p) = a
    <2> DEFINE m == InstallPhase(a)
    <2>1. /\ m \in {1, 5, 6} /\ PlanOf(p)[m] = Do("install", a)
      BY <1>7, PlanOfSetup DEF InstallPhase, Agents
    <2>2. N \in {6, 7}
      BY <1>7, PlanOfSetup
    <2>3. n >= m
      <3> HIDE DEF m
      <3>1. CASE n = N
        BY <2>1, <2>2, <3>1
      <3>2. CASE n # N
        BY <1>1, <1>2, <1>7, <2>1, <3>2 DEF PastPart, m, Over
      <3> QED
        BY <3>1, <3>2
    <2>4. CASE n > m
      BY <1>1, <2>4 DEF PastPart
    <2>5. CASE n = m
      <3>1. Part(p) = Do("install", a)
        BY <2>1, <2>5 DEF Part
      <3> QED
        BY <3>1 DEF Target, Do
    <2> QED
      BY <1>1, <2>1, <2>3, <2>4, <2>5
  <1> QED
    BY <1>2, <1>3, <1>4, <1>5, <1>6, <1>7

-----------------------------------------------------------------------------
LEMMA InitSettings == Init => SettingsInv
  <1> SUFFICES ASSUME Init
               PROVE  SettingsInv
    OBVIOUS
  <1> USE DEF Init
  <1>1. SettingsTypes
    <2>1. machine.agents \subseteq Agents
      BY MachinesAssumption
    <2>2. <<>> \in OwnedText
      BY DEF OwnedText
    <2> QED
      BY <2>1, <2>2 DEF SettingsTypes, Missing, Steps
  <1>2. \A p \in Processes : at[p].phase = 0 /\ at[p].step = "begin" /\ \A k : ~Holds(p, k)
    BY DEF Holds, Active
  <1>3. \A k \in UserFiles : owned[k].text = <<>> /\ owned[k].state = "missing" /\ wrote[k] = 0
    BY DEF Missing
  <1>4. PlaceOfPart
    BY <1>2 DEF PlaceOfPart, Placed
  <1>5. EmptyIsHeld
    BY <1>3 DEF EmptyIsHeld
  <1>6. HookOnce
    BY <1>3 DEF HookOnce, Places, Contains, UserFiles
  <1>7. ReadWithoutHook /\ OwnIsRead
    BY <1>2 DEF ReadWithoutHook, OwnIsRead
  <1>8. ScriptFirst
    BY <1>2 DEF ScriptFirst
  <1>9. OwnStands
    BY <1>3, OwnOfEmpty DEF OwnStands
  <1>10. MemoryIsClosed
    BY <1>2, <1>3, BlockIsClosed DEF MemoryIsClosed, UserFiles
  <1>11. HookStands
    <2>1. machine.agents \subseteq Agents
      BY MachinesAssumption
    <2>2. \A a \in Agents : InstallPhase(a) \in {1, 5, 6}
      BY DEF InstallPhase, Agents
    <2>3. \A p \in Setups : \A a \in Agents : ~PastPart(p, InstallPhase(a))
      BY <1>2, <2>2 DEF PastPart, Processes
    <2> QED
      BY <2>1, <2>3 DEF HookStands
  <1>12. ReadsInIngest
    BY DEF ReadsInIngest, NoRead, Readers
  <1> QED
    BY <1>1, <1>4, <1>5, <1>6, <1>7, <1>8, <1>9, <1>10, <1>11, <1>12 DEF
                                                                         SettingsInv,
                                                                         FilesInv

-----------------------------------------------------------------------------
(* A setup that reads stays in the part that ingests.                      *)
LEMMA ReadingStays ==
  ASSUME SettingsInv, [Next]_vars
  PROVE  ReadsInIngest'
  <1> DEFINE Known == reading = [p \in Readers |-> reading[p]]
             Stay(p) == reading'[p].step # "none" => IsAt(p, "ingest", "files")'
  <1>1. /\ Known /\ \A p \in Setups : reading[p].step # "none" => IsAt(p, "ingest", "files")
        /\ at \in [Processes -> [phase : Nat, step : Steps]]
    BY DEF SettingsInv, FilesInv, ReadsInIngest, SettingsTypes
  <1>2. /\ Setups \subseteq Readers /\ Setups \subseteq Processes
        /\ Worker \notin Setups /\ Uploader \notin Setups
        /\ Worker \in Readers /\ Uploader \in Readers
    BY ProcessesAssumption DEF Readers, Processes
  <1>3. \A p \in Setups : at'[p] = at[p] /\ reading'[p] = reading[p] => Stay(p)
    BY <1>1, <1>2, OthersStay
  <1>4. SUFFICES Known' /\ \A p \in Setups : Stay(p)
    BY DEF ReadsInIngest
  <1>5. NoRead.step = "none"
    BY DEF NoRead
  <1>6. CASE UNCHANGED vars
    BY <1>1, <1>3, <1>6 DEF vars, localVars
  <1>7. CASE UNCHANGED <<at, reading>>
    BY <1>1, <1>3, <1>7
  <1>8. ASSUME UNCHANGED at, NEW p \in {Worker, Uploader}, NEW r,
               reading' = [reading EXCEPT ![p] = r]
        PROVE  Known' /\ \A q \in Setups : Stay(q)
    <2>1. Known'
      BY <1>1, <1>8
    <2>2. \A q \in Setups : reading'[q] = reading[q]
      BY <1>1, <1>2, <1>8
    <2> QED
      BY <1>3, <1>8, <2>1, <2>2
  <1>9. ASSUME NEW s \in Sessions,
               \/ Open(s) \/ BeginLine(s) \/ EndLine(s) \/ Close(s)
        PROVE  UNCHANGED <<at, reading>>
    BY <1>9 DEF Open, BeginLine, EndLine, Close, localVars
  <1>10. ASSUME NEW s \in Sessions, EndTurn(s) \/ TakeJob(s) \/ Discover(s)
         PROVE  Known' /\ \A q \in Setups : Stay(q)
    <2>1. CASE EndTurn(s)
      <3>1. reading' = [reading EXCEPT ![Worker] =
               [reading[Worker] EXCEPT !.current = @ /\ reading[Worker].session # s]]
        BY <2>1 DEF EndTurn
      <3>2. UNCHANGED at
        BY <2>1 DEF EndTurn
      <3> QED
        BY <1>8, <3>1, <3>2
    <2>2. CASE TakeJob(s)
      BY <1>8, <2>2 DEF TakeJob
    <2>3. CASE Discover(s)
      BY <1>8, <2>3 DEF Discover, UploadLeaves
    <2> QED
      BY <1>10, <2>1, <2>2, <2>3
  <1>11. ASSUME StoreJob \/ ReadDate \/ UploadText
         PROVE  Known' /\ \A q \in Setups : Stay(q)
    <2>1. CASE StoreJob
      BY <1>8, <2>1 DEF StoreJob, Leave
    <2>2. CASE ReadDate
      <3>1. UNCHANGED at
        BY <2>2 DEF ReadDate, UploadLeaves
      <3>2. CASE Leave(Uploader)
        BY <1>8, <3>1, <3>2 DEF Leave
      <3>3. CASE ~Leave(Uploader)
        <4>1. PICK meta : reading' = [reading EXCEPT ![Uploader].meta = meta,
                                                     ![Uploader].step = "text"]
          BY <2>2, <3>3 DEF ReadDate
        <4>2. reading' = [reading EXCEPT ![Uploader] =
                            [reading[Uploader] EXCEPT !.meta = meta, !.step = "text"]]
          BY <1>1, <1>2, <4>1
        <4> QED
          BY <1>8, <3>1, <4>2
      <3> QED
        BY <3>2, <3>3
    <2>3. CASE UploadText
      BY <1>8, <2>3 DEF UploadText, UploadLeaves, Leave
    <2> QED
      BY <1>11, <2>1, <2>2, <2>3
  <1>12. ASSUME NEW p \in Setups \cup {Worker},
                DetectSource(p) \/ ReadTurns(p) \/ ReadMeta(p)
         PROVE  Known' /\ \A q \in Setups : Stay(q)
    <2>1. PICK r : reading' = [reading EXCEPT ![p] = r]
      BY <1>12 DEF DetectSource, ReadTurns, ReadMeta, Raised, Rejected, Advance,
                   Leave
    <2>2. UNCHANGED at \/ (p # Worker /\ reading'[p].step = "none" /\ Halt(p, "aborted"))
      BY <1>1, <1>2, <1>5, <1>12 DEF DetectSource, ReadTurns, ReadMeta, Raised,
                                     Rejected,
                                Advance, Leave
    <2>3. reading[p].step # "none" /\ Known'
      BY <1>1, <1>12, <2>1 DEF DetectSource, ReadTurns, ReadMeta, Reads
    <2>4. ASSUME NEW q \in Setups
          PROVE  Stay(q)
      <3>1. CASE q # p
        <4>1. at'[q] = at[q] /\ reading'[q] = reading[q]
          BY <1>1, <1>2, <2>1, <2>2, <3>1 DEF Halt
        <4> QED
          BY <1>3, <4>1
      <3>2. CASE q = p
        <4>1. UNCHANGED at => Stay(q)
          BY <1>1, <1>2, <2>3, <3>2, OthersStay
        <4> QED
          BY <2>2, <3>2, <4>1
      <3> QED
        BY <3>1, <3>2
    <2> QED
      BY <2>3, <2>4
  <1>13. ASSUME NEW p \in Processes, NEW x, at' = [at EXCEPT ![p] = x], UNCHANGED reading,
                p \in Setups => reading[p].step = "none"
         PROVE  Known' /\ \A q \in Setups : Stay(q)
    <2>1. \A q \in Setups \ {p} : at'[q] = at[q]
      BY <1>1, <1>2, <1>13
    <2> QED
      BY <1>1, <1>3, <1>13, <2>1
  <1>14. ASSUME NEW p \in Setups,
                \/ Scan(p) \/ NextFile(p) \/ StoreBatch(p) \/ Skip(p) \/ WriteScript(p)
                \/ ReadFails(p)
         PROVE  Known' /\ \A q \in Setups : Stay(q)
    <2>1. CASE NextFile(p)
      <3>1. /\ UNCHANGED at /\ IsAt(p, "ingest", "files")
            /\ \E r : reading' = [reading EXCEPT ![p] = r]
        BY <2>1 DEF NextFile
      <3>2. Known' /\ \A q \in Setups \ {p} : reading'[q] = reading[q]
        BY <1>1, <1>2, <3>1
      <3>3. IsAt(p, "ingest", "files")'
        BY <1>2, <3>1, OthersStay
      <3> QED
        BY <1>3, <3>1, <3>2, <3>3
    <2>2. CASE ~NextFile(p)
      <3>1. UNCHANGED reading /\ \E x : at' = [at EXCEPT ![p] = x]
        <4>1. UNCHANGED reading
          BY <1>14, <2>2 DEF Scan, StoreBatch, Skip, WriteScript, ReadFails,
                             localVars
        <4>2. NextPart(p) \/ (\E step : Goto(p, step)) \/ Halt(p, "aborted")
          BY <1>14, <2>2 DEF Scan, StoreBatch, Skip, WriteScript, ReadFails
        <4>3. ASSUME NEW step, Goto(p, step)
              PROVE  at' = [at EXCEPT ![p] = [at[p] EXCEPT !.step = step]]
          BY <4>3 DEF Goto
        <4> QED
          BY <4>1, <4>2, <4>3 DEF NextPart, Halt
      <3>2. reading[p].step = "none"
        BY <1>1, <1>14, <2>2 DEF Scan, StoreBatch, Skip, WriteScript, ReadFails,
                                 IsAt
      <3> QED
        BY <1>2, <1>13, <3>1, <3>2
    <2> QED
      BY <2>1, <2>2
  <1>15. ASSUME NEW p \in Processes, Begin(p) \/ ReadUserFile(p) \/ Truncate(p) \/ Fill(p)
         PROVE  Known' /\ \A q \in Setups : Stay(q)
    <2>1. UNCHANGED reading /\ \E x : at' = [at EXCEPT ![p] = x]
      <3>1. UNCHANGED reading
        BY <1>15 DEF Begin, ReadUserFile, Truncate, Fill
      <3>2. NextPart(p) \/ (\E step : Goto(p, step)) \/ at' = [at EXCEPT ![p].phase = 1]
        BY <1>15 DEF Begin, ReadUserFile, Truncate, Fill
      <3>3. ASSUME NEW step, Goto(p, step)
            PROVE  at' = [at EXCEPT ![p] = [at[p] EXCEPT !.step = step]]
        BY <3>3 DEF Goto
      <3>4. at' = [at EXCEPT ![p].phase = 1] =>
              at' = [at EXCEPT ![p] = [at[p] EXCEPT !.phase = 1]]
        OBVIOUS
      <3> QED
        BY <3>1, <3>2, <3>3, <3>4 DEF NextPart
    <2>2. p \in Setups => reading[p].step = "none"
      <3>1. ~IsAt(p, "ingest", "files")
        BY <1>15 DEF Begin, ReadUserFile, Truncate, Fill, IsAt, Active
      <3> QED
        BY <1>1, <3>1
    <2> QED
      BY <1>13, <2>1, <2>2
  <1>16. ASSUME NEW p \in Processes, Die(p)
         PROVE  Known' /\ \A q \in Setups : Stay(q)
    <2>1. /\ at' = [at EXCEPT ![p] = [phase |-> 1, step |-> "died"]]
          /\ reading' = IF p \in Setups THEN [reading EXCEPT ![p] = NoRead] ELSE reading
      BY <1>16 DEF Die, Halt
    <2>2. Known' /\ \A q \in Setups \ {p} : reading'[q] = reading[q] /\ at'[q] = at[q]
      BY <1>1, <1>2, <2>1
    <2>3. p \in Setups => reading'[p] = NoRead
      BY <1>1, <1>2, <2>1
    <2> QED
      BY <1>3, <1>5, <2>2, <2>3
  <1>17. ASSUME NEW k \in UserFiles, Edit(k)
         PROVE  UNCHANGED <<at, reading>>
    BY <1>17 DEF Edit, localVars
  <1>18. CASE Next
    BY <1>7, <1>9, <1>10, <1>11, <1>12, <1>14, <1>15, <1>16, <1>17, <1>18 DEF
                                                                              Next
  <1> QED
    BY <1>6, <1>18

-----------------------------------------------------------------------------
(* What a part makes of a text.                                            *)
LEMMA HookOfAppend ==
  ASSUME NEW t \in OwnedText, NEW piece \in Pieces
  PROVE  /\ Contains(Append(t, piece), "wwt") <=> Contains(t, "wwt") \/ piece = "wwt"
         /\ piece # "wwt" => Places(Append(t, piece), "wwt") = Places(t, "wwt")
         /\ ~Contains(t, "wwt") => \A i, j \in Places(Append(t, "wwt"), "wwt") : i = j
  <1>1. ASSUME NEW x \in Pieces
        PROVE  LET u == Append(t, x)
               IN  /\ DOMAIN u = 1 .. Len(t) + 1 /\ Len(u) = Len(t) + 1 /\ Len(t) \in Nat
                   /\ DOMAIN t = 1 .. Len(t)
                   /\ \A i \in 1 .. Len(t) : u[i] = t[i]
                   /\ u[Len(t) + 1] = x
    BY AppendProperties DEF OwnedText
  <1>2. "wwt" \in Pieces
    BY DEF Pieces
  <1>3. Contains(Append(t, piece), "wwt") <=> Contains(t, "wwt") \/ piece = "wwt"
    BY <1>1 DEF Contains
  <1>4. piece # "wwt" => Places(Append(t, piece), "wwt") = Places(t, "wwt")
    BY <1>1 DEF Places
  <1>5. ~Contains(t, "wwt") => Places(Append(t, "wwt"), "wwt") \subseteq {Len(t) + 1}
    BY <1>1, <1>2 DEF Places, Contains
  <1> QED
    BY <1>3, <1>4, <1>5

LEMMA EditedText ==
  ASSUME SettingsInv, NEW p \in Processes, Active(p), Part(p).do # "ingest",
         NEW t \in OwnedText, Target(p) = Memory => ClosedBlocks(t)
  PROVE  /\ Edited(p, t) \in OwnedText
         /\ Own(Edited(p, t)) = Own(t)
         /\ Target(p) = Memory => ClosedBlocks(Edited(p, t))
         /\ Target(p) \in Agents =>
               /\ Part(p).do = "install"
               /\ Edited(p, t) = t <=> Contains(t, "wwt")
               /\ ~Contains(t, "wwt") => Edited(p, t) = Append(t, "wwt")
  <1>1. \/ Part(p).do = "install" /\ Target(p) \in Agents
        \/ Part(p).do \in {"remember", "remove"} /\ Target(p) = Memory
    BY PlaceKnown
  <1>2. Memory \notin Agents
    BY DEF Memory, Agents
  <1>3. CASE Part(p).do = "install" /\ Target(p) \in Agents
    <2>1. Edited(p, t) = Registered(t) /\ "wwt" \in Pieces
      BY <1>3 DEF Edited, Pieces
    <2>2. /\ Append(t, "wwt") \in OwnedText /\ Append(t, "wwt") # t
          /\ Own(Append(t, "wwt")) = Own(t)
      <3>1. Len(Append(t, "wwt")) = Len(t) + 1 /\ Len(t) \in Nat
        BY <2>1, AppendProperties DEF OwnedText
      <3> QED
        BY <2>1, <3>1, OwnOfAppend, PlacesFinite
    <2> QED
      BY <1>2, <1>3, <2>1, <2>2 DEF Registered
  <1>4. CASE Part(p).do \in {"remember", "remove"} /\ Target(p) = Memory
    <2>1. \/ Edited(p, t) = ReplaceBlocks(t, Block)
          \/ Edited(p, t) = ReplaceBlocks(t, <<>>)
          \/ Edited(p, t) = t \o Block
          \/ Edited(p, t) = t
      BY <1>4 DEF Edited, Upserted, Removed
    <2>2. /\ t \o Block \in OwnedText /\ ClosedBlocks(t \o Block)
          /\ Own(t \o Block) = Own(t)
      <3>1. Block \in OwnedText /\ ClosedBlocks(Block) /\ Own(Block) = 0
        BY BlockIsClosed
      <3>2. ClosedBlocks(t) /\ Own(t) \in Nat
        BY <1>4, PlacesFinite
      <3> HIDE DEF Block
      <3> QED
        BY <3>1, <3>2, OwnOfConcat, ClosedConcat
    <2>3. \A new \in {Block, <<>>} :
             /\ ReplaceBlocks(t, new) \in OwnedText
             /\ ClosedBlocks(ReplaceBlocks(t, new))
             /\ Own(ReplaceBlocks(t, new)) = Own(t)
      BY <1>4, ReplacingKeepsOwn
    <2> QED
      BY <1>2, <1>4, <2>1, <2>2, <2>3
  <1> QED
    BY <1>1, <1>3, <1>4

-----------------------------------------------------------------------------
(* The steps.                                                              *)
LEMMA StayKeepsFiles ==
  ASSUME SettingsInv, UNCHANGED settingsVars
  PROVE  FilesInv'
  <1> USE DEF SettingsInv, FilesInv, settingsVars
  <1>1. \A q \in Processes : at'[q] = at[q]
    OBVIOUS
  <1>2. SettingsTypes' /\ PlaceOfPart'
    BY DEF SettingsTypes, PlaceOfPart, Placed, Part
  <1>3. EmptyIsHeld' /\ ReadWithoutHook' /\ OwnIsRead' /\ MemoryIsClosed'
    BY <1>1, OthersStay DEF EmptyIsHeld, ReadWithoutHook, OwnIsRead,
                            MemoryIsClosed
  <1>4. HookOnce' /\ OwnStands'
    BY DEF HookOnce, OwnStands
  <1>5. ScriptFirst' /\ HookStands'
    BY <1>1, OthersStay DEF ScriptFirst, HookStands, Processes
  <1> QED
    BY <1>2, <1>3, <1>4, <1>5

LEMMA EditKeepsFiles ==
  ASSUME SettingsInv, NEW k \in UserFiles, Edit(k)
  PROVE  FilesInv'
  <1> USE DEF SettingsInv, FilesInv
  <1>1. /\ UNCHANGED <<machine, at, copy, homes, scripts>>
        /\ wrote' = [wrote EXCEPT ![k] = @ + 1]
        /\ owned' = [owned EXCEPT ![k] = [state |-> "whole", text |-> Append(@.text, "own")]]
        /\ disturbed' = IF \E p \in Processes : Holds(p, k)
                        THEN disturbed \cup {k} ELSE disturbed
    BY DEF Edit, agentVars, localVars, hookVars
  <1>2. \A q \in Processes : at'[q] = at[q]
    BY <1>1
  <1>3. "own" \in Pieces /\ SettingsTypes
    BY DEF Pieces
  <1> DEFINE t == owned[k].text
  <1>4. /\ t \in OwnedText /\ owned[k].state \in {"missing", "empty", "whole"}
        /\ owned'[k].state = "whole" /\ owned'[k].text = Append(t, "own")
        /\ wrote'[k] = wrote[k] + 1
        /\ \A other \in UserFiles \ {k} :
              owned'[other] = owned[other] /\ wrote'[other] = wrote[other]
    BY <1>1, <1>3 DEF SettingsTypes
  <1>5. Append(t, "own") \in OwnedText /\ Own(Append(t, "own")) = Own(t) + 1
    BY <1>3, <1>4, OwnOfAppend
  <1>6. SettingsTypes'
    <2>1. owned' \in [UserFiles -> [state : {"missing", "empty", "whole"}, text : OwnedText]]
      BY <1>1, <1>3, <1>5 DEF SettingsTypes
    <2> QED
      BY <1>1, <1>3, <2>1 DEF SettingsTypes
  <1>7. PlaceOfPart'
    BY <1>1 DEF PlaceOfPart, Placed, Part
  <1>8. k \in UserFiles \ disturbed' => \A p \in Processes : ~Holds(p, k)
    BY <1>1
  <1>9. disturbed \subseteq disturbed'
    BY <1>1
  <1>10. EmptyIsHeld'
    BY <1>2, <1>4, <1>9, OthersStay DEF EmptyIsHeld
  <1>11. HookOnce'
    <2>1. Contains(Append(t, "own"), "wwt") <=> Contains(t, "wwt")
      BY <1>3, <1>4, HookOfAppend
    <2>2. Places(Append(t, "own"), "wwt") = Places(t, "wwt")
      BY <1>3, <1>4, HookOfAppend
    <2> QED
      BY <1>1, <1>4, <2>1, <2>2 DEF HookOnce, UserFiles
  <1>12. ReadWithoutHook' /\ ScriptFirst'
    BY <1>1, <1>2, OthersStay DEF ReadWithoutHook, ScriptFirst
  <1>13. OwnStands'
    <2> SUFFICES ASSUME NEW f \in UserFiles \ disturbed', owned'[f].state # "empty"
                 PROVE  Own(owned'[f].text) = wrote'[f]
      BY DEF OwnStands
    <2>1. CASE f # k
      BY <1>4, <1>9, <2>1 DEF OwnStands
    <2>2. CASE f = k
      <3>1. owned[k].state # "empty"
        BY <1>8, <1>9, <2>2 DEF EmptyIsHeld
      <3>2. Own(t) = wrote[k]
        BY <1>9, <2>2, <3>1 DEF OwnStands
      <3> QED
        BY <1>4, <1>5, <2>2, <3>2
    <2> QED
      BY <2>1, <2>2
  <1>14. OwnIsRead'
    BY <1>1, <1>2, <1>4, <1>8, <1>9, OthersStay DEF OwnIsRead
  <1>15. MemoryIsClosed'
    BY <1>1, <1>2, <1>4, ClosedAppend, OthersStay DEF MemoryIsClosed, UserFiles
  <1>16. HookStands'
    <2> SUFFICES ASSUME NEW p \in Setups, NEW a \in machine.agents \ disturbed',
                        PastPart(p, InstallPhase(a))'
                 PROVE  owned'[a].state = "empty" \/ Contains(owned'[a].text, "wwt")
      BY <1>1 DEF HookStands
    <2>1. a \in UserFiles
      BY <1>3 DEF SettingsTypes, UserFiles
    <2>2. owned[a].state = "empty" \/ Contains(owned[a].text, "wwt")
      BY <1>2, <1>9, OthersStay DEF HookStands, Processes
    <2>3. CASE a # k
      BY <1>4, <2>1, <2>2, <2>3
    <2>4. CASE a = k
      <3>1. owned[k].state # "empty"
        BY <1>8, <1>9, <2>1, <2>4 DEF EmptyIsHeld
      <3>2. Contains(t, "wwt")
        BY <2>2, <2>4, <3>1
      <3>3. Contains(Append(t, "own"), "wwt")
        BY <1>3, <1>4, <3>2, HookOfAppend
      <3> QED
        BY <1>4, <2>4, <3>3
    <2> QED
      BY <2>3, <2>4
  <1> QED
    BY <1>6, <1>7, <1>10, <1>11, <1>12, <1>13, <1>14, <1>15, <1>16

(* A process that moves on and writes no file of the user.                 *)
LEMMA MoveKeepsFiles ==
  ASSUME SettingsInv, NEW p \in Processes,
         UNCHANGED <<machine, owned, copy, wrote, disturbed>>,
         homes \subseteq homes', homes' \subseteq Agents,
         scripts \subseteq scripts', scripts' \subseteq homes',
         at' \in [Processes -> [phase : Nat, step : Steps]],
         \A q \in Processes \ {p} : at'[q] = at[q],
         Placed(p)',
         \A k : ~Holds(p, k) /\ ~Holds(p, k)',
         (Active(p) /\ Part(p).do = "install" /\ at[p].step # "begin" =>
             Target(p) \in scripts)',
         p \in Setups => \A a \in machine.agents :
            PastPart(p, InstallPhase(a))' => PastPart(p, InstallPhase(a))
  PROVE  FilesInv'
  <1> USE DEF SettingsInv, FilesInv
  <1>1. SettingsTypes'
    BY DEF SettingsTypes
  <1>2. PlaceOfPart'
    BY DEF PlaceOfPart, Placed, Part
  <1>3. \A q \in Processes, k \in UserFiles :
          /\ Holds(q, k)' <=> Holds(q, k)
          /\ Holds(q, k) => at'[q] = at[q]
    BY OthersStay
  <1>4. EmptyIsHeld'
    BY <1>3 DEF EmptyIsHeld
  <1>5. HookOnce' /\ OwnStands'
    BY DEF HookOnce, OwnStands
  <1>6. ReadWithoutHook'
    BY <1>3 DEF ReadWithoutHook, UserFiles
  <1>7. OwnIsRead'
    BY <1>3 DEF OwnIsRead
  <1>8. MemoryIsClosed'
    BY <1>3 DEF MemoryIsClosed, UserFiles
  <1>9. ScriptFirst'
    BY OthersStay DEF ScriptFirst
  <1>10. HookStands'
    BY OthersStay DEF HookStands, Processes
  <1> QED
    BY <1>1, <1>2, <1>4, <1>5, <1>6, <1>7, <1>8, <1>9, <1>10

LEMMA BeginKeepsFiles ==
  ASSUME SettingsInv, NEW p \in Processes, Begin(p)
  PROVE  FilesInv'
  <1> USE DEF SettingsInv, FilesInv
  <1>1. /\ UNCHANGED <<machine, owned, copy, wrote, disturbed, homes, scripts>>
        /\ at' = [at EXCEPT ![p].phase = 1] /\ at[p].phase = 0
    BY DEF Begin, agentVars, userVars, hookVars
  <1>2. SettingsTypes /\ at[p].step = "begin"
    BY <1>1 DEF PlaceOfPart, Placed
  <1>3. /\ at' \in [Processes -> [phase : Nat, step : Steps]]
        /\ \A q \in Processes \ {p} : at'[q] = at[q]
        /\ at'[p].phase = 1 /\ at'[p].step = "begin"
    BY <1>1, <1>2 DEF SettingsTypes
  <1>4. Placed(p)'
    <2>1. Len(PlanOf(p)) \in Nat \ {0}
      BY PlanOfSetup, PlanOfRemover DEF Processes
    <2> QED
      BY <1>3, <2>1 DEF Placed, StepsOf
  <1>5. \A k : ~Holds(p, k) /\ ~Holds(p, k)'
    BY <1>1, <1>3 DEF Holds, Active
  <1>6. p \in Setups => \A a \in machine.agents : ~PastPart(p, InstallPhase(a))'
    <2>1. \A a \in Agents : InstallPhase(a) \in {1, 5, 6}
      BY DEF InstallPhase, Agents
    <2>2. machine.agents \subseteq Agents
      BY <1>2 DEF SettingsTypes
    <2> QED
      BY <1>3, <2>1, <2>2 DEF PastPart
  <1> QED
    BY <1>1, <1>2, <1>3, <1>4, <1>5, <1>6, MoveKeepsFiles DEF SettingsTypes

LEMMA WalkKeepsFiles ==
  ASSUME SettingsInv, NEW p \in Setups, Walk(p)
  PROVE  FilesInv'
  <1> USE DEF SettingsInv, FilesInv
  <1>1. /\ UNCHANGED <<machine, owned, copy, wrote, disturbed, homes, scripts>>
        /\ Active(p) /\ at[p].step \notin {"truncate", "fill"}
        /\ p \in Processes /\ SettingsTypes
    BY DEF Walk, Processes
  <1>2. \A k : ~Holds(p, k)
    BY <1>1 DEF Holds
  <1>3. /\ at[p].phase \in 1 .. Len(PlanOf(p)) /\ at[p].step \in StepsOf(Part(p).do)
        /\ at \in [Processes -> [phase : Nat, step : Steps]]
    BY <1>1, PlaceKnown DEF SettingsTypes
  <1>4. CASE Halt(p, "aborted")
    <2>1. at' = [at EXCEPT ![p] = [phase |-> 1, step |-> "aborted"]]
      BY <1>4 DEF Halt
    <2>2. [phase |-> 1, step |-> "aborted"] \in [phase : Nat, step : Steps]
      BY DEF Steps, Over
    <2>3. /\ at' \in [Processes -> [phase : Nat, step : Steps]]
          /\ \A q \in Processes \ {p} : at'[q] = at[q]
          /\ at'[p].phase = 1 /\ at'[p].step = "aborted"
      BY <1>1, <1>3, <2>1, <2>2
    <2>4. Placed(p)' /\ ~Active(p)' /\ \A k : ~Holds(p, k)'
      BY <2>3 DEF Placed, Over, Active, Holds
    <2>5. \A n : ~PastPart(p, n)'
      BY <2>3 DEF PastPart, Over
    <2> QED
      BY <1>1, <1>2, <2>3, <2>4, <2>5, MoveKeepsFiles DEF SettingsTypes
  <1>5. CASE Part(p).do = "ingest" /\ Goto(p, "files")
    <2>1. /\ at' \in [Processes -> [phase : Nat, step : Steps]]
          /\ \A q \in Processes \ {p} : at'[q] = at[q]
          /\ at'[p].phase = at[p].phase /\ at'[p].step = "files"
      BY <1>1, <1>3, <1>5 DEF Goto, Steps
    <2>2. Part(p)' = Part(p)
      BY <2>1 DEF Part
    <2>3. Placed(p)'
      BY <1>3, <1>5, <2>1, <2>2 DEF Placed, StepsOf
    <2>4. \A k : ~Holds(p, k)'
      BY <2>1 DEF Holds
    <2>5. \A n : PastPart(p, n)' => PastPart(p, n)
      BY <1>1, <2>1 DEF PastPart, Over, Active
    <2> QED
      BY <1>1, <1>2, <1>5, <2>1, <2>2, <2>3, <2>4, <2>5, MoveKeepsFiles DEF
                                                                            SettingsTypes
  <1>6. CASE (Part(p).do = "ingest" \/ Target(p) \notin machine.agents) /\ NextPart(p)
    <2>1. /\ at' \in [Processes -> [phase : Nat, step : Steps]]
          /\ \A q \in Processes \ {p} : at'[q] = at[q]
          /\ \/ at'[p].phase = 1 /\ at'[p].step = "ended"
             \/ /\ at'[p].phase \in 1 .. Len(PlanOf(p)) /\ at'[p].step = "begin"
                /\ "begin" \in StepsOf(Part(p).do)'
          /\ \A k : ~Holds(p, k)'
          /\ \A a \in Agents :
                PastPart(p, InstallPhase(a))' =>
                   \/ PastPart(p, InstallPhase(a))
                   \/ Part(p).do = "install" /\ Target(p) = a
      BY <1>1, <1>6, NextPartPlace
    <2>2. Placed(p)'
      BY <2>1 DEF Placed, Over
    <2>3. \A a \in machine.agents : PastPart(p, InstallPhase(a))' => PastPart(p, InstallPhase(a))
      <3>1. machine.agents \subseteq Agents
        BY <1>1 DEF SettingsTypes
      <3> QED
        BY <1>6, <2>1, <3>1
    <2>4. Active(p)' => at'[p].step = "begin"
      BY <2>1 DEF Active, Over
    <2> QED
      BY <1>1, <1>2, <2>1, <2>2, <2>3, <2>4, MoveKeepsFiles DEF SettingsTypes
  <1> QED
    BY <1>4, <1>5, <1>6 DEF Walk

LEMMA WriteScriptKeepsFiles ==
  ASSUME SettingsInv, NEW p \in Setups, WriteScript(p)
  PROVE  FilesInv'
  <1> USE DEF SettingsInv, FilesInv
  <1>1. /\ UNCHANGED <<machine, owned, copy, wrote, disturbed>>
        /\ homes' = homes \cup {Target(p)} /\ scripts' = scripts \cup {Target(p)}
        /\ Active(p) /\ Part(p).do = "install" /\ at[p].step = "begin" /\ Goto(p, "read")
        /\ p \in Processes /\ SettingsTypes
    BY DEF WriteScript, IsAt, agentVars, userVars, Processes
  <1>2. /\ at[p].phase \in 1 .. Len(PlanOf(p)) /\ Target(p) \in Agents
        /\ at \in [Processes -> [phase : Nat, step : Steps]]
    BY <1>1, PlaceKnown DEF SettingsTypes
  <1>3. /\ at' \in [Processes -> [phase : Nat, step : Steps]]
        /\ \A q \in Processes \ {p} : at'[q] = at[q]
        /\ at'[p].phase = at[p].phase /\ at'[p].step = "read"
    BY <1>1, <1>2 DEF Goto, Steps
  <1>4. Part(p)' = Part(p) /\ Target(p)' = Target(p)
    BY <1>3 DEF Part, Target
  <1>5. Placed(p)'
    BY <1>1, <1>2, <1>3, <1>4 DEF Placed, StepsOf
  <1>6. \A k : ~Holds(p, k) /\ ~Holds(p, k)'
    BY <1>1, <1>3 DEF Holds
  <1>7. \A n : PastPart(p, n)' => PastPart(p, n)
    BY <1>1, <1>3 DEF PastPart, Over, Active
  <1>8. /\ homes \subseteq homes' /\ homes' \subseteq Agents
        /\ scripts \subseteq scripts' /\ scripts' \subseteq homes'
    BY <1>1, <1>2 DEF SettingsTypes
  <1> QED
    BY <1>1, <1>3, <1>4, <1>5, <1>6, <1>7, <1>8, MoveKeepsFiles

LEMMA TruncateKeepsFiles ==
  ASSUME SettingsInv, NEW p \in Processes, Truncate(p)
  PROVE  FilesInv'
  <1> USE DEF SettingsInv, FilesInv
  <1> DEFINE k == Target(p)
  <1>1. /\ UNCHANGED <<machine, copy, wrote, disturbed, homes, scripts>>
        /\ Active(p) /\ at[p].step = "truncate" /\ Goto(p, "fill") /\ SettingsTypes
        /\ owned' = [owned EXCEPT ![k] = [state |-> "empty", text |-> <<>>]]
    BY DEF Truncate, agentVars, hookVars
  <1>2. /\ at[p].phase \in 1 .. Len(PlanOf(p)) /\ k \in UserFiles /\ Holds(p, k)
        /\ at[p].step \in StepsOf(Part(p).do)
        /\ at \in [Processes -> [phase : Nat, step : Steps]]
    BY <1>1, PlaceKnown DEF SettingsTypes
  <1>3. /\ at' \in [Processes -> [phase : Nat, step : Steps]]
        /\ \A q \in Processes \ {p} : at'[q] = at[q]
        /\ at'[p].phase = at[p].phase /\ at'[p].step = "fill"
    BY <1>1, <1>2 DEF Goto, Steps
  <1>4. Part(p)' = Part(p) /\ Target(p)' = Target(p)
    BY <1>3 DEF Part, Target
  <1>5. \A q \in Processes : \A f : Holds(q, f)' <=> Holds(q, f)
    <2>1. \A f : Holds(p, f)' <=> Holds(p, f)
      BY <1>1, <1>3, <1>4 DEF Holds, Active, Over
    <2> QED
      BY <1>3, <2>1, OthersStay
  <1>6. /\ owned'[k].state = "empty" /\ owned'[k].text = <<>> /\ <<>> \in OwnedText
        /\ \A f \in UserFiles \ {k} : owned'[f] = owned[f]
    BY <1>1, <1>2 DEF SettingsTypes, OwnedText
  <1> HIDE DEF k
  <1>7. SettingsTypes'
    <2>1. owned' \in [UserFiles -> [state : {"missing", "empty", "whole"}, text : OwnedText]]
      BY <1>1, <1>6 DEF SettingsTypes
    <2> QED
      BY <1>1, <1>3, <2>1 DEF SettingsTypes
  <1>8. PlaceOfPart'
    <2>1. Placed(p)'
      BY <1>1, <1>2, <1>3, <1>4 DEF Placed, StepsOf
    <2> QED
      BY <1>3, <2>1 DEF PlaceOfPart, Placed, Part
  <1>9. EmptyIsHeld'
    <2>1. \A q \in Processes : at[q].step = "fill" => at'[q].step = "fill"
      BY <1>1, <1>3
    <2> QED
      BY <1>1, <1>2, <1>3, <1>5, <1>6, <2>1 DEF EmptyIsHeld
  <1>10. HookOnce'
    <2>1. Places(<<>>, "wwt") = {} /\ ~Contains(<<>>, "wwt")
      BY DEF Places, Contains
    <2> QED
      BY <1>1, <1>2, <1>6, <2>1 DEF HookOnce, UserFiles
  <1>11. ReadWithoutHook' /\ OwnIsRead'
    BY <1>1, <1>5 DEF ReadWithoutHook, OwnIsRead
  <1>12. ScriptFirst'
    <2>1. \A q \in Processes \ {p} :
             Active(q)' /\ (Part(q).do = "install")' /\ at'[q].step # "begin" =>
                Target(q)' \in scripts'
      BY <1>1, <1>3, OthersStay DEF ScriptFirst
    <2>2. Part(p).do = "install" => Target(p) \in scripts
      BY <1>1 DEF ScriptFirst
    <2> QED
      BY <1>1, <1>4, <2>1, <2>2 DEF ScriptFirst
  <1>13. OwnStands'
    BY <1>1, <1>6 DEF OwnStands
  <1>14. MemoryIsClosed'
    <2>1. ClosedBlocks(<<>>)
      BY BlockIsClosed
    <2> QED
      BY <1>1, <1>2, <1>5, <1>6, <2>1 DEF MemoryIsClosed, UserFiles
  <1>15. HookStands'
    <2>1. \A q \in Processes : \A n : PastPart(q, n)' => PastPart(q, n)
      <3>1. \A n : PastPart(p, n)' => PastPart(p, n)
        BY <1>1, <1>3 DEF PastPart, Over, Active
      <3> QED
        BY <1>3, <3>1, OthersStay
    <2>2. machine.agents \subseteq UserFiles
      BY <1>1 DEF SettingsTypes, UserFiles
    <2> QED
      BY <1>1, <1>6, <2>1, <2>2 DEF HookStands, Processes
  <1> QED
    BY <1>7, <1>8, <1>9, <1>10, <1>11, <1>12, <1>13, <1>14, <1>15

LEMMA DieKeepsFiles ==
  ASSUME SettingsInv, NEW p \in Processes, Die(p)
  PROVE  FilesInv'
  <1> USE DEF SettingsInv, FilesInv
  <1>1. /\ UNCHANGED <<machine, owned, wrote, homes, scripts>>
        /\ Active(p) /\ SettingsTypes
        /\ at' = [at EXCEPT ![p] = [phase |-> 1, step |-> "died"]]
        /\ copy' = [copy EXCEPT ![p] = <<>>]
        /\ disturbed' = IF at[p].step = "fill" THEN disturbed \cup {Target(p)}
                        ELSE disturbed
    BY DEF Die, Halt, agentVars, hookVars
  <1>2. [phase |-> 1, step |-> "died"] \in [phase : Nat, step : Steps]
    BY DEF Steps, Over
  <1>3. /\ at' \in [Processes -> [phase : Nat, step : Steps]]
        /\ \A q \in Processes \ {p} : at'[q] = at[q] /\ copy'[q] = copy[q]
        /\ at'[p].phase = 1 /\ at'[p].step = "died"
    BY <1>1, <1>2 DEF SettingsTypes
  <1>4. Placed(p)' /\ ~Active(p)' /\ \A f : ~Holds(p, f)'
    BY <1>3 DEF Placed, Over, Active, Holds
  <1>5. disturbed \subseteq disturbed' /\ Target(p) \in UserFiles
    BY <1>1, PlaceKnown
  <1>6. SettingsTypes'
    <2>1. <<>> \in OwnedText
      BY DEF OwnedText
    <2>2. disturbed' \subseteq UserFiles
      BY <1>1, <1>5 DEF SettingsTypes
    <2> QED
      BY <1>1, <1>3, <2>1, <2>2 DEF SettingsTypes
  <1>7. PlaceOfPart'
    BY <1>3, <1>4 DEF PlaceOfPart, Placed, Part
  <1>8. \A q \in Processes : \A f : Holds(q, f)' => q # p /\ Holds(q, f) /\ copy'[q] = copy[q]
    BY <1>3, <1>4, OthersStay
  <1>9. EmptyIsHeld'
    <2> SUFFICES ASSUME NEW f \in UserFiles \ disturbed', owned'[f].state = "empty"
                 PROVE  \E q \in Processes : Holds(q, f)' /\ at'[q].step = "fill"
      BY DEF EmptyIsHeld
    <2>1. PICK q \in Processes : Holds(q, f) /\ at[q].step = "fill"
      BY <1>1, <1>5 DEF EmptyIsHeld
    <2>2. q # p
      BY <1>1, <2>1 DEF Holds
    <2> QED
      BY <1>3, <2>1, <2>2, OthersStay
  <1>10. HookOnce' /\ OwnStands'
    BY <1>1, <1>5 DEF HookOnce, OwnStands
  <1>11. ReadWithoutHook'
    BY <1>8 DEF ReadWithoutHook
  <1>12. OwnIsRead'
    BY <1>1, <1>5, <1>8 DEF OwnIsRead
  <1>13. ScriptFirst'
    BY <1>1, <1>3, <1>4, OthersStay DEF ScriptFirst
  <1>14. MemoryIsClosed'
    BY <1>1, <1>8 DEF MemoryIsClosed
  <1>15. HookStands'
    <2>1. \A n : ~PastPart(p, n)'
      BY <1>3 DEF PastPart, Over
    <2> QED
      BY <1>1, <1>3, <1>5, <2>1, OthersStay DEF HookStands, Processes
  <1> QED
    BY <1>6, <1>7, <1>9, <1>10, <1>11, <1>12, <1>13, <1>14, <1>15

LEMMA FillKeepsFiles ==
  ASSUME SettingsInv, NEW p \in Processes, Fill(p)
  PROVE  FilesInv'
  <1> USE DEF SettingsInv, FilesInv
  <1> DEFINE k == Target(p)
             u == Edited(p, copy[p])
  <1>1. /\ UNCHANGED <<machine, wrote, disturbed, homes, scripts>>
        /\ Active(p) /\ at[p].step = "fill" /\ NextPart(p) /\ SettingsTypes
        /\ owned' = [owned EXCEPT ![k] = [state |-> "whole", text |-> u]]
        /\ copy' = [copy EXCEPT ![p] = <<>>]
    BY DEF Fill, agentVars, hookVars
  <1>2. k \in UserFiles /\ Holds(p, k) /\ Part(p).do # "ingest" /\ copy[p] \in OwnedText
    BY <1>1, PlaceKnown DEF SettingsTypes, Holds
  <1>3. k = Memory => ClosedBlocks(copy[p])
    BY <1>2 DEF MemoryIsClosed
  <1>4. /\ u \in OwnedText /\ Own(u) = Own(copy[p])
        /\ k = Memory => ClosedBlocks(u)
        /\ k \in Agents => /\ Part(p).do = "install"
                           /\ ~Contains(copy[p], "wwt") => u = Append(copy[p], "wwt")
    BY <1>1, <1>2, <1>3, EditedText
  <1>5. /\ at' \in [Processes -> [phase : Nat, step : Steps]]
        /\ \A q \in Processes \ {p} : at'[q] = at[q]
        /\ \/ at'[p].phase = 1 /\ at'[p].step = "ended"
           \/ /\ at'[p].phase \in 1 .. Len(PlanOf(p)) /\ at'[p].step = "begin"
              /\ "begin" \in StepsOf(Part(p).do)'
        /\ \A f : ~Holds(p, f)'
        /\ p \in Setups => \A a \in Agents :
              PastPart(p, InstallPhase(a))' =>
                 \/ PastPart(p, InstallPhase(a))
                 \/ Part(p).do = "install" /\ Target(p) = a
    BY <1>1, NextPartPlace
  <1>6. /\ owned'[k].state = "whole" /\ owned'[k].text = u
        /\ \A f \in UserFiles \ {k} : owned'[f] = owned[f]
        /\ \A q \in Processes \ {p} : copy'[q] = copy[q]
    BY <1>1, <1>2 DEF SettingsTypes
  <1>7. k \in Agents => /\ \A i, j \in Places(u, "wwt") : i = j
                        /\ Contains(u, "wwt") /\ k \in scripts
    <2> SUFFICES ASSUME k \in Agents
                 PROVE  /\ \A i, j \in Places(u, "wwt") : i = j
                        /\ Contains(u, "wwt") /\ k \in scripts
      OBVIOUS
    <2>1. ~Contains(copy[p], "wwt") /\ k \in scripts
      BY <1>1, <1>2, <1>4 DEF ReadWithoutHook, ScriptFirst
    <2>2. u = Append(copy[p], "wwt") /\ "wwt" \in Pieces
      BY <1>4, <2>1 DEF Pieces
    <2> QED
      BY <1>2, <2>1, <2>2, HookOfAppend
  <1> HIDE DEF k, u
  <1>8. SettingsTypes'
    <2>1. owned' \in [UserFiles -> [state : {"missing", "empty", "whole"}, text : OwnedText]]
      BY <1>1, <1>4 DEF SettingsTypes
    <2>2. copy' \in [Processes -> OwnedText]
      <3>1. <<>> \in OwnedText
        BY DEF OwnedText
      <3> QED
        BY <1>1, <3>1 DEF SettingsTypes
    <2> QED
      BY <1>1, <1>5, <2>1, <2>2 DEF SettingsTypes
  <1>9. PlaceOfPart'
    <2>1. Placed(p)'
      BY <1>5 DEF Placed, Over
    <2> QED
      BY <1>5, <2>1 DEF PlaceOfPart, Placed, Part
  <1>10. \A q \in Processes : \A f : Holds(q, f)' => q # p /\ Holds(q, f) /\ copy'[q] = copy[q]
    BY <1>5, <1>6, OthersStay
  <1>11. EmptyIsHeld'
    <2> SUFFICES ASSUME NEW f \in UserFiles \ disturbed', owned'[f].state = "empty"
                 PROVE  \E q \in Processes : Holds(q, f)' /\ at'[q].step = "fill"
      BY DEF EmptyIsHeld
    <2>1. f # k /\ f \in UserFiles \ disturbed /\ owned[f].state = "empty"
      BY <1>1, <1>6
    <2>2. PICK q \in Processes : Holds(q, f) /\ at[q].step = "fill"
      BY <2>1 DEF EmptyIsHeld
    <2>3. q # p
      BY <2>1, <2>2 DEF Holds, k
    <2> QED
      BY <1>5, <2>2, <2>3, OthersStay
  <1>12. HookOnce'
    BY <1>1, <1>6, <1>7 DEF HookOnce, UserFiles
  <1>13. ReadWithoutHook'
    BY <1>10 DEF ReadWithoutHook
  <1>14. OwnIsRead'
    BY <1>1, <1>10 DEF OwnIsRead
  <1>15. OwnStands'
    <2>1. k \notin disturbed => Own(u) = wrote[k]
      BY <1>2, <1>4 DEF OwnIsRead
    <2> QED
      BY <1>1, <1>6, <2>1 DEF OwnStands
  <1>16. ScriptFirst'
    <2>1. Active(p)' => at'[p].step = "begin"
      BY <1>5 DEF Active, Over
    <2> QED
      BY <1>1, <1>5, <2>1, OthersStay DEF ScriptFirst
  <1>17. MemoryIsClosed'
    BY <1>2, <1>4, <1>6, <1>10 DEF MemoryIsClosed, UserFiles
  <1>18. HookStands'
    <2> SUFFICES ASSUME NEW q \in Setups, NEW a \in machine.agents \ disturbed,
                        PastPart(q, InstallPhase(a))'
                 PROVE  owned'[a].state = "empty" \/ Contains(owned'[a].text, "wwt")
      BY <1>1 DEF HookStands
    <2>1. a \in Agents /\ a \in UserFiles
      BY <1>1 DEF SettingsTypes, UserFiles
    <2>2. CASE a = k
      BY <1>6, <1>7, <2>1, <2>2
    <2>3. CASE a # k
      <3>1. PastPart(q, InstallPhase(a))
        <4>1. CASE q = p
          BY <1>5, <2>1, <2>3, <4>1 DEF k
        <4>2. CASE q # p
          BY <1>5, <4>2, OthersStay DEF Processes
        <4> QED
          BY <4>1, <4>2
      <3> QED
        BY <1>6, <2>1, <2>3, <3>1 DEF HookStands
    <2> QED
      BY <2>2, <2>3
  <1> QED
    BY <1>8, <1>9, <1>11, <1>12, <1>13, <1>14, <1>15, <1>16, <1>17, <1>18

LEMMA ReadKeepsFiles ==
  ASSUME SettingsInv, NEW p \in Processes, ReadUserFile(p)
  PROVE  FilesInv'
  <1> USE DEF SettingsInv, FilesInv
  <1> DEFINE k == Target(p)
             t == owned[k].text
  <1>0. /\ UNCHANGED <<machine, owned, wrote, scripts>>
        /\ disturbed' = IF k = Memory /\ owned[Memory].state = "empty"
                        THEN disturbed \cup {Memory} ELSE disturbed
        /\ \/ IsAt(p, "install", "read") /\ owned[k].state # "empty"
           \/ IsAt(p, "remember", "begin")
           \/ IsAt(p, "remove", "begin")
        /\ \/ Edited(p, t) = t /\ NextPart(p) /\ UNCHANGED copy
           \/ Edited(p, t) # t /\ Goto(p, "truncate") /\ copy' = [copy EXCEPT ![p] = t]
        /\ homes' \in {homes, Agents}
        /\ SettingsTypes
    BY DEF ReadUserFile, agentVars
  <1>1. /\ UNCHANGED <<machine, owned, wrote, scripts>>
        /\ Active(p) /\ at[p].step \in {"begin", "read"} /\ Part(p).do # "ingest"
        /\ Part(p).do = "install" => at[p].step = "read" /\ owned[k].state # "empty"
        /\ \/ Edited(p, t) = t /\ NextPart(p) /\ UNCHANGED copy
           \/ Edited(p, t) # t /\ Goto(p, "truncate") /\ copy' = [copy EXCEPT ![p] = t]
        /\ disturbed' = IF owned[k].state = "empty" THEN disturbed \cup {k} ELSE disturbed
        /\ homes' \in {homes, Agents}
        /\ SettingsTypes
    <2>1. /\ Active(p) /\ at[p].step \in {"begin", "read"} /\ Part(p).do # "ingest"
          /\ Part(p).do = "install" => at[p].step = "read" /\ owned[k].state # "empty"
      BY <1>0 DEF IsAt
    <2>2. Part(p).do = "install" \/ k = Memory
      BY <1>0, <2>1, PlaceKnown DEF SettingsTypes
    <2>3. disturbed' = IF owned[k].state = "empty" THEN disturbed \cup {k} ELSE disturbed
      BY <1>0, <2>1, <2>2
    <2> QED
      BY <1>0, <2>1, <2>3
  <1>2. /\ k \in UserFiles /\ t \in OwnedText /\ at[p].step \in StepsOf(Part(p).do)
        /\ at[p].phase \in 1 .. Len(PlanOf(p))
        /\ at \in [Processes -> [phase : Nat, step : Steps]]
        /\ \/ Part(p).do = "install" /\ k \in Agents
           \/ Part(p).do \in {"remember", "remove"} /\ k = Memory
    BY <1>1, PlaceKnown DEF SettingsTypes
  <1>3. k = Memory => ClosedBlocks(t)
    BY DEF MemoryIsClosed
  <1>4. k \in Agents => (Edited(p, t) = t <=> Contains(t, "wwt"))
    BY <1>1, <1>2, <1>3, EditedText
  <1>5. disturbed \subseteq disturbed' /\ disturbed' \subseteq UserFiles
    BY <1>1, <1>2 DEF SettingsTypes
  <1>6. scripts \subseteq homes' /\ homes' \subseteq Agents /\ machine.agents \subseteq homes'
    BY <1>1 DEF SettingsTypes
  <1>7. CASE Edited(p, t) = t /\ NextPart(p) /\ UNCHANGED copy
    <2>1. /\ at' \in [Processes -> [phase : Nat, step : Steps]]
          /\ \A q \in Processes \ {p} : at'[q] = at[q]
          /\ \/ at'[p].phase = 1 /\ at'[p].step = "ended"
             \/ /\ at'[p].phase \in 1 .. Len(PlanOf(p)) /\ at'[p].step = "begin"
                /\ "begin" \in StepsOf(Part(p).do)'
          /\ \A f : ~Holds(p, f)'
          /\ p \in Setups => \A a \in Agents :
                PastPart(p, InstallPhase(a))' =>
                   \/ PastPart(p, InstallPhase(a))
                   \/ Part(p).do = "install" /\ Target(p) = a
      BY <1>1, <1>7, NextPartPlace
    <2>2. SettingsTypes'
      BY <1>1, <1>5, <1>6, <1>7, <2>1 DEF SettingsTypes
    <2>3. PlaceOfPart'
      <3>1. Placed(p)'
        BY <2>1 DEF Placed, Over
      <3> QED
        BY <2>1, <3>1 DEF PlaceOfPart, Placed, Part
    <2>4. \A q \in Processes : \A f : Holds(q, f)' <=> Holds(q, f)
      <3>1. \A f : ~Holds(p, f)
        BY <1>1 DEF Holds
      <3> QED
        BY <2>1, <3>1, OthersStay
    <2>5. \A q \in Processes : \A f : Holds(q, f) => at'[q] = at[q]
      BY <1>1, <2>1 DEF Holds
    <2>6. EmptyIsHeld'
      BY <1>1, <1>5, <2>4, <2>5 DEF EmptyIsHeld
    <2>7. HookOnce' /\ OwnStands'
      BY <1>1, <1>5 DEF HookOnce, OwnStands
    <2>8. ReadWithoutHook'
      BY <1>7, <2>4 DEF ReadWithoutHook
    <2>9. OwnIsRead'
      BY <1>1, <1>5, <1>7, <2>4 DEF OwnIsRead
    <2>10. MemoryIsClosed'
      BY <1>1, <1>7, <2>4 DEF MemoryIsClosed
    <2>11. ScriptFirst'
      <3>1. Active(p)' => at'[p].step = "begin"
        BY <2>1 DEF Active, Over
      <3> QED
        BY <1>1, <2>1, <3>1, OthersStay DEF ScriptFirst
    <2>12. HookStands'
      <3> SUFFICES ASSUME NEW q \in Setups, NEW a \in machine.agents \ disturbed',
                          PastPart(q, InstallPhase(a))'
                   PROVE  owned[a].state = "empty" \/ Contains(owned[a].text, "wwt")
        BY <1>1 DEF HookStands
      <3>1. a \in Agents
        BY <1>1 DEF SettingsTypes
      <3>2. CASE PastPart(q, InstallPhase(a))
        BY <1>5, <3>2 DEF HookStands
      <3>3. CASE ~PastPart(q, InstallPhase(a))
        <4>1. q = p
          BY <2>1, <3>3, OthersStay DEF Processes
        <4>2. k = a
          BY <2>1, <3>1, <3>3, <4>1
        <4> QED
          BY <1>4, <1>7, <3>1, <4>2
      <3> QED
        BY <3>2, <3>3
    <2> QED
      BY <2>2, <2>3, <2>6, <2>7, <2>8, <2>9, <2>10, <2>11, <2>12
  <1>8. CASE Edited(p, t) # t /\ Goto(p, "truncate") /\ copy' = [copy EXCEPT ![p] = t]
    <2>1. /\ at' \in [Processes -> [phase : Nat, step : Steps]]
          /\ \A q \in Processes \ {p} : at'[q] = at[q] /\ copy'[q] = copy[q]
          /\ at'[p].phase = at[p].phase /\ at'[p].step = "truncate" /\ copy'[p] = t
      BY <1>1, <1>2, <1>8 DEF Goto, Steps, SettingsTypes
    <2>2. Part(p)' = Part(p) /\ Target(p)' = Target(p)
      BY <2>1 DEF Part, Target
    <2>3. SettingsTypes'
      <3>1. copy' \in [Processes -> OwnedText]
        BY <1>1, <1>2, <1>8 DEF SettingsTypes
      <3> QED
        BY <1>1, <1>5, <1>6, <2>1, <3>1 DEF SettingsTypes
    <2>4. PlaceOfPart'
      <3>1. Placed(p)'
        BY <1>2, <2>1, <2>2 DEF Placed, StepsOf
      <3> QED
        BY <2>1, <3>1 DEF PlaceOfPart, Placed, Part
    <2>5. \A f : ~Holds(p, f) /\ (Holds(p, f)' => f = k)
      BY <1>1, <2>1, <2>2 DEF Holds
    <2>6. \A q \in Processes : \A f :
             /\ Holds(q, f) => q # p /\ at'[q] = at[q] /\ Holds(q, f)'
             /\ Holds(q, f)' /\ q # p => Holds(q, f)
      BY <2>1, <2>5, OthersStay
    <2>7. EmptyIsHeld'
      BY <1>1, <1>5, <2>6 DEF EmptyIsHeld
    <2>8. HookOnce' /\ OwnStands'
      BY <1>1, <1>5 DEF HookOnce, OwnStands
    <2> HIDE DEF t
    <2>9. ReadWithoutHook'
      <3>1. k \in Agents => ~Contains(t, "wwt")
        BY <1>4, <1>8
      <3> QED
        BY <2>1, <2>5, <2>6, <3>1 DEF ReadWithoutHook
    <2>10. OwnIsRead'
      <3>1. k \notin disturbed' => Own(t) = wrote[k]
        BY <1>1, <1>2, <1>5 DEF OwnStands, t
      <3> QED
        BY <1>1, <1>5, <2>1, <2>5, <2>6, <3>1 DEF OwnIsRead
    <2>11. MemoryIsClosed'
      BY <1>1, <1>3, <2>1, <2>5, <2>6 DEF MemoryIsClosed
    <2>12. ScriptFirst'
      <3>1. Part(p).do = "install" => Target(p) \in scripts
        BY <1>1 DEF ScriptFirst
      <3> QED
        BY <1>1, <2>1, <2>2, <3>1, OthersStay DEF ScriptFirst
    <2>13. HookStands'
      <3>1. \A n : PastPart(p, n)' => PastPart(p, n)
        BY <1>1, <2>1 DEF PastPart, Over, Active
      <3> QED
        BY <1>1, <1>5, <2>1, <3>1, OthersStay DEF HookStands, Processes
    <2> QED
      BY <2>3, <2>4, <2>7, <2>8, <2>9, <2>10, <2>11, <2>12, <2>13
  <1> QED
    BY <1>1, <1>7, <1>8

-----------------------------------------------------------------------------
LEMMA NextKeepsSettings ==
  ASSUME SettingsInv, [Next]_vars
  PROVE  SettingsInv'
  <1>1. FilesInv'
    BY EveryStepSettings, StayKeepsFiles, EditKeepsFiles, BeginKeepsFiles, WalkKeepsFiles,
       WriteScriptKeepsFiles, TruncateKeepsFiles, DieKeepsFiles, FillKeepsFiles,
       ReadKeepsFiles DEF SettingsStep
  <1> QED
    BY <1>1, ReadingStays DEF SettingsInv

(* The inductive invariant of the files of the user.                       *)
THEOREM SettingsInvariant == Spec => []SettingsInv
  BY InitSettings, NextKeepsSettings, PTL DEF Spec

(* However many setups run, side by side, die and run again, no hook is    *)
(* registered twice, and none whose script is not there.                   *)
THEOREM HooksOnce == Spec => []HooksRegistered
  <1>1. SettingsInv => HooksRegistered
    <2> SUFFICES ASSUME SettingsInv, NEW a \in Agents
                 PROVE  /\ Cardinality(Places(owned[a].text, "wwt")) <= 1
                        /\ Contains(owned[a].text, "wwt") => a \in scripts
      BY DEF HooksRegistered
    <2>1. /\ \A i, j \in Places(owned[a].text, "wwt") : i = j
          /\ Contains(owned[a].text, "wwt") => a \in scripts
      BY DEF SettingsInv, FilesInv, HookOnce
    <2> DEFINE P == Places(owned[a].text, "wwt")
    <2>2. CASE P = {}
      BY <2>1, <2>2, FS_EmptySet
    <2>3. CASE P # {}
      <3>1. PICK i \in P : TRUE
        BY <2>3
      <3>2. P = {i}
        BY <2>1, <3>1
      <3>3. Cardinality(P) = 1
        BY <3>2, FS_Singleton
      <3> QED
        BY <2>1, <3>3
    <2> QED
      BY <2>2, <2>3
  <1> QED
    BY <1>1, SettingsInvariant, PTL

(* What the user wrote to a file that setups edit is still there, but for  *)
(* a setup that died in its write or a change between read and write.      *)
THEOREM OthersAreKept == Spec => []OthersKept
  <1>1. SettingsInv => OthersKept
    BY DEF SettingsInv, FilesInv, OthersKept, OwnStands, EmptyIsHeld, Own
  <1> QED
    BY <1>1, SettingsInvariant, PTL
===============================================================================
