------------------------------ MODULE MCGateway ------------------------------
(* Instances of Gateway for TLC.                                           *)
EXTENDS Gateway, TLC

CONSTANTS s1, s2, r1, r2

OneSession == {s1}
TwoSessions == {s1, s2}
OneRequest == {r1}
TwoRequests == {r1, r2}
NoSession == {}
SecondSession == {s2}

RequestSymmetry == Permutations(Requests)
(* The first session is sent before its first chunk and with two outlines, *)
(* the second before its first chunk and once after.                       *)
Growth == [s \in TwoSessions |-> IF s = s1 THEN 3 ELSE 2]
OnceEach == [s \in TwoSessions |-> 1]
=============================================================================
