------------------------------- MODULE MCSearch -------------------------------
(* Instances of Search for TLC.                                            *)
EXTENDS Search, TLC

CONSTANTS p1, p2

TwoSessions == {1, 2}
TwoProjects == 1 :> p1 @@ 2 :> p2
LongAndShort == 1 :> 8 @@ 2 :> 2

Long == [role |-> "user", chars |-> 200]

(* A long turn of the user, a short one, and a long answer.                *)
SomeTurns == { Long, [role |-> "user", chars |-> 40],
                     [role |-> "assistant", chars |-> 120] }

(* Sessions of which all chunks are kept.                                  *)
LongTranscripts ==
    { 1 :> [i \in 1 .. n |-> Long] @@ 2 :> [i \in 1 .. 2 |-> Long] : n \in {3, 4} }

OneOrTwo == {1, 2}

(* Below MediumScore, between the thresholds, and above HighScore.         *)
SomeScores == {50, 60, 75}
=============================================================================
