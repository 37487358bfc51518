----------------------------- MODULE MCBm25Cache -----------------------------
(* Instances of Bm25Cache for TLC.                                         *)
EXTENDS Bm25Cache, TLC

CONSTANTS w1, w2, r1, s1

OneWorker == {w1}
TwoWorkers == {w1, w2}
OneServer == {r1}
OneSetup == {s1}
NoProcess == {}
Everyone == Processes

WorkerSymmetry == Permutations(Workers)
=============================================================================
