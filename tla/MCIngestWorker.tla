--------------------------- MODULE MCIngestWorker ---------------------------
(* Instances of IngestWorker for TLC.                                      *)
EXTENDS IngestWorker, TLC

CONSTANTS p1, p2, h1, h2, w1, w2

OnePath == {p1}
TwoPaths == {p1, p2}
OneHook == {h1}
TwoHooks == {h1, h2}
OneWorker == {w1}
TwoWorkers == {w1, w2}
NoWorker == {}
OneOnce == {w2}
Everyone == Hooks \cup Workers
NoProcess == {}
AnyContent == 1 .. MaxContent
SecondContent == {2}

HookSymmetry == Permutations(Hooks)
HookWorkerSymmetry == Permutations(Hooks) \cup Permutations(Workers)
=============================================================================
