--------------------------- MODULE MCSessionStores ---------------------------
(* Instances of SessionStores for TLC.                                     *)
EXTENDS SessionStores, TLC

CONSTANTS i1, i2, u1, c1, m1

TwoIngesters == {i1, i2}
OneSetup == {u1}
OneRecaller == {c1}
OneMigrator == {m1}

(* Turns of which any two are kept.                                        *)
LongTurn == { [role |-> "user", chars |-> 200] }

Symmetry == Permutations(Ingesters)
=============================================================================
