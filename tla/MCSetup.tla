-------------------------------- MODULE MCSetup --------------------------------
(* Instances of Setup for TLC.                                             *)
EXTENDS Setup

CONSTANTS s1, u1, u2, r1, w1, c1

OneSession == {s1}
TwoSetups == {u1, u2}
OneSetup == {u2}
OneRemover == {r1}

(* All three agents, whose sessions are open while one setup runs.  A gap  *)
(* in what is read of a .jsonl file of Gemini takes a fourth line.         *)
Workstation ==
    [agents |-> Agents, kinds |-> AllKinds \ {"gemini-jsonl"}, sessions |-> {s1},
     lines |-> 3, processes |-> {u1}, edited |-> {}]

LongGemini == [Workstation EXCEPT !.kinds = {"gemini-jsonl"}, !.lines = 4]

(* Sessions that are uploaded to a gateway while they are written.         *)
Remote == [Workstation EXCEPT !.kinds = AllKinds, !.lines = 4, !.processes = {c1}]

(* Claude Code alone, and no session: two setups and a removal run side by *)
(* side, and the user edits the files.                                     *)
Desk ==
    [agents |-> {"claude-code"}, kinds |-> {"claude"}, sessions |-> {},
     lines |-> 0, processes |-> {u1, u2, r1}, edited |-> {"claude-code", Memory}]

(* The same without the removal and the edits.                             *)
Again == [Desk EXCEPT !.processes = {u1, u2}, !.edited = {}]

SetupMachines == {Workstation, LongGemini, Remote, Desk}
AgainMachines == {Again}
=============================================================================
