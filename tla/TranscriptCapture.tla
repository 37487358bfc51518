-------------------------- MODULE TranscriptCapture --------------------------
(***************************************************************************)
(* What deferred ingestion promises for each transcript, without hooks,    *)
(* workers, locks or stores: a capture that was requested stays wanted     *)
(* until the stores hold at least the content asked for, or until it is    *)
(* given up, visibly, as failed; and what was captured stays captured.     *)
(***************************************************************************)
EXTENDS Naturals

CONSTANT Paths

VARIABLES
    status,   \* status[p]: "done", "wanted" or "failed"
    asked,    \* asked[p]: the content the last request asked for
    have      \* have[p]: the content that can be searched and recalled

vars == <<status, asked, have>>

TypeOK ==
    /\ status \in [Paths -> {"done", "wanted", "failed"}]
    /\ asked \in [Paths -> Nat]
    /\ have \in [Paths -> Nat]

Init ==
    /\ status = [p \in Paths |-> "done"]
    /\ asked = [p \in Paths |-> 0]
    /\ have = [p \in Paths |-> 0]

(* A session ends: its transcript is asked for as it is now.               *)
Request(p) ==
    /\ status' = [status EXCEPT ![p] = "wanted"]
    /\ asked' \in [Paths -> Nat]
    /\ asked[p] <= asked'[p]
    /\ \A q \in Paths \ {p} : asked'[q] = asked[q]
    /\ UNCHANGED have

(* The stores change, for better or worse, but what is done stays done.    *)
Work ==
    /\ have' \in [Paths -> Nat]
    /\ \A p \in Paths : status[p] = "done" => asked[p] <= have'[p]
    /\ UNCHANGED <<status, asked>>

Complete(p) ==
    /\ status[p] = "wanted"
    /\ asked[p] <= have[p]
    /\ status' = [status EXCEPT ![p] = "done"]
    /\ UNCHANGED <<asked, have>>

GiveUp(p) ==
    /\ status[p] = "wanted"
    /\ status' = [status EXCEPT ![p] = "failed"]
    /\ UNCHANGED <<asked, have>>

Next == Work \/ \E p \in Paths : Request(p) \/ Complete(p) \/ GiveUp(p)

Spec == Init /\ [][Next]_vars

(* No transcript is believed captured without being so.                    *)
DoneIsCaptured == \A p \in Paths : status[p] = "done" => asked[p] <= have[p]
=============================================================================
