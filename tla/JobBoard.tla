------------------------------ MODULE JobBoard ------------------------------
(***************************************************************************)
(* What the Jobs view of a workspace promises: a job appears as running,   *)
(* ends once, as completed or as failed, and the Founder decides on it     *)
(* only when it is completed; a decision may be changed, never lost.       *)
(* The promise of a job ends when a second run takes its number.           *)
(***************************************************************************)
CONSTANTS Jobs, Verdicts, NoVerdict

VARIABLES status, verdict

Init ==
    /\ status = [j \in Jobs |-> "none"]
    /\ verdict = [j \in Jobs |-> NoVerdict]

Appear(j) ==
    /\ status[j] = "none"
    /\ status' = [status EXCEPT ![j] = "running"]
    /\ UNCHANGED verdict

End(j) ==
    /\ status[j] = "running"
    /\ \E s \in {"completed", "failed"} : status' = [status EXCEPT ![j] = s]
    /\ UNCHANGED verdict

Decide(j) ==
    /\ status[j] = "completed"
    /\ \E v \in Verdicts : verdict' = [verdict EXCEPT ![j] = v]
    /\ UNCHANGED status

\* A second run has opened the file of j: nothing is promised any more.
Contest(j) ==
    /\ status' = [status EXCEPT ![j] = "contested"]
    /\ verdict' = [verdict EXCEPT ![j] = NoVerdict]

Next == \E j \in Jobs : Appear(j) \/ End(j) \/ Decide(j) \/ Contest(j)

Spec == Init /\ [][Next]_<<status, verdict>>
=============================================================================
