--------------------------- MODULE OperationLedger --------------------------
(***************************************************************************)
(* What the workspace promises about its operations, without files,        *)
(* handlers or crashes: an operation is opened once, moves along the       *)
(* lifecycle of ADR-0004 one step at a time and never leaves a terminal    *)
(* status, and the business history holds at most one entry for it, made   *)
(* after it was completed or failed and showing that status.  Of the       *)
(* history any part may be lost, but only while an entry is made.          *)
(***************************************************************************)
CONSTANT Ids   \* the operations that may be opened

VARIABLES
    status,    \* operation -> its lifecycle status, "none" before it is opened
    entry      \* operation -> the status its history entry shows, or "none"

\* The lifecycle: the pairs of statuses a step may join.
Lifecycle ==
    {<<"none", "created">>, <<"created", "executing">>,
     <<"executing", "completed">>, <<"executing", "failed">>,
     <<"executing", "awaiting_escalation">>,
     <<"awaiting_escalation", "executing">>, <<"awaiting_escalation", "rejected">>}

Init ==
    /\ status = [o \in Ids |-> "none"]
    /\ entry = [o \in Ids |-> "none"]

Move(o) ==
    /\ \E s \in {"created", "executing", "awaiting_escalation",
                 "completed", "failed", "rejected"} :
          /\ <<status[o], s>> \in Lifecycle
          /\ status' = [status EXCEPT ![o] = s]
    /\ UNCHANGED entry

Record(o) ==
    /\ status[o] \in {"completed", "failed"}
    /\ entry[o] = "none"
    /\ entry' = [entry EXCEPT ![o] = status[o]]
    /\ UNCHANGED status

\* A rewrite of the history that was to record o is interrupted: a part of it
\* remains, with or without the new entry.
Interrupted(o) ==
    /\ status[o] \in {"completed", "failed"}
    /\ entry[o] = "none"
    /\ \E kept \in SUBSET Ids :
          entry' = [p \in Ids |-> IF p \notin kept THEN "none"
                                 ELSE IF p = o THEN status[o] ELSE entry[p]]
    /\ UNCHANGED status

Next == \E o \in Ids : Move(o) \/ Record(o) \/ Interrupted(o)

Spec == Init /\ [][Next]_<<status, entry>>
=============================================================================
