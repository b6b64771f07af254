--------------------------- MODULE Notifications ---------------------------
(***************************************************************************)
(* The attention list of a workspace: heartbeats posted on operations, the *)
(* notifications computed from operations, heartbeats and the executive    *)
(* review on every request, and the file of acknowledged notification ids. *)
(*                                                                         *)
(* Handlers run one at a time.  Each of the three kinds of file is emptied *)
(* and then written, so a handler is two steps and Crash may fall between  *)
(* them.  Time is the age of a record in steps of the clock, counted up to *)
(* Threshold, past which nothing in the code tells two ages apart.         *)
(***************************************************************************)
EXTENDS IdSequence, FiniteSets

CONSTANTS
    Ops,         \* operations of the workspace
    MaxBeats,    \* bound: heartbeat files
    Threshold,   \* stale_threshold_hours, in steps of the clock
    Reviews,     \* what executive reviews find: a set of sets of <<category, subject>>
    MaxAcks,     \* bound: ids in the acknowledgement file
    MaxCrashes   \* bound: deaths of the process

ASSUME NotificationsAssumption ==
    /\ MaxBeats \in Nat
    /\ MaxAcks \in Nat
    /\ Threshold \in Nat
    /\ MaxCrashes \in Nat
    \* the categories of a review are its own
    /\ \A found \in Reviews : \A s \in found : s[1] \notin {"escalated", "blocked", "stale"}

BeatIds == 1 .. MaxBeats
NoOp    == "no operation"

VARIABLES
    op,       \* operation -> status of its record, "absent" or "torn"
    age,      \* operation -> time since created_at
    beat,     \* heartbeat number -> its file
    acks,     \* notifications_ack.yaml
    review,   \* what the review finds now, or Unreadable
    h,        \* the handler between emptying a file and writing it
    told,     \* history: operation -> status of the last heartbeat answered
    given,    \* history: acknowledgements answered, as <<category, subject>>
    crashes   \* deaths of the process so far

vars == <<op, age, beat, acks, review, h, told, given, crashes>>

-----------------------------------------------------------------------------
(* Records *)

Active       == {"created", "executing", "awaiting_escalation"}
OpStatuses   == Active \cup {"completed", "failed", "rejected"}
BeatStatuses == {"active", "blocked", "waiting"}

\* append_heartbeat raises for any other status.
Accepted == BeatStatuses
Ages         == 0 .. Threshold
Unreadable   == {<<"unreadable", "review">>}

Beat   == [file : {"absent", "torn", "saved"}, op : Ops \cup {NoOp},
           status : BeatStatuses, age : Ages]
NoBeat == [file |-> "absent", op |-> NoOp, status |-> "active", age |-> 0]

\* What a notification is about.
Subjects == {"escalated", "blocked", "stale"} \X Ops \cup UNION Reviews

\* Faulty variant: one id for both alarms of a KPI.
IdOfCategory(s) ==
    IF s[1] \in {"kpi-offtrack", "kpi-atrisk"} THEN <<"kpi", s[2]>> ELSE s

\* The id of a notification, f"notif-{category}-{subject}".
NotificationId(s) == s

Handler == [at : {"idle", "op", "beat", "ack"},
            op : Ops \cup {NoOp}, status : OpStatuses, beat : BeatIds \cup {0},
            rec : Beat, ids : SUBSET Subjects, subject : Subjects \cup {<<>>}]
Idle == [at |-> "idle", op |-> NoOp, status |-> "created", beat |-> 0,
         rec |-> NoBeat, ids |-> {}, subject |-> <<>>]

-----------------------------------------------------------------------------
(* HeartbeatStore and HeartbeatRuntime *)

\* generate_heartbeat_id: a torn file keeps its number.
NextBeat == NextFileId({b \in BeatIds : beat[b].file # "absent"})

\* list_by_operation: a file that does not load is skipped.
BeatsOf(o) == {b \in BeatIds : beat[b].file = "saved" /\ beat[b].op = o}

\* Faulty variant: the list is not reversed.
OldestBeat(o) == IF BeatsOf(o) = {} THEN 0
                 ELSE CHOOSE b \in BeatsOf(o) : \A c \in BeatsOf(o) : b <= c

\* get_latest: timestamps grow with the numbers; 0 for None.
LatestBeat(o) == Highest(BeatsOf(o))

\* find_stale_operations: since the latest heartbeat, or else since creation.
Elapsed(o) == IF LatestBeat(o) # 0 THEN beat[LatestBeat(o)].age ELSE age[o]

\* Faulty variant: an operation without heartbeats is not looked at.
StaleIfBeats == {o \in Ops : op[o] \in Active /\ BeatsOf(o) # {}
                                /\ Elapsed(o) >= Threshold}
StaleOps     == {o \in Ops : op[o] \in Active /\ Elapsed(o) >= Threshold}

BlockedOps == {o \in Ops : /\ op[o] \in Active
                           /\ LatestBeat(o) # 0
                           /\ beat[LatestBeat(o)].status = "blocked"}

-----------------------------------------------------------------------------
(* NotificationRuntime and AcknowledgementStore *)

\* generate_notifications; a review that raises contributes nothing.
Current ==
    (   {<<"escalated", o>> : o \in {p \in Ops : op[p] = "awaiting_escalation"}}
     \cup {<<"blocked", o>> : o \in BlockedOps}
     \cup {<<"stale", o>> : o \in StaleOps}
     \cup (IF review = Unreadable THEN {} ELSE review))

\* AcknowledgementStore.load: an empty file is an empty set.
AckedIds == IF acks.file = "saved" THEN acks.ids ELSE {}

\* apply_acknowledgements and filter_unread.
Acknowledged == {s \in Current : NotificationId(s) \in AckedIds}
Unread       == Current \ Acknowledged

-----------------------------------------------------------------------------
TypeOK ==
    /\ op \in [Ops -> OpStatuses \cup {"absent", "torn"}]
    /\ age \in [Ops -> Ages]
    /\ beat \in [BeatIds -> Beat]
    /\ acks \in [file : {"absent", "torn", "saved"}, ids : SUBSET Subjects]
    /\ review \in Reviews \cup {Unreadable}
    /\ h \in Handler
    /\ told \in [Ops -> BeatStatuses \cup {"nothing"}]
    /\ given \subseteq Subjects
    /\ crashes \in 0 .. MaxCrashes

Init ==
    /\ op = [o \in Ops |-> "absent"]
    /\ age = [o \in Ops |-> 0]
    /\ beat = [b \in BeatIds |-> NoBeat]
    /\ acks = [file |-> "absent", ids |-> {}]
    /\ review \in Reviews \cup {Unreadable}
    /\ h = Idle
    /\ told = [o \in Ops |-> "nothing"]
    /\ given = {}
    /\ crashes = 0

-----------------------------------------------------------------------------
(* The operations change: HermesService, or a person who escalates one *)

Lifecycle == {<<"absent", "created">>, <<"created", "executing">>,
              <<"executing", "awaiting_escalation">>,
              <<"awaiting_escalation", "executing">>,
              <<"awaiting_escalation", "rejected">>,
              <<"executing", "completed">>, <<"executing", "failed">>}

SaveOperation(o) ==
    /\ h.at = "idle"
    /\ \E s \in OpStatuses :
          /\ <<op[o], s>> \in Lifecycle
          /\ h' = [Idle EXCEPT !.at = "op", !.op = o, !.status = s]
    /\ op' = [op EXCEPT ![o] = "torn"]
    /\ age' = IF op[o] = "absent" THEN [age EXCEPT ![o] = 0] ELSE age
    /\ UNCHANGED <<beat, acks, review, told, given, crashes>>

FinishOperation ==
    /\ h.at = "op"
    /\ op' = [op EXCEPT ![h.op] = h.status]
    /\ h' = Idle
    /\ UNCHANGED <<age, beat, acks, review, told, given, crashes>>

\* create_heartbeat: any operation that loads may get one, a closed one too.
CreateHeartbeat(o) ==
    /\ h.at = "idle"
    /\ op[o] \in OpStatuses
    /\ NextBeat \in BeatIds
    /\ \E s \in Accepted :
          h' = [Idle EXCEPT !.at = "beat", !.beat = NextBeat,
                   !.rec = [file |-> "saved", op |-> o, status |-> s, age |-> 0]]
    /\ beat' = [beat EXCEPT ![NextBeat].file = "torn"]
    /\ UNCHANGED <<op, age, acks, review, told, given, crashes>>

FinishHeartbeat ==
    /\ h.at = "beat"
    /\ beat' = [beat EXCEPT ![h.beat] = h.rec]
    /\ told' = [told EXCEPT ![h.rec.op] = h.rec.status]
    /\ h' = Idle
    /\ UNCHANGED <<op, age, acks, review, given, crashes>>

\* acknowledge: the id is not checked against the notifications there are;
\* the founder acknowledges what the page shows, now or before.
Acknowledge(s) ==
    /\ h.at = "idle"
    /\ NotificationId(s) \notin AckedIds
    /\ Cardinality(AckedIds) < MaxAcks
    /\ h' = [Idle EXCEPT !.at = "ack", !.subject = s,
                         !.ids = AckedIds \cup {NotificationId(s)}]
    /\ acks' = [acks EXCEPT !.file = "torn"]
    /\ UNCHANGED <<op, age, beat, review, told, given, crashes>>

FinishAcknowledge ==
    /\ h.at = "ack"
    /\ acks' = [file |-> "saved", ids |-> h.ids]
    /\ given' = given \cup {h.subject}
    /\ h' = Idle
    /\ UNCHANGED <<op, age, beat, review, told, crashes>>

-----------------------------------------------------------------------------
(* The environment *)

Older(n) == IF n < Threshold THEN n + 1 ELSE n

Tick ==
    /\ h.at = "idle"
    /\ age' = [o \in Ops |-> IF op[o] = "absent" THEN 0 ELSE Older(age[o])]
    /\ beat' = [b \in BeatIds |-> IF beat[b].file = "saved"
                                  THEN [beat[b] EXCEPT !.age = Older(@)] ELSE beat[b]]
    /\ UNCHANGED <<op, acks, review, h, told, given, crashes>>

\* The business tables behind the review change, or cannot be read.
ReviewChanges ==
    /\ h.at = "idle"
    /\ review' \in (Reviews \cup {Unreadable}) \ {review}
    /\ UNCHANGED <<op, age, beat, acks, h, told, given, crashes>>

\* The process dies in a write.  An acknowledgement file left empty forgets
\* what was given.
Crash ==
    /\ h.at # "idle"
    /\ crashes < MaxCrashes
    /\ crashes' = crashes + 1
    /\ h' = Idle
    /\ given' = IF h.at = "ack" THEN {} ELSE given
    /\ UNCHANGED <<op, age, beat, acks, review, told>>

Finish == FinishOperation \/ FinishHeartbeat \/ FinishAcknowledge

Next ==
    \/ \E o \in Ops : SaveOperation(o) \/ CreateHeartbeat(o)
    \/ \E s \in Subjects : Acknowledge(s)
    \/ Finish
    \/ Tick
    \/ ReviewChanges
    \/ Crash

\* A handler goes on, and the clock does not stop however many requests come
\* (strong fairness: its ticks are placed between handlers); requests, changes
\* of the review and crashes are not owed.
Spec == Init /\ [][Next]_vars /\ WF_vars(Finish) /\ SF_vars(Tick)

-----------------------------------------------------------------------------
(* Properties *)

\* An active operation is shown as blocked exactly when the last heartbeat
\* that was answered for it says so: heartbeats that were torn by a crash,
\* heartbeats of other operations and older ones do not count
\* (notification_runtime.py:57, heartbeat_store.py:102).
LatestReportCounts ==
    h.at = "idle" => \A o \in Ops :
        <<"blocked", o>> \in Current <=> op[o] \in Active /\ told[o] = "blocked"

\* Of the notifications shown, those marked acknowledged are the ones whose
\* very category and subject the founder acknowledged since the file was last
\* torn: nothing acknowledged comes back unread because something else was
\* acknowledged, and a KPI that gets worse is unread again
\* (acknowledgement_store.py:41, notification_runtime.py:118).
AcknowledgedExactly == h.at = "idle" => Acknowledged = Current \cap given

\* An operation on which nobody reports does not stay active unnoticed: again
\* and again it is closed, or just got a heartbeat, or is listed as stale
\* (heartbeat_runtime.py:80).
SilenceIsNoticed ==
    \A o \in Ops : []<>(\/ op[o] \notin Active
                        \/ <<"stale", o>> \in Current
                        \/ h.at = "beat" /\ h.rec.op = o)

=============================================================================
