----------------------------- MODULE Operations -----------------------------
(***************************************************************************)
(* Operations of one workspace on one day: the handlers of HermesService   *)
(* that create, move, close and annotate an Operation, the YAML files of   *)
(* OperationStore they rewrite, and the two business tables they append    *)
(* to, Operations.md and Decisions.md.                                     *)
(*                                                                         *)
(* Every gateway handler is an async function without an await, so one     *)
(* handler runs at a time; h is the handler in progress.  What can come    *)
(* between its file writes is an exception or the death of the process:    *)
(* a file is rewritten by open(path, "w") (which empties it) and a later   *)
(* write, so each save is two steps and Crash may fall between them.  Of a *)
(* YAML file a crash leaves a record that does not load, of a table any    *)
(* beginning of its text; the writers go on with a beginning that has the  *)
(* heading and a line of dashes.                                           *)
(***************************************************************************)
EXTENDS IdSequence, OperationRuntime, FiniteSets

CONSTANTS
    MaxOps,       \* bound: operations created in the workspace that day
    MaxDecisions, \* bound: rows of Decisions.md
    MaxCrashes,   \* bound: deaths of the process
    Outcomes,     \* outcome texts a client sends when it closes an operation
    CitedIn,      \* outcome text -> the OPS number it mentions, 0 for none
    Recs,         \* recommendations of the executive review
    Sops,         \* SOPs of the registry
    StepsOf       \* SOP -> its sequence of step ids

NoOutcome == "no outcome"
NoRec     == "no recommendation"
NoSop     == "no SOP"

ASSUME OperationsAssumption ==
    /\ MaxOps \in Nat
    /\ MaxDecisions \in Nat
    /\ MaxCrashes \in Nat
    /\ CitedIn \in [Outcomes -> Nat]
    /\ \A s \in Sops : StepsOf[s] \in Seq(StepsIn(StepsOf[s]))
    /\ NoOutcome \notin Outcomes
    /\ NoRec \notin Recs
    /\ NoSop \notin Sops

OpIds == 1 .. MaxOps
Steps == UNION {StepsIn(StepsOf[s]) : s \in Sops}

VARIABLES
    file,     \* operation -> state of its YAML file
    ops,      \* operation -> the last record written out whole
    opsLog,   \* Operations.md of the business
    decLog,   \* Decisions.md of the business
    jobs,     \* operations with a saved Job
    h,        \* the handler in progress
    crashes   \* deaths of the process so far

vars == <<file, ops, opsLog, decLog, jobs, h, crashes>>

-----------------------------------------------------------------------------
(* Records *)

Statuses == {"created", "executing", "awaiting_escalation",
             "completed", "failed", "rejected"}

\* Faulty variant: a completed operation may be reopened.
ValidTransitionsReopening ==
    [created             |-> {"executing"},
     executing           |-> {"completed", "awaiting_escalation", "failed"},
     awaiting_escalation |-> {"executing", "rejected"},
     completed |-> {"executing"}, failed |-> {}, rejected |-> {}]

ValidTransitions ==
    [s \in Statuses |->
        CASE s = "created"             -> {"executing"}
          [] s = "executing"           -> {"completed", "awaiting_escalation", "failed"}
          [] s = "awaiting_escalation" -> {"executing", "rejected"}
          [] OTHER                     -> {}]

Terminal == {"completed", "failed", "rejected"}

\* An Operation; status "none" is the record of an id that was never saved.
Operation ==
    [status  : Statuses \cup {"none"},
     outcome : Outcomes \cup {NoOutcome},
     dec     : Nat,                    \* decision_id, 0 for none
     rec     : Recs \cup {NoRec},      \* recommendation_id
     sop     : Sops \cup {NoSop},
     done    : SUBSET Steps]

NewOperation == [status |-> "created", outcome |-> NoOutcome, dec |-> 0,
                 rec |-> NoRec, sop |-> NoSop, done |-> {}]
NoOperation  == [NewOperation EXCEPT !.status = "none"]

\* A row of the Operation Log.  The table has no column for the workspace
\* operation: op says which one the row was written for.  Of a row that is cut
\* short only the number can be read: its status is "cut".
OpsRow == [id : Nat, op : OpIds, status : Statuses \cup {"cut"}, outcome : Outcomes]

DecStatuses == {"approved", "closed", "proposed"}
DecRow      == [id : Nat, rec : Recs, status : DecStatuses \cup {"cut"}]
ActionToStatus == [approve |-> "approved", reject |-> "closed", postpone |-> "proposed"]
NoDecision  == [id |-> 0, rec |-> NoRec, status |-> "proposed"]

\* A business table.  state: "ready" when there is a heading and a line of
\* dashes below it, "unusable" when there is no file or no such line and the
\* writer raises, "open" when the file is emptied and its text only in the memory
\* of the writer.  next is how many rows stand above the last line of dashes,
\* where the writer puts its row: all of them, unless cut, that is, a crash left
\* the beginning of the table only.
Table(rows) == [state : {"ready", "unusable", "open"}, cut : BOOLEAN,
                rows : Seq(rows), next : Nat]
NewTable(state) == [state |-> state, cut |-> FALSE, rows |-> <<>>, next |-> 0]

Points == {"idle", "saving", "start", "work", "finish",
           "log", "logging", "deciding", "spawn"}
Handler == [at   : Points,
            op   : OpIds \cup {0},     \* the operation at hand
            new  : Operation,          \* the record in memory
            row  : DecRow \cup {NoDecision},
            then : Points]             \* where to go when the file is written

Idle == [at |-> "idle", op |-> 0, new |-> NoOperation,
         row |-> NoDecision, then |-> "idle"]

-----------------------------------------------------------------------------
TypeOK ==
    /\ file \in [OpIds -> {"absent", "torn", "saved"}]
    /\ ops \in [OpIds -> Operation]
    /\ opsLog \in Table(OpsRow)
    /\ decLog \in Table(DecRow)
    /\ jobs \subseteq OpIds
    /\ h \in Handler
    /\ crashes \in 0 .. MaxCrashes

Init ==
    /\ file = [o \in OpIds |-> "absent"]
    /\ ops = [o \in OpIds |-> NoOperation]
    /\ opsLog \in {NewTable("ready"), NewTable("unusable")}
    /\ decLog \in {NewTable("ready"), NewTable("unusable")}
    /\ jobs = {}
    /\ h = Idle
    /\ crashes = 0

-----------------------------------------------------------------------------
(* OperationStore *)

\* Faulty variant: the number is taken from the operations that load.
NextOpOfLoaded == NextFileId({o \in OpIds : file[o] = "saved"})

\* A torn file keeps its name, so its number is still taken.
NextOp == NextFileId({o \in OpIds : file[o] # "absent"})

\* save() up to open(path, "w"): the file of o is empty, r is in memory.
Save(o, r, next) ==
    /\ file' = [file EXCEPT ![o] = "torn"]
    /\ h' = [Idle EXCEPT !.at = "saving", !.op = o, !.new = r, !.then = next]
    /\ UNCHANGED <<ops, opsLog, decLog, jobs, crashes>>

\* The rest of save(): the record reaches the file and the handler goes on.
FinishSave ==
    /\ h.at = "saving"
    /\ file' = [file EXCEPT ![h.op] = "saved"]
    /\ ops' = [ops EXCEPT ![h.op] = h.new]
    /\ h' = IF h.then = "idle" THEN Idle
                               ELSE [h EXCEPT !.at = h.then, !.then = "idle"]
    /\ UNCHANGED <<opsLog, decLog, jobs, crashes>>

\* A handler that loads o may start: nothing else runs and the file loads.
Loads(o) == h.at = "idle" /\ file[o] = "saved"

\* transition_operation(r, s) does not raise.
CanMove(r, s) == r.status \in Statuses /\ s \in ValidTransitions[r.status]

-----------------------------------------------------------------------------
(* Creating an operation *)

CreateFromChat ==
    /\ h.at = "idle"
    /\ NextOp \in OpIds
    /\ Save(NextOp, NewOperation, "idle")

\* generate(): the operation is saved as created, then as executing.
GenerateBegin ==
    /\ h.at = "idle"
    /\ NextOp \in OpIds
    /\ Save(NextOp, NewOperation, "start")

GenerateStart ==
    /\ h.at = "start"
    /\ Save(h.op, [h.new EXCEPT !.status = "executing"], "work")

\* The planner, a skill or a reader raises: no handler marks the operation.
GenerateAborts ==
    /\ h.at = "work"
    /\ h' = Idle
    /\ UNCHANGED <<file, ops, opsLog, decLog, jobs, crashes>>

ExecutorRaises ==
    /\ h.at = "work"
    /\ Save(h.op, [h.new EXCEPT !.status = "failed"], "idle")

\* Faulty variant: the Job is not saved before the operation is closed.
ExecutorReturnsUnsaved ==
    /\ h.at = "work"
    /\ h' = [h EXCEPT !.at = "finish"]
    /\ UNCHANGED <<file, ops, opsLog, decLog, jobs, crashes>>

\* The executor returns: the Job is saved, then the operation is closed.
ExecutorReturns ==
    /\ h.at = "work"
    /\ jobs' = jobs \cup {h.op}
    /\ h' = [h EXCEPT !.at = "finish"]
    /\ UNCHANGED <<file, ops, opsLog, decLog, crashes>>

GenerateFinish ==
    /\ h.at = "finish"
    /\ Save(h.op, [h.new EXCEPT !.status = "completed"], "idle")

-----------------------------------------------------------------------------
(* Moving an operation *)

Approve(o) ==
    /\ Loads(o)
    /\ CanMove(ops[o], "executing")
    /\ Save(o, [ops[o] EXCEPT !.status = "executing"], "idle")

Reject(o) ==
    /\ Loads(o)
    /\ CanMove(ops[o], "rejected")
    /\ Save(o, [ops[o] EXCEPT !.status = "rejected"], "idle")

\* complete_operation and fail_operation: the status first, then the table.
Close(o, s, c) ==
    /\ Loads(o)
    /\ CanMove(ops[o], s)
    /\ Save(o, [ops[o] EXCEPT !.status = s, !.outcome = c], "log")

\* Faulty variants: the classification is stored as the status; no row is written.
FailAsClassified(o, c) ==
    /\ Loads(o)
    /\ CanMove(ops[o], "failed")
    /\ Save(o, [ops[o] EXCEPT !.status = c], "log")
FailUnlogged(o, c) ==
    /\ Loads(o)
    /\ CanMove(ops[o], "failed")
    /\ Save(o, [ops[o] EXCEPT !.status = "failed", !.outcome = c], "idle")

CompleteOperation(o, c) == Close(o, "completed", c)
FailOperation(o, c)     == Close(o, "failed", c)

\* No code of the repository escalates: a person edits the YAML file.
Escalate(o) ==
    /\ Loads(o)
    /\ CanMove(ops[o], "awaiting_escalation")
    /\ ops' = [ops EXCEPT ![o].status = "awaiting_escalation"]
    /\ UNCHANGED <<file, opsLog, decLog, jobs, h, crashes>>

-----------------------------------------------------------------------------
(* The business tables *)

\* append_operation and append_decision: a row above the last line of dashes.
Written(log, row) ==
    [state |-> "ready", cut |-> log.cut,
     rows  |-> SubSeq(log.rows, 1, log.next) \o <<row>>
                 \o SubSeq(log.rows, log.next + 1, Len(log.rows)),
     next  |-> log.next + 1]

\* The first n rows, the last of them cut short or not.
Beginning(rows, n, short) ==
    [i \in 1 .. n |-> IF i = n /\ short THEN [rows[i] EXCEPT !.status = "cut"] ELSE rows[i]]

\* What a crash may leave of a table that is written with one row more: nothing
\* usable, its first n rows under the lines of dashes that stand above the n-th,
\* or all of it.
AfterCrash(log, row) ==
    LET new       == Written(log, row)
        separator == IF log.cut THEN new.next ELSE 0   \* the rows above the header's line
        parts     == {[state |-> "ready", cut |-> TRUE,
                       rows |-> Beginning(new.rows, n, short), next |-> k] :
                          n \in 0 .. Len(new.rows), short \in BOOLEAN, k \in {0, separator}}
    IN  {new, [NewTable("unusable") EXCEPT !.cut = TRUE]}
          \cup {t \in parts : IF t.next = separator THEN Len(t.rows) >= separator
                                                    ELSE Len(t.rows) <= separator}

\* The numbers generate_bk_operation_id finds: the ids and the ids cited.
OpsNumbers == {opsLog.rows[i].id : i \in DOMAIN opsLog.rows}
                \cup {CitedIn[opsLog.rows[i].outcome] :
                        i \in {j \in DOMAIN opsLog.rows : opsLog.rows[j].status # "cut"}}

DecNumbers == {decLog.rows[i].id : i \in DOMAIN decLog.rows}

-----------------------------------------------------------------------------
(* The Operation Log *)

\* The row that append_operation writes.
NewOpsRow == [id |-> NextLogId(OpsNumbers), op |-> h.op,
              status |-> h.new.status, outcome |-> h.new.outcome]

\* The file or the table is missing: the handler answers 500.
LogRaises ==
    /\ h.at = "log"
    /\ opsLog.state # "ready"
    /\ h' = Idle
    /\ UNCHANGED <<file, ops, opsLog, decLog, jobs, crashes>>

\* write_text opens the table's file ...
OpenLog ==
    /\ h.at = "log"
    /\ opsLog.state = "ready"
    /\ opsLog' = [opsLog EXCEPT !.state = "open"]
    /\ h' = [h EXCEPT !.at = "logging"]
    /\ UNCHANGED <<file, ops, decLog, jobs, crashes>>

\* ... and writes it back with one row more.
WriteLog ==
    /\ h.at = "logging"
    /\ opsLog' = Written(opsLog, NewOpsRow)
    /\ h' = Idle
    /\ UNCHANGED <<file, ops, decLog, jobs, crashes>>

-----------------------------------------------------------------------------
(* Acting on a recommendation *)

\* Faulty variant: an operation is created whatever the action.
ActWithoutApproval(r, action, createOperation) ==
    /\ h.at = "idle"
    /\ decLog.state = "ready"
    /\ Len(decLog.rows) < MaxDecisions
    /\ createOperation => NextOp \in OpIds
    /\ decLog' = [decLog EXCEPT !.state = "open"]
    /\ h' = [Idle EXCEPT
                !.at = "deciding",
                !.row = [id |-> NextLogId(DecNumbers), rec |-> r,
                         status |-> ActionToStatus[action]],
                !.then = IF createOperation THEN "spawn" ELSE "idle"]
    /\ UNCHANGED <<file, ops, opsLog, jobs, crashes>>

\* append_decision, up to the opening of the file; it raises if it is unusable.
ActOnRecommendation(r, action, createOperation) ==
    /\ h.at = "idle"
    /\ decLog.state = "ready"
    /\ Len(decLog.rows) < MaxDecisions
    /\ createOperation => NextOp \in OpIds
    /\ decLog' = [decLog EXCEPT !.state = "open"]
    /\ h' = [Idle EXCEPT
                !.at = "deciding",
                !.row = [id |-> NextLogId(DecNumbers), rec |-> r,
                         status |-> ActionToStatus[action]],
                !.then = IF createOperation /\ action = "approve"
                         THEN "spawn" ELSE "idle"]
    /\ UNCHANGED <<file, ops, opsLog, jobs, crashes>>

WriteDecision ==
    /\ h.at = "deciding"
    /\ decLog' = Written(decLog, h.row)
    /\ h' = IF h.then = "idle" THEN Idle
                               ELSE [h EXCEPT !.at = h.then, !.then = "idle"]
    /\ UNCHANGED <<file, ops, opsLog, jobs, crashes>>

SpawnOperation ==
    /\ h.at = "spawn"
    /\ Save(NextOp,
            [NewOperation EXCEPT !.dec = h.row.id, !.rec = h.row.rec], "idle")

-----------------------------------------------------------------------------
(* SOP progress *)

\* No status is checked, and the steps marked under an earlier SOP stay.
LinkSop(o, s) ==
    /\ Loads(o)
    /\ Save(o, [ops[o] EXCEPT !.sop = s], "idle")

CompleteStep(o, step) ==
    /\ Loads(o)
    /\ ops[o].sop # NoSop
    /\ Actionable(StepsOf[ops[o].sop], ops[o].done, step)
    /\ Save(o, [ops[o] EXCEPT !.done = @ \cup {step}], "idle")

-----------------------------------------------------------------------------
\* The process dies inside a handler.  An operation file that was open stays torn,
\* of a table that was open a beginning stays.
Crash ==
    /\ h.at # "idle"
    /\ crashes < MaxCrashes
    /\ h' = Idle
    /\ opsLog' \in IF h.at = "logging" THEN AfterCrash(opsLog, NewOpsRow) ELSE {opsLog}
    /\ decLog' \in IF h.at = "deciding" THEN AfterCrash(decLog, h.row) ELSE {decLog}
    /\ crashes' = crashes + 1
    /\ UNCHANGED <<file, ops, jobs>>

Generate == GenerateBegin \/ GenerateStart \/ GenerateAborts
              \/ ExecutorRaises \/ ExecutorReturns \/ GenerateFinish

Next ==
    \/ CreateFromChat \/ Generate
    \/ FinishSave
    \/ LogRaises \/ OpenLog \/ WriteLog
    \/ WriteDecision \/ SpawnOperation
    \/ \E o \in OpIds : Approve(o) \/ Reject(o) \/ Escalate(o)
    \/ \E o \in OpIds, c \in Outcomes : CompleteOperation(o, c) \/ FailOperation(o, c)
    \/ \E o \in OpIds, s \in Sops : LinkSop(o, s)
    \/ \E o \in OpIds, step \in Steps : CompleteStep(o, step)
    \/ \E r \in Recs, a \in DOMAIN ActionToStatus, b \in BOOLEAN :
            ActOnRecommendation(r, a, b)
    \/ Crash

Spec == Init /\ [][Next]_vars

-----------------------------------------------------------------------------
(* Properties *)

OpsRows == {opsLog.rows[i] : i \in DOMAIN opsLog.rows}
DecRows == {decLog.rows[i] : i \in DOMAIN decLog.rows}

\* An operation was closed through complete_operation or fail_operation
\* (generate closes one without an outcome).
Closed(o) == ops[o].outcome # NoOutcome
Recorded(o) == \E r \in OpsRows : r.op = o

\* Operations.md and the YAML files tell the same story, also when a crash has left
\* a part of the table and rows were added since: the operation of a row was
\* completed or failed, a whole row shows its status and outcome, which are final,
\* and no operation has two rows (complete_operation, fail_operation).
HistoryAgrees ==
    /\ \A r \in OpsRows :
          /\ ops[r.op].status \in {"completed", "failed"}
          /\ r.status # "cut" => /\ ops[r.op].status = r.status
                                 /\ ops[r.op].outcome = r.outcome
    /\ \A i, j \in DOMAIN opsLog.rows :
          opsLog.rows[i].op = opsLog.rows[j].op => i = j

\* The table is there and no crash has ever cut it.
Intact(log) == log.state # "unusable" /\ ~ log.cut

\* As long as no crash cut Decisions.md, an operation created from a recommendation
\* names a decision that is in it, for that recommendation and approved: the row
\* is written before the operation (act_on_recommendation).  What becomes of the
\* number when the table is cut is the subject of CitedNumberStands below.
CitesApprovedDecision ==
    Intact(decLog) /\ decLog.state = "ready" =>
        \A o \in OpIds : ops[o].dec # 0 =>
            \E r \in DecRows : /\ r.id = ops[o].dec
                               /\ r.rec = ops[o].rec
                               /\ r.status = "approved"

\* No two rows of a business table have the same number, whatever the texts in it
\* cite, wherever the writer puts its row and whichever rows a crash has taken,
\* and in a table that was never cut the numbers grow from row to row, as far as
\* a number can be read whole (generate_bk_operation_id, generate_decision_id).
Numbered(log) ==
    LET rows == log.rows IN
    /\ \A i, j \in DOMAIN rows : rows[i].id < IdLimit /\ rows[i].id = rows[j].id => i = j
    /\ ~ log.cut => \A i, j \in DOMAIN rows :
                        i < j /\ rows[i].id < IdLimit => rows[i].id < rows[j].id
LogIdsDistinct == Numbered(opsLog) /\ Numbered(decLog)

\* A completed operation can be accounted for: a person gave the outcome, or
\* a Job of it was saved first (generate, complete_operation).
CompletedHasEvidence ==
    \A o \in OpIds : ops[o].status = "completed" => Closed(o) \/ o \in jobs

\* With a usable Operations.md and no crash, every operation a person closed
\* has its row once the handler has returned.
RecordedUnlessInterrupted ==
    h.at = "idle" /\ crashes = 0 /\ opsLog.state = "ready"
        => \A o \in OpIds : Closed(o) => Recorded(o)

\* What is closed stays closed: no handler, saving for whatever reason,
\* changes the status or the outcome of an operation in a terminal status.
TerminalStays ==
    [][\A o \in OpIds : ops[o].status \in Terminal =>
            /\ ops'[o].status = ops[o].status
            /\ ops'[o].outcome = ops[o].outcome]_vars

\* A number is never given twice: the record of an operation is not replaced
\* by that of another, even when its file was torn by a crash and no longer
\* loads (generate_operation_id reads names, not contents).
NumbersNotReused ==
    [][/\ h.at \in {"idle", "spawn"} /\ h'.at = "saving"
       /\ h'.new.status = "created" /\ h'.new.sop = NoSop
       => file[h'.op] = "absent"]_vars

\* A step is marked complete only when every step before it in the SOP that
\* is linked at that moment is complete (complete_step).
StepsInOrder ==
    [][\A o \in OpIds : \A step \in ops'[o].done \ ops[o].done :
            LET steps == StepsOf[ops[o].sop] IN
            \E i \in DOMAIN steps :
                /\ steps[i] = step
                /\ \A j \in 1 .. i - 1 : steps[j] \in ops[o].done]_vars

-----------------------------------------------------------------------------
(* The ledger this module implements: the status last written out, and the  *)
(* status shown by the row of the operation.                                *)

Whole(o) == {r \in OpsRows : r.op = o /\ r.status # "cut"}
EntryOf(o) == IF Whole(o) = {} THEN "none" ELSE (CHOOSE r \in Whole(o) : TRUE).status

Ledger == INSTANCE OperationLedger WITH
            Ids    <- OpIds,
            status <- [o \in OpIds |-> ops[o].status],
            entry  <- [o \in OpIds |-> EntryOf(o)]

\* The handlers, with their two-step saves, their crashes and the SOP and
\* decision handlers that rewrite the same files, do no more to an operation
\* and its history than the ledger allows.
ImplementsLedger == Ledger!Spec

-----------------------------------------------------------------------------
(* The inductive invariant: what the handler in progress knows *)

\* Saving r for o and going on at next continues what was last written for o.
Continues(o, r, next) ==
    LET old == ops[o] IN
    /\ next \in {"idle", "start", "work", "log"}
    /\ r.status # "none"
    /\ \/ old.status = r.status /\ old.outcome = r.outcome
       \/ <<old.status, r.status>> \in Ledger!Lifecycle
    /\ r.status = "completed" => r.outcome # NoOutcome \/ o \in jobs
    /\ next = "start" => r.status = "created"
    /\ next = "work" => r.status = "executing"
    /\ next # "log" => r.outcome = old.outcome
    /\ next = "log" => /\ old.status = "executing"
                       /\ r.status \in {"completed", "failed"}
                       /\ r.outcome \in Outcomes

\* While a file is rewritten, the record in memory continues the last one.
SavingInv ==
    h.at = "saving" => /\ h.op \in OpIds
                       /\ file[h.op] = "torn"
                       /\ Continues(h.op, h.new, h.then)

\* Between two saves the record in memory is the one in the file.
HoldingInv ==
    /\ h.at \in {"start", "work", "finish", "log", "logging"} =>
          /\ h.op \in OpIds
          /\ file[h.op] = "saved"
          /\ h.new = ops[h.op]
          /\ h.then = "idle"
    /\ h.at = "start" => h.new.status = "created"
    /\ h.at \in {"work", "finish"} => h.new.status = "executing"
    /\ h.at = "finish" => h.op \in jobs
    /\ h.at \in {"log", "logging"} =>
          /\ h.new.status \in {"completed", "failed"}
          /\ h.new.outcome \in Outcomes
          /\ ~ Recorded(h.op)

\* A decision in progress is newer than the table, and the operation it will
\* spawn has a number.
DecidingInv ==
    /\ h.at = "deciding" =>
          /\ h.row \in DecRow
          /\ h.then \in {"idle", "spawn"}
          /\ \A n \in DecNumbers : n < IdLimit => n < h.row.id
          /\ h.then = "spawn" => h.row.status = "approved" /\ NextOp \in OpIds
    /\ h.at = "spawn" =>
          /\ h.row \in DecRows
          /\ h.row.status = "approved"
          /\ NextOp \in OpIds

\* The place of the next row is inside the table, and behind all rows if the table
\* is not cut.
Placed(log) ==
    /\ log.next <= Len(log.rows)
    /\ ~ log.cut => log.next = Len(log.rows)

\* A table is open only while its writer is at work.
TablesInv ==
    /\ opsLog.state = "open" <=> h.at = "logging"
    /\ decLog.state = "open" <=> h.at = "deciding"
    /\ Placed(opsLog) /\ Placed(decLog)
    /\ h.at = "idle" => h = Idle
    /\ \A o \in OpIds : file[o] = "absent" => ops[o] = NoOperation
    /\ \A o \in OpIds : file[o] = "saved" => ops[o].status # "none"

\* The record r names an approved decision of the table.
Cites(r) == r.dec # 0 => \E d \in DecRows : /\ d.id = r.dec
                                            /\ d.rec = r.rec
                                            /\ d.status = "approved"
CitingInv ==
    Intact(decLog) =>
        /\ \A o \in OpIds : Cites(ops[o])
        /\ h.at \in {"saving", "start", "work", "finish"} => Cites(h.new)

\* Without a crash, a closed operation has its row or its handler is on it.
RecordingInv ==
    crashes = 0 /\ opsLog.state # "unusable" =>
        \A o \in OpIds : Closed(o) =>
            Recorded(o) \/ (h.at \in {"log", "logging"} /\ h.op = o)

IInv ==
    /\ TypeOK
    /\ SavingInv /\ HoldingInv /\ DecidingInv /\ TablesInv
    /\ HistoryAgrees
    /\ CitingInv
    /\ CompletedHasEvidence
    /\ RecordingInv
    /\ LogIdsDistinct

-----------------------------------------------------------------------------
(* What the documentation says and the code does not do *)

\* approve_operation "raises InvalidTransitionError if not in
\* awaiting_escalation state".
ApprovesOnlyEscalated ==
    [][\A o \in OpIds : Approve(o) => ops[o].status = "awaiting_escalation"]_vars

\* complete_operation and fail_operation append "a historical record to the
\* business's Operations.md file": when the handler is over the row is there.
OutcomeRecorded ==
    h.at = "idle" => \A o \in OpIds : Closed(o) => Recorded(o)

\* Decisions.md "is the permanent log of strategic decisions": the number that an
\* operation cites is not that of a decision on another recommendation.
CitedNumberStands ==
    \A o \in OpIds : ops[o].dec # 0 =>
        \A r \in DecRows : r.id = ops[o].dec => r.rec = ops[o].rec

\* generate_bk_operation_id "returns the next sequential ID".
NextIdIsSequential ==
    \A i, j \in DOMAIN opsLog.rows :
        i < j => opsLog.rows[i].id < opsLog.rows[j].id
=============================================================================
