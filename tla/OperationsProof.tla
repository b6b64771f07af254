--------------------------- MODULE OperationsProof --------------------------
(***************************************************************************)
(* The safety of Operations, and its refinement of OperationLedger, for    *)
(* every number of operations, decisions and crashes, and every set of     *)
(* outcomes, recommendations and SOPs.                                     *)
(***************************************************************************)
EXTENDS Operations, IdSequenceProof

\* The numbers a business table holds are bounded, as it is a finite text.
TextInv == Bounded(OpsNumbers) /\ Bounded(DecNumbers)

Inv == IInv /\ TextInv


USE OperationsAssumption

LEMMA InitInv == Init => Inv
<1> SUFFICES ASSUME Init PROVE Inv
  OBVIOUS
<1> USE DEF Init
<1>1. TypeOK
  <2>1. NoOperation \in Operation /\ NoDecision \in DecRow \cup {NoDecision}
    BY DEF NoOperation, NewOperation, Operation, Statuses
  <2>2. h \in Handler
    BY <2>1 DEF Idle, Handler, Points
  <2>3. ASSUME NEW R, NEW s \in {"ready", "unusable"} PROVE NewTable(s) \in Table(R)
    BY DEF NewTable, Table
  <2>4. opsLog \in Table(OpsRow)
    BY <2>3
  <2>5. decLog \in Table(DecRow)
    BY <2>3
  <2> QED BY <2>1, <2>2, <2>4, <2>5 DEF TypeOK
<1>2. /\ opsLog.rows = <<>> /\ opsLog.state # "open" /\ opsLog.next = 0 /\ Len(opsLog.rows) = 0
      /\ decLog.rows = <<>> /\ decLog.state # "open" /\ decLog.next = 0 /\ Len(decLog.rows) = 0
  BY DEF NewTable
<1>3. OpsRows = {} /\ DecRows = {} /\ OpsNumbers = {} /\ DecNumbers = {}
  BY <1>2 DEF OpsRows, DecRows, OpsNumbers, DecNumbers
<1>4. h.at = "idle" /\ \A o \in OpIds : ops[o] = NoOperation
  BY DEF Idle
<1>5. SavingInv /\ HoldingInv /\ DecidingInv /\ TablesInv
  BY <1>2, <1>4 DEF SavingInv, HoldingInv, DecidingInv, TablesInv, Placed, Idle
<1>6. HistoryAgrees /\ LogIdsDistinct
  BY <1>2, <1>3 DEF HistoryAgrees, LogIdsDistinct, Numbered
<1>7. CitingInv /\ CompletedHasEvidence /\ RecordingInv
  BY <1>4 DEF CitingInv, Cites, Intact, CompletedHasEvidence, RecordingInv, Closed,
              NoOperation, NewOperation
<1>8. TextInv
  BY <1>3 DEF TextInv, Bounded
<1> QED BY <1>1, <1>5, <1>6, <1>7, <1>8 DEF Inv, IInv

-----------------------------------------------------------------------------
(* Every handler that rewrites an operation begins with a save. *)

LEMMA SaveInv ==
    ASSUME Inv, NEW o \in OpIds, NEW r \in Operation, NEW next,
           Continues(o, r, next),
           Intact(decLog) => Cites(r),
           h.at \notin {"log", "logging", "deciding"},
           Save(o, r, next)
    PROVE  Inv'
<1>1. /\ h'.at = "saving" /\ h'.op = o /\ h'.new = r /\ h'.then = next
      /\ h'.row = NoDecision
      /\ h' \in Handler
  BY DEF Save, Idle, Handler, Points, Continues
<1>2. UNCHANGED <<ops, opsLog, decLog, jobs, crashes>>
  BY DEF Save
<1>3. file' = [file EXCEPT ![o] = "torn"]
  BY DEF Save
<1> USE DEF Inv, IInv
<1>4. TypeOK'
  BY <1>1, <1>2, <1>3 DEF TypeOK
<1>5. SavingInv'
  <2>1. file'[o] = "torn"
    BY <1>3 DEF TypeOK
  <2>2. Continues(o, r, next)'
    BY <1>2 DEF Continues
  <2> QED BY <1>1, <2>1, <2>2 DEF SavingInv
<1>6. HoldingInv' /\ DecidingInv'
  BY <1>1 DEF HoldingInv, DecidingInv
<1>7. TablesInv'
  BY <1>1, <1>2, <1>3 DEF TablesInv, TypeOK
<1>8. OpsRows' = OpsRows /\ DecRows' = DecRows
      /\ OpsNumbers' = OpsNumbers /\ DecNumbers' = DecNumbers
  BY <1>2 DEF OpsRows, DecRows, OpsNumbers, DecNumbers
<1>9. HistoryAgrees' /\ LogIdsDistinct'
  BY <1>2, <1>8 DEF HistoryAgrees, LogIdsDistinct, Numbered
<1>10. CitingInv'
  BY <1>1, <1>2, <1>8 DEF CitingInv, Cites, Intact, Intact
<1>11. CompletedHasEvidence' /\ RecordingInv'
  BY <1>1, <1>2, <1>8 DEF CompletedHasEvidence, RecordingInv, Closed, Recorded
<1>12. TextInv'
  BY <1>8 DEF TextInv, Bounded
<1> QED BY <1>4, <1>5, <1>6, <1>7, <1>9, <1>10, <1>11, <1>12

\* The number a new operation takes has no file, not even a torn one.
LEMMA NextOpIsFree ==
    ASSUME TypeOK
    PROVE  /\ NextOp \in Nat
           /\ NextOp \in OpIds => file[NextOp] = "absent"
<1> DEFINE S == {o \in OpIds : file[o] # "absent"}
<1>1. S \subseteq Nat
  BY DEF OpIds
<1>2. Bounded(S)
  BY DEF Bounded, OpIds
<1>3. NextFileId(S) \in Nat /\ \A n \in S : n < NextFileId(S)
  BY <1>1, <1>2, NextFileIdIsNew
<1>4. NextOp = NextFileId(S)
  BY DEF NextOp
<1>5. NextOp \notin S
  <2> SUFFICES ASSUME NextOp \in S PROVE FALSE
    OBVIOUS
  <2>1. NextOp < NextOp
    BY <1>3, <1>4
  <2> QED BY <2>1, <1>3, <1>4
<1> QED BY <1>3, <1>4, <1>5

\* A new operation, with or without a decision, may be saved under that number.
LEMMA CreateInv ==
    ASSUME Inv, NEW r \in Operation, NEW next \in {"idle", "start"},
           NextOp \in OpIds,
           r.status = "created", r.outcome = NoOutcome,
           Intact(decLog) => Cites(r),
           h.at \notin {"log", "logging", "deciding"},
           Save(NextOp, r, next)
    PROVE  Inv'
<1>1. ops[NextOp] = NoOperation
  BY NextOpIsFree DEF Inv, IInv, TablesInv
<1>2. Continues(NextOp, r, next)
  BY <1>1 DEF Continues, Ledger!Lifecycle, NoOperation, NewOperation
<1> QED BY <1>2, SaveInv

\* The rows of the tables have their types.
LEMMA RowTypes ==
    ASSUME TypeOK
    PROVE  /\ OpsRows \subseteq OpsRow /\ DecRows \subseteq DecRow
           /\ DOMAIN opsLog.rows = 1 .. Len(opsLog.rows)
           /\ DOMAIN decLog.rows = 1 .. Len(decLog.rows)
<1>1. opsLog.rows \in Seq(OpsRow) /\ decLog.rows \in Seq(DecRow)
  BY DEF TypeOK, Table
<1>2. \A i \in DOMAIN opsLog.rows : opsLog.rows[i] \in OpsRow
  BY <1>1
<1>3. \A i \in DOMAIN decLog.rows : decLog.rows[i] \in DecRow
  BY <1>1
<1> QED BY <1>1, <1>2, <1>3 DEF OpsRows, DecRows

LEMMA NewOperationType == NewOperation \in Operation /\ NoOperation \in Operation
BY DEF NewOperation, NoOperation, Operation, Statuses

LEMMA CreateFromChatInv == ASSUME Inv, CreateFromChat PROVE Inv'
<1>1. Cites(NewOperation)
  BY DEF Cites, NewOperation
<1>2. NewOperation.status = "created" /\ NewOperation.outcome = NoOutcome
  BY DEF NewOperation
<1>3. /\ h.at = "idle"
      /\ NextOp \in OpIds
      /\ Save(NextOp, NewOperation, "idle")
  BY DEF CreateFromChat
<1> QED BY <1>1, <1>2, <1>3, CreateInv, NewOperationType

LEMMA GenerateBeginInv == ASSUME Inv, GenerateBegin PROVE Inv'
<1>1. Cites(NewOperation)
  BY DEF Cites, NewOperation
<1>2. NewOperation.status = "created" /\ NewOperation.outcome = NoOutcome
  BY DEF NewOperation
<1>3. /\ h.at = "idle"
      /\ NextOp \in OpIds
      /\ Save(NextOp, NewOperation, "start")
  BY DEF GenerateBegin
<1> QED BY <1>1, <1>2, <1>3, CreateInv, NewOperationType

LEMMA SpawnOperationInv == ASSUME Inv, SpawnOperation PROVE Inv'
<1> DEFINE r == [NewOperation EXCEPT !.dec = h.row.id, !.rec = h.row.rec]
<1>1. /\ h.at = "spawn"
      /\ Save(NextOp, r, "idle")
  BY DEF SpawnOperation
<1>2. /\ h.row \in DecRows
      /\ h.row.status = "approved"
      /\ NextOp \in OpIds
  BY <1>1 DEF Inv, IInv, DecidingInv
<1>3. h.row \in DecRow
  BY <1>2, RowTypes DEF Inv, IInv
<1>4. r \in Operation /\ r.status = "created" /\ r.outcome = NoOutcome
  BY <1>3, NewOperationType DEF Operation, NewOperation, DecRow
<1>5. Cites(r)
  BY <1>2 DEF Cites, NewOperation
<1> HIDE DEF r
<1> QED BY <1>1, <1>2, <1>4, <1>5, CreateInv

\* generate() goes on from the record it has in memory.
LEMMA GenerateSavesInv ==
    ASSUME Inv, NEW s \in Statuses, NEW next,
           h.at \in {"start", "work", "finish"},
           <<h.new.status, s>> \in Ledger!Lifecycle,
           s = "completed" => h.op \in jobs,
           next \in {"idle", "work"}, next = "work" => s = "executing",
           Save(h.op, [h.new EXCEPT !.status = s], next)
    PROVE  Inv'
<1> DEFINE r == [h.new EXCEPT !.status = s]
<1>1. h.op \in OpIds /\ h.new = ops[h.op] /\ h.new \in Operation
  BY DEF Inv, IInv, HoldingInv, TypeOK
<1>2. /\ r \in Operation
      /\ r.status = s /\ r.outcome = h.new.outcome
      /\ r.dec = h.new.dec /\ r.rec = h.new.rec
  BY <1>1 DEF Operation
<1>3. Save(h.op, r, next)
  OBVIOUS
<1> HIDE DEF r
<1>4. s # "none"
  BY DEF Statuses
<1>5. Continues(h.op, r, next)
  BY <1>1, <1>2, <1>4 DEF Continues
<1>6. Intact(decLog) => Cites(r)
  BY <1>2 DEF Inv, IInv, CitingInv, Cites, Intact
<1> QED BY <1>1, <1>2, <1>3, <1>5, <1>6, SaveInv

LEMMA GenerateStartInv == ASSUME Inv, GenerateStart PROVE Inv'
<1>1. h.at = "start" /\ Save(h.op, [h.new EXCEPT !.status = "executing"], "work")
  BY DEF GenerateStart
<1>2. h.new.status = "created"
  BY <1>1 DEF Inv, IInv, HoldingInv
<1>3. <<h.new.status, "executing">> \in Ledger!Lifecycle
  BY <1>2 DEF Ledger!Lifecycle
<1>4. "executing" \in Statuses
  BY DEF Statuses
<1> QED BY <1>1, <1>3, <1>4, GenerateSavesInv

LEMMA ExecutorRaisesInv == ASSUME Inv, ExecutorRaises PROVE Inv'
<1>1. h.at = "work" /\ Save(h.op, [h.new EXCEPT !.status = "failed"], "idle")
  BY DEF ExecutorRaises
<1>2. h.new.status = "executing"
  BY <1>1 DEF Inv, IInv, HoldingInv
<1>3. <<h.new.status, "failed">> \in Ledger!Lifecycle
  BY <1>2 DEF Ledger!Lifecycle
<1>4. "failed" \in Statuses
  BY DEF Statuses
<1> QED BY <1>1, <1>3, <1>4, GenerateSavesInv

LEMMA GenerateFinishInv == ASSUME Inv, GenerateFinish PROVE Inv'
<1>1. h.at = "finish" /\ Save(h.op, [h.new EXCEPT !.status = "completed"], "idle")
  BY DEF GenerateFinish
<1>2. h.new.status = "executing" /\ h.op \in jobs
  BY <1>1 DEF Inv, IInv, HoldingInv
<1>3. <<h.new.status, "completed">> \in Ledger!Lifecycle
  BY <1>2 DEF Ledger!Lifecycle
<1>4. "completed" \in Statuses
  BY DEF Statuses
<1> QED BY <1>1, <1>2, <1>3, <1>4, GenerateSavesInv

-----------------------------------------------------------------------------
(* Handlers that load an operation, change it and save it *)

\* A valid transition is one of the ledger's.
LEMMA TransitionsAreLifecycle ==
    ASSUME NEW r, NEW s, CanMove(r, s)
    PROVE  /\ <<r.status, s>> \in Ledger!Lifecycle
           /\ s \in Statuses
           /\ s \in {"completed", "failed"} => r.status = "executing"
BY DEF CanMove, ValidTransitions, Statuses, Ledger!Lifecycle

LEMMA LoadSaveInv ==
    ASSUME Inv, NEW o \in OpIds, NEW r \in Operation, NEW next,
           Loads(o), Continues(o, r, next),
           r.dec = ops[o].dec, r.rec = ops[o].rec,
           Save(o, r, next)
    PROVE  Inv'
<1>1. Intact(decLog) => Cites(r)
  BY DEF Inv, IInv, CitingInv, Cites, Intact
<1> QED BY <1>1, SaveInv DEF Loads

LEMMA MoveInv ==
    ASSUME Inv, NEW o \in OpIds, NEW s, NEW next, NEW c,
           Loads(o), CanMove(ops[o], s),
           \/ /\ s # "completed" /\ c = ops[o].outcome /\ next = "idle"
           \/ /\ s \in {"completed", "failed"} /\ c \in Outcomes /\ next = "log",
           Save(o, [ops[o] EXCEPT !.status = s, !.outcome = c], next)
    PROVE  Inv'
<1> DEFINE r == [ops[o] EXCEPT !.status = s, !.outcome = c]
<1>1. ops[o] \in Operation
  BY DEF Inv, IInv, TypeOK
<1>2. <<ops[o].status, s>> \in Ledger!Lifecycle /\ s \in Statuses
      /\ (s \in {"completed", "failed"} => ops[o].status = "executing")
  BY TransitionsAreLifecycle
<1>3. c \in Outcomes \cup {NoOutcome}
  BY <1>1 DEF Operation
<1>4. /\ r \in Operation
      /\ r.status = s /\ r.outcome = c
      /\ r.dec = ops[o].dec /\ r.rec = ops[o].rec
  BY <1>1, <1>2, <1>3 DEF Operation
<1>5. Save(o, r, next)
  OBVIOUS
<1> HIDE DEF r
<1>6. Continues(o, r, next)
  BY <1>2, <1>4 DEF Continues, Statuses
<1> QED BY <1>4, <1>5, <1>6, LoadSaveInv

LEMMA ApproveInv == ASSUME Inv, NEW o \in OpIds, Approve(o) PROVE Inv'
<1>1. Loads(o) /\ CanMove(ops[o], "executing")
      /\ Save(o, [ops[o] EXCEPT !.status = "executing"], "idle")
  BY DEF Approve
<1>2. ops[o] \in Operation
  BY DEF Inv, IInv, TypeOK
<1>3. [ops[o] EXCEPT !.status = "executing"]
        = [ops[o] EXCEPT !.status = "executing", !.outcome = ops[o].outcome]
  BY <1>2 DEF Operation
<1> QED BY <1>1, <1>3, MoveInv

LEMMA RejectInv == ASSUME Inv, NEW o \in OpIds, Reject(o) PROVE Inv'
<1>1. Loads(o) /\ CanMove(ops[o], "rejected")
      /\ Save(o, [ops[o] EXCEPT !.status = "rejected"], "idle")
  BY DEF Reject
<1>2. ops[o] \in Operation
  BY DEF Inv, IInv, TypeOK
<1>3. [ops[o] EXCEPT !.status = "rejected"]
        = [ops[o] EXCEPT !.status = "rejected", !.outcome = ops[o].outcome]
  BY <1>2 DEF Operation
<1> QED BY <1>1, <1>3, MoveInv

LEMMA CloseInv ==
    ASSUME Inv, NEW o \in OpIds, NEW c \in Outcomes,
           CompleteOperation(o, c) \/ FailOperation(o, c)
    PROVE  Inv'
<1>1. PICK s \in {"completed", "failed"} : Close(o, s, c)
  BY DEF CompleteOperation, FailOperation
<1>2. Loads(o) /\ CanMove(ops[o], s)
      /\ Save(o, [ops[o] EXCEPT !.status = s, !.outcome = c], "log")
  BY <1>1 DEF Close
<1> QED BY <1>2, MoveInv

LEMMA SopInv ==
    ASSUME Inv, NEW o \in OpIds,
           \/ \E s \in Sops : LinkSop(o, s)
           \/ \E step \in Steps : CompleteStep(o, step)
    PROVE  Inv'
<1>1. PICK sop \in Sops \cup {NoSop}, done \in SUBSET Steps :
        /\ Loads(o)
        /\ Save(o, [ops[o] EXCEPT !.sop = sop, !.done = done], "idle")
  <2>1. ops[o] \in Operation
    BY DEF Inv, IInv, TypeOK
  <2>2. ASSUME NEW s \in Sops, LinkSop(o, s)
        PROVE  /\ Loads(o)
               /\ Save(o, [ops[o] EXCEPT !.sop = s, !.done = ops[o].done], "idle")
               /\ ops[o].done \in SUBSET Steps
    <3>1. [ops[o] EXCEPT !.sop = s] = [ops[o] EXCEPT !.sop = s, !.done = ops[o].done]
      BY <2>1 DEF Operation
    <3> QED BY <2>1, <2>2, <3>1 DEF LinkSop, Operation
  <2>3. ASSUME NEW step \in Steps, CompleteStep(o, step)
        PROVE  /\ Loads(o)
               /\ Save(o, [ops[o] EXCEPT !.sop = ops[o].sop,
                                         !.done = ops[o].done \cup {step}], "idle")
               /\ ops[o].done \cup {step} \in SUBSET Steps
               /\ ops[o].sop \in Sops \cup {NoSop}
    <3>1. [ops[o] EXCEPT !.done = ops[o].done \cup {step}]
            = [ops[o] EXCEPT !.sop = ops[o].sop, !.done = ops[o].done \cup {step}]
      BY <2>1 DEF Operation
    <3> QED BY <2>1, <2>3, <3>1 DEF CompleteStep, Operation
  <2> QED BY <2>2, <2>3
<1> DEFINE r == [ops[o] EXCEPT !.sop = sop, !.done = done]
<1>2. ops[o] \in Operation
  BY DEF Inv, IInv, TypeOK
<1>3. /\ r \in Operation
      /\ r.status = ops[o].status /\ r.outcome = ops[o].outcome
      /\ r.dec = ops[o].dec /\ r.rec = ops[o].rec
  BY <1>2 DEF Operation
<1>4. Save(o, r, "idle") /\ Loads(o)
  BY <1>1
<1> HIDE DEF r
<1>5. ops[o].status # "none"
  BY <1>4 DEF Loads, Inv, IInv, TablesInv
<1>6. ops[o].status = "completed" => ops[o].outcome # NoOutcome \/ o \in jobs
  BY DEF Inv, IInv, CompletedHasEvidence, Closed
<1>7. Continues(o, r, "idle")
  BY <1>3, <1>5, <1>6 DEF Continues
<1> QED BY <1>3, <1>4, <1>7, LoadSaveInv

-----------------------------------------------------------------------------
(* The second half of a save *)

LEMMA FinishSaveInv == ASSUME Inv, FinishSave PROVE Inv'
<1> USE DEF Inv, IInv
<1> DEFINE o == h.op
           old == ops[o]
           new == h.new
<1>1. /\ h.at = "saving" /\ o \in OpIds /\ new \in Operation
      /\ file[o] = "torn" /\ Continues(o, new, h.then)
  BY DEF FinishSave, SavingInv, TypeOK, Handler
<1>2. /\ file' = [file EXCEPT ![o] = "saved"]
      /\ ops' = [ops EXCEPT ![o] = new]
      /\ UNCHANGED <<opsLog, decLog, jobs, crashes>>
  BY DEF FinishSave
<1>3. /\ ops'[o] = new /\ file'[o] = "saved"
      /\ \A x \in OpIds : x # o => ops'[x] = ops[x] /\ file'[x] = file[x]
  BY <1>1, <1>2 DEF TypeOK
<1>4. /\ h'.at = h.then /\ h.then \in {"idle", "start", "work", "log"}
      /\ h.then = "idle" => h' = Idle
      /\ h.then # "idle" => h'.op = o /\ h'.new = new /\ h'.then = "idle"
      /\ h' \in Handler
  <2>1. h.then \in {"idle", "start", "work", "log"}
    BY <1>1 DEF Continues
  <2>2. CASE h.then = "idle"
    BY <2>1, <2>2 DEF FinishSave, Idle, Handler, Points, NoOperation,
                      NewOperation, Operation, Statuses
  <2>3. CASE h.then # "idle"
    BY <2>1, <2>3 DEF FinishSave, Handler, TypeOK, Points
  <2> QED BY <2>1, <2>2, <2>3
<1>5. OpsRows' = OpsRows /\ DecRows' = DecRows
      /\ OpsNumbers' = OpsNumbers /\ DecNumbers' = DecNumbers
  BY <1>2 DEF OpsRows, DecRows, OpsNumbers, DecNumbers
<1>6. TypeOK'
  BY <1>1, <1>2, <1>4 DEF TypeOK
<1>7. SavingInv' /\ DecidingInv'
  BY <1>4 DEF SavingInv, DecidingInv
<1>8. HoldingInv'
  <2>1. h.then = "log" => \A r \in OpsRows : r.op # o
    BY <1>1 DEF Continues, HistoryAgrees
  <2>2. h'.at = "log" => h'.op = o /\ \A r \in OpsRows' : r.op # o
    BY <1>4, <1>5, <2>1
  <2>3. h'.at \in {"start", "work", "log"} =>
            h'.op = o /\ h'.new = new /\ h'.then = "idle" /\ h'.at = h.then
    BY <1>4
  <2>4. h'.at \notin {"finish", "logging"}
    BY <1>4
  <2> HIDE DEF o, new
  <2> QED BY <1>1, <1>3, <2>2, <2>3, <2>4 DEF HoldingInv, Continues, Recorded
<1>9. TablesInv'
  BY <1>1, <1>2, <1>3, <1>4 DEF TablesInv, Continues
<1>10. HistoryAgrees'
  <2>1. ASSUME NEW r \in OpsRows, r.op = o
        PROVE  new.status = old.status /\ new.outcome = old.outcome
    BY <1>1, <2>1 DEF HistoryAgrees, Continues, Ledger!Lifecycle
  <2>2. \A r \in OpsRows : r.op \in OpIds
    BY RowTypes DEF OpsRow
  <2> QED BY <1>2, <1>3, <1>5, <2>1, <2>2 DEF HistoryAgrees
<1>11. CitingInv'
  <2>1. Intact(decLog) => Cites(new)
    BY <1>1 DEF CitingInv
  <2>2. ASSUME NEW r PROVE Cites(r)' <=> Cites(r')
    BY <1>5 DEF Cites
  <2>3. Intact(decLog)' => \A x \in OpIds : Cites(ops[x])'
    BY <1>2, <1>3, <1>5, <2>1 DEF CitingInv, Cites, Intact, Intact
  <2>4. h'.at # "idle" => h'.new = new
    BY <1>4 DEF Idle
  <2> QED BY <1>2, <1>4, <1>5, <2>1, <2>3, <2>4 DEF CitingInv, Cites, Intact, Intact
<1>12. CompletedHasEvidence'
  BY <1>1, <1>2, <1>3 DEF CompletedHasEvidence, Closed, Continues
<1>13. RecordingInv'
  <2>1. ASSUME NEW x \in OpIds, crashes = 0, opsLog.state # "unusable", Closed(x)'
        PROVE  Recorded(x) \/ (h'.at = "log" /\ h'.op = x)
    <3>1. CASE x = o
      <4>1. CASE h.then = "log"
        BY <1>4, <3>1, <4>1
      <4>2. CASE h.then # "log"
        <5>1. Closed(x)
          BY <1>1, <1>3, <2>1, <3>1, <4>2 DEF Closed, Continues
        <5> QED BY <1>1, <2>1, <5>1 DEF RecordingInv
      <4> QED BY <4>1, <4>2
    <3>2. CASE x # o
      <4>1. Closed(x)
        BY <1>3, <2>1, <3>2 DEF Closed
      <4> QED BY <1>1, <2>1, <4>1 DEF RecordingInv
    <3> QED BY <3>1, <3>2
  <2> QED BY <1>2, <1>5, <2>1 DEF RecordingInv, Recorded
<1>14. LogIdsDistinct' /\ TextInv'
  BY <1>2, <1>5 DEF LogIdsDistinct, Numbered, TextInv, Bounded
<1> QED BY <1>6, <1>7, <1>8, <1>9, <1>10, <1>11, <1>12, <1>13, <1>14

-----------------------------------------------------------------------------
(* Handlers that end, and steps that touch neither table *)

LEMMA ReturnInv ==
    ASSUME Inv, h.at \in {"work", "log"}, h.at = "log" => opsLog.state # "ready",
           h' = Idle, UNCHANGED <<file, ops, opsLog, decLog, jobs, crashes>>
    PROVE  Inv'
<1> USE DEF Inv, IInv
<1>1. OpsRows' = OpsRows /\ DecRows' = DecRows
      /\ OpsNumbers' = OpsNumbers /\ DecNumbers' = DecNumbers
  BY DEF OpsRows, DecRows, OpsNumbers, DecNumbers
<1>2. h' \in Handler
  BY NewOperationType DEF Idle, Handler, Points
<1>3. TypeOK'
  BY <1>2 DEF TypeOK
<1>4. h'.at = "idle"
  BY DEF Idle
<1>5. SavingInv' /\ HoldingInv' /\ DecidingInv' /\ TablesInv'
  BY <1>4 DEF SavingInv, HoldingInv, DecidingInv, TablesInv, Placed, Idle
<1>6. HistoryAgrees' /\ LogIdsDistinct' /\ TextInv'
  BY <1>1 DEF HistoryAgrees, LogIdsDistinct, Numbered, TextInv, Bounded
<1>7. CitingInv' /\ CompletedHasEvidence'
  BY <1>1, <1>4 DEF CitingInv, Cites, Intact, CompletedHasEvidence, Closed
<1>8. RecordingInv'
  <2>1. h.at = "log" => opsLog.state = "unusable"
    BY DEF TablesInv, TypeOK, Table
  <2> QED BY <1>1, <2>1 DEF RecordingInv, Recorded, Closed
<1> QED BY <1>3, <1>5, <1>6, <1>7, <1>8

LEMMA GenerateAbortsInv == ASSUME Inv, GenerateAborts PROVE Inv'
BY ReturnInv DEF GenerateAborts

LEMMA LogRaisesInv == ASSUME Inv, LogRaises PROVE Inv'
BY ReturnInv DEF LogRaises

LEMMA ExecutorReturnsInv == ASSUME Inv, ExecutorReturns PROVE Inv'
<1> USE DEF Inv, IInv
<1>1. /\ h.at = "work" /\ jobs' = jobs \cup {h.op} /\ h' = [h EXCEPT !.at = "finish"]
      /\ UNCHANGED <<file, ops, opsLog, decLog, crashes>>
  BY DEF ExecutorReturns
<1>2. h'.at = "finish" /\ h'.op = h.op /\ h'.new = h.new /\ h'.then = h.then
      /\ h' \in Handler
  BY <1>1 DEF TypeOK, Handler, Points
<1>3. h.op \in OpIds
  BY <1>1 DEF HoldingInv
<1>4. OpsRows' = OpsRows /\ DecRows' = DecRows
      /\ OpsNumbers' = OpsNumbers /\ DecNumbers' = DecNumbers
  BY <1>1 DEF OpsRows, DecRows, OpsNumbers, DecNumbers
<1>5. TypeOK'
  BY <1>1, <1>2, <1>3 DEF TypeOK
<1>6. SavingInv' /\ DecidingInv' /\ TablesInv'
  BY <1>1, <1>2 DEF SavingInv, DecidingInv, TablesInv, Placed
<1>7. HoldingInv'
  BY <1>1, <1>2, <1>4 DEF HoldingInv
<1>8. HistoryAgrees' /\ LogIdsDistinct' /\ TextInv'
  BY <1>1, <1>4 DEF HistoryAgrees, LogIdsDistinct, Numbered, TextInv, Bounded
<1>9. CitingInv' /\ CompletedHasEvidence' /\ RecordingInv'
  BY <1>1, <1>2, <1>4 DEF CitingInv, Cites, Intact, CompletedHasEvidence, Closed,
                          RecordingInv, Recorded
<1> QED BY <1>5, <1>6, <1>7, <1>8, <1>9

LEMMA EscalateInv == ASSUME Inv, NEW o \in OpIds, Escalate(o) PROVE Inv'
<1> USE DEF Inv, IInv
<1>1. /\ h.at = "idle" /\ file[o] = "saved"
      /\ CanMove(ops[o], "awaiting_escalation")
      /\ ops' = [ops EXCEPT ![o].status = "awaiting_escalation"]
      /\ UNCHANGED <<file, opsLog, decLog, jobs, h, crashes>>
  BY DEF Escalate, Loads
<1>2. ops[o] \in Operation /\ ops[o].status = "executing"
  BY <1>1 DEF CanMove, ValidTransitions, Statuses, TypeOK
<1>3. /\ ops'[o] \in Operation
      /\ ops'[o].status = "awaiting_escalation"
      /\ ops'[o].outcome = ops[o].outcome
      /\ ops'[o].dec = ops[o].dec /\ ops'[o].rec = ops[o].rec
      /\ \A x \in OpIds : x # o => ops'[x] = ops[x]
  BY <1>1, <1>2 DEF TypeOK, Operation, Statuses
<1>4. OpsRows' = OpsRows /\ DecRows' = DecRows
      /\ OpsNumbers' = OpsNumbers /\ DecNumbers' = DecNumbers
  BY <1>1 DEF OpsRows, DecRows, OpsNumbers, DecNumbers
<1>5. TypeOK'
  BY <1>1, <1>3 DEF TypeOK
<1>6. SavingInv' /\ HoldingInv' /\ DecidingInv'
  BY <1>1 DEF SavingInv, HoldingInv, DecidingInv
<1>7. TablesInv'
  BY <1>1, <1>3 DEF TablesInv
<1>8. HistoryAgrees'
  <2>1. \A r \in OpsRows : r.op # o /\ r.op \in OpIds
    BY <1>2, RowTypes DEF HistoryAgrees, OpsRow
  <2> QED BY <1>1, <1>3, <1>4, <2>1 DEF HistoryAgrees
<1>9. LogIdsDistinct' /\ TextInv'
  BY <1>1, <1>4 DEF LogIdsDistinct, Numbered, TextInv, Bounded
<1>10. CitingInv' /\ CompletedHasEvidence' /\ RecordingInv'
  BY <1>1, <1>3, <1>4 DEF CitingInv, Cites, Intact, CompletedHasEvidence, Closed,
                          RecordingInv, Recorded
<1> QED BY <1>5, <1>6, <1>7, <1>8, <1>9, <1>10

LEMMA OpenLogInv == ASSUME Inv, OpenLog PROVE Inv'
<1> USE DEF Inv, IInv
<1>1. /\ h.at = "log" /\ opsLog.state = "ready"
      /\ opsLog' = [opsLog EXCEPT !.state = "open"]
      /\ h' = [h EXCEPT !.at = "logging"]
      /\ UNCHANGED <<file, ops, decLog, jobs, crashes>>
  BY DEF OpenLog
<1>2. /\ opsLog'.state = "open" /\ opsLog'.rows = opsLog.rows
      /\ opsLog'.cut = opsLog.cut /\ opsLog'.next = opsLog.next
      /\ opsLog' \in Table(OpsRow)
  BY <1>1 DEF TypeOK, Table
<1>3. h'.at = "logging" /\ h'.op = h.op /\ h'.new = h.new /\ h'.then = h.then
      /\ h' \in Handler
  BY <1>1 DEF TypeOK, Handler, Points
<1>4. OpsRows' = OpsRows /\ DecRows' = DecRows
      /\ OpsNumbers' = OpsNumbers /\ DecNumbers' = DecNumbers
  BY <1>1, <1>2 DEF OpsRows, DecRows, OpsNumbers, DecNumbers
<1>5. TypeOK'
  BY <1>1, <1>2, <1>3 DEF TypeOK
<1>6. SavingInv' /\ DecidingInv' /\ TablesInv'
  BY <1>1, <1>2, <1>3 DEF SavingInv, DecidingInv, TablesInv, Placed
<1>7. HoldingInv'
  BY <1>1, <1>3, <1>4 DEF HoldingInv, Recorded
<1>8. HistoryAgrees' /\ LogIdsDistinct' /\ TextInv'
  BY <1>1, <1>2, <1>4 DEF HistoryAgrees, LogIdsDistinct, Numbered, TextInv, Bounded
<1>9. CitingInv' /\ CompletedHasEvidence' /\ RecordingInv'
  BY <1>1, <1>3, <1>4 DEF CitingInv, Cites, Intact, CompletedHasEvidence, Closed,
                          RecordingInv, Recorded
<1> QED BY <1>5, <1>6, <1>7, <1>8, <1>9

-----------------------------------------------------------------------------
(* The tables *)

\* Rows that a crash may cut short, and keep their number.
Cuttable(R) == \A e \in R : /\ [e EXCEPT !.status = "cut"] \in R
                            /\ [e EXCEPT !.status = "cut"].id = e.id
                            /\ e.id \in Nat

\* all has the elements of rows, and row at place p.
PutAt(all, rows, row, p) ==
    /\ p \in 0 .. Len(rows)
    /\ Len(all) = Len(rows) + 1
    /\ \A i \in 1 .. p : all[i] = rows[i]
    /\ all[p + 1] = row
    /\ \A i \in p + 2 .. Len(rows) + 1 : all[i] = rows[i - 1]

\* part is the beginning of whole, each row as it was or cut short.
PartOf(part, whole) ==
    /\ Len(part) <= Len(whole)
    /\ \A i \in 1 .. Len(part) : part[i] \in {whole[i], [whole[i] EXCEPT !.status = "cut"]}

\* Elements at different places of all, but for the new row, come from different
\* places of rows, in the same order.
Apart(all, rows, p) ==
    \A i, j \in DOMAIN all : i # p + 1 /\ j # p + 1 =>
        \E k, l \in DOMAIN rows : /\ all[i] = rows[k] /\ all[j] = rows[l]
                                  /\ k = l => i = j
                                  /\ i < j => k < l

LEMMA RowsCuttable == Cuttable(OpsRow) /\ Cuttable(DecRow)
BY DEF Cuttable, OpsRow, DecRow

\* append_operation and append_decision put one row into the table.
LEMMA WrittenIs ==
    ASSUME NEW R, NEW log \in Table(R), Placed(log), NEW row \in R
    PROVE  /\ Written(log, row) \in Table(R)
           /\ Placed(Written(log, row))
           /\ Written(log, row).state = "ready"
           /\ Written(log, row).cut = log.cut
           /\ Written(log, row).next = log.next + 1
           /\ PutAt(Written(log, row).rows, log.rows, row, log.next)
<1> DEFINE rows == log.rows
           p    == log.next
           len  == Len(rows)
           head == SubSeq(rows, 1, p)
           tail == SubSeq(rows, p + 1, len)
           all  == head \o <<row>> \o tail
<1>1. rows \in Seq(R) /\ p \in Nat /\ log.cut \in BOOLEAN /\ len \in Nat /\ p <= len
  BY DEF Table, Placed
<1>2. /\ Written(log, row).rows = all /\ Written(log, row).state = "ready"
      /\ Written(log, row).cut = log.cut /\ Written(log, row).next = p + 1
      /\ Written(log, row) = [state |-> "ready", cut |-> log.cut, rows |-> all, next |-> p + 1]
  BY DEF Written
<1>3. head \in Seq(R) /\ Len(head) = p /\ \A i \in 1 .. p : head[i] = rows[i]
  BY <1>1
<1>4. tail \in Seq(R) /\ Len(tail) = len - p /\ \A i \in 1 .. len - p : tail[i] = rows[p + i]
  BY <1>1
<1> HIDE DEF head, tail
<1>5. all \in Seq(R) /\ Len(all) = len + 1
  <2>1. head \o <<row>> \in Seq(R) /\ Len(head \o <<row>>) = p + 1
    BY <1>1, <1>3
  <2>2. Len(all) = (p + 1) + (len - p)
    BY <1>4, <2>1
  <2> QED BY <1>1, <1>4, <2>1, <2>2
<1>6. \A i \in 1 .. p : all[i] = rows[i]
  BY <1>1, <1>3, <1>4
<1>7. all[p + 1] = row
  BY <1>1, <1>3, <1>4
<1>8. ASSUME NEW i \in p + 2 .. len + 1 PROVE all[i] = rows[i - 1]
  <2>1. i - (p + 1) \in 1 .. len - p /\ p + (i - (p + 1)) = i - 1
    BY <1>1
  <2>2. all[i] = tail[i - (p + 1)]
    BY <1>1, <1>3, <1>4
  <2> QED BY <1>4, <2>1, <2>2
<1> HIDE DEF all
<1>9. PutAt(all, rows, row, p)
  BY <1>1, <1>5, <1>6, <1>7, <1>8 DEF PutAt
<1>10. Written(log, row) \in Table(R)
  BY <1>1, <1>2, <1>5 DEF Table
<1>11. Placed(Written(log, row))
  BY <1>1, <1>2, <1>5 DEF Placed
<1> QED BY <1>2, <1>9, <1>10, <1>11

\* Each element is the row, or an element of the table, at most one place on.
LEMMA PutOrigin ==
    ASSUME NEW R, NEW rows \in Seq(R), NEW all \in Seq(R), NEW row \in R, NEW p,
           PutAt(all, rows, row, p)
    PROVE  /\ p + 1 \in DOMAIN all /\ all[p + 1] = row
           /\ \A i \in DOMAIN all : i # p + 1 =>
                 \E k \in DOMAIN rows : /\ all[i] = rows[k]
                                        /\ k = IF i <= p THEN i ELSE i - 1
           /\ \A k \in DOMAIN rows : \E i \in DOMAIN all : all[i] = rows[k]
<1>1. /\ p \in 0 .. Len(rows) /\ Len(rows) \in Nat /\ Len(all) = Len(rows) + 1
      /\ DOMAIN rows = 1 .. Len(rows) /\ DOMAIN all = 1 .. Len(rows) + 1
  BY DEF PutAt
<1>2. p + 1 \in DOMAIN all /\ all[p + 1] = row
  BY <1>1 DEF PutAt
<1>3. ASSUME NEW i \in DOMAIN all, i # p + 1
      PROVE  \E k \in DOMAIN rows : all[i] = rows[k] /\ k = IF i <= p THEN i ELSE i - 1
  <2>1. CASE i <= p
    <3>1. i \in DOMAIN rows /\ i \in 1 .. p
      BY <1>1, <2>1
    <3> QED BY <2>1, <3>1 DEF PutAt
  <2>2. CASE ~ (i <= p)
    <3>1. i - 1 \in DOMAIN rows /\ i \in p + 2 .. Len(rows) + 1
      BY <1>1, <1>3, <2>2
    <3> QED BY <2>2, <3>1 DEF PutAt
  <2> QED BY <2>1, <2>2
<1>4. ASSUME NEW k \in DOMAIN rows PROVE \E i \in DOMAIN all : all[i] = rows[k]
  <2>1. CASE k <= p
    <3>1. k \in DOMAIN all /\ k \in 1 .. p
      BY <1>1, <2>1
    <3> QED BY <3>1 DEF PutAt
  <2>2. CASE ~ (k <= p)
    <3>1. k + 1 \in DOMAIN all /\ k + 1 \in p + 2 .. Len(rows) + 1 /\ (k + 1) - 1 = k
      BY <1>1, <2>2
    <3>2. all[k + 1] = rows[(k + 1) - 1]
      BY <3>1 DEF PutAt
    <3> QED BY <3>1, <3>2
  <2> QED BY <2>1, <2>2
<1> QED BY <1>2, <1>3, <1>4

LEMMA PutApart ==
    ASSUME NEW R, NEW rows \in Seq(R), NEW all \in Seq(R), NEW row \in R, NEW p,
           PutAt(all, rows, row, p)
    PROVE  Apart(all, rows, p)
<1> SUFFICES ASSUME NEW i \in DOMAIN all, NEW j \in DOMAIN all, i # p + 1, j # p + 1
             PROVE  \E k, l \in DOMAIN rows : /\ all[i] = rows[k] /\ all[j] = rows[l]
                                              /\ k = l => i = j
                                              /\ i < j => k < l
  BY DEF Apart
<1>1. PICK k \in DOMAIN rows : all[i] = rows[k] /\ k = IF i <= p THEN i ELSE i - 1
  BY PutOrigin
<1>2. PICK l \in DOMAIN rows : all[j] = rows[l] /\ l = IF j <= p THEN j ELSE j - 1
  BY PutOrigin
<1>3. i \in Int /\ j \in Int /\ p \in Int
  BY DEF PutAt
<1>4. (k = l => i = j) /\ (i < j => k < l)
  BY <1>1, <1>2, <1>3
<1> QED BY <1>1, <1>2, <1>4

\* The number of the new row is greater than those of the table, so they stay
\* distinct, and growing where the row comes last.
LEMMA NumberedWritten ==
    ASSUME NEW R, Cuttable(R), NEW log \in Table(R), Placed(log), NEW row \in R,
           Numbered(log),
           \A i \in DOMAIN log.rows : log.rows[i].id < IdLimit => log.rows[i].id < row.id
    PROVE  Numbered(Written(log, row))
<1> DEFINE rows == log.rows
           all  == Written(log, row).rows
           p    == log.next
<1>0. PICK new : new = Written(log, row)
  OBVIOUS
<1>1. /\ new \in Table(R) /\ new.cut = log.cut /\ PutAt(all, rows, row, p) /\ all = new.rows
  BY <1>0, WrittenIs
<1>10. rows \in Seq(R) /\ p \in Nat /\ all \in Seq(R)
  BY <1>1 DEF Table
<1>11. DOMAIN all = 1 .. Len(all) /\ Len(all) = Len(rows) + 1
  BY <1>1, <1>10 DEF PutAt
<1>2. \A i \in DOMAIN all : all[i].id \in Nat
  <2>1. \A i \in DOMAIN all : all[i] \in R
    BY <1>10
  <2> QED BY <2>1 DEF Cuttable
<1>12. \A i \in DOMAIN all : i # p + 1 => \E k \in DOMAIN rows : all[i] = rows[k]
  BY ONLY <1>1, <1>10, row \in R, PutOrigin
<1>13. Apart(all, rows, p)
  BY ONLY <1>1, <1>10, row \in R, PutApart
<1>3. ASSUME NEW i \in DOMAIN all, i # p + 1, all[i].id < IdLimit
      PROVE  all[i].id < row.id
  BY <1>3, <1>12
<1>4. all[p + 1] = row /\ row.id \in Nat
  BY <1>1 DEF PutAt, Cuttable
<1> HIDE DEF all
<1>5. ASSUME NEW i \in DOMAIN all, NEW j \in DOMAIN all,
             all[i].id < IdLimit, all[i].id = all[j].id
      PROVE  i = j
  <2>1. CASE i # p + 1 /\ j # p + 1
    <3>1. PICK k, l \in DOMAIN rows : /\ all[i] = rows[k] /\ all[j] = rows[l]
                                      /\ k = l => i = j
      BY <1>13, <2>1 DEF Apart
    <3> QED BY <1>5, <3>1 DEF Numbered
  <2>2. CASE i = p + 1 /\ j # p + 1
    BY <1>2, <1>3, <1>4, <1>5, <2>2
  <2>3. CASE i # p + 1 /\ j = p + 1
    BY <1>2, <1>3, <1>4, <1>5, <2>3
  <2> QED BY <2>1, <2>2, <2>3
<1>6. ASSUME ~ log.cut, NEW i \in DOMAIN all, NEW j \in DOMAIN all, i < j, all[i].id < IdLimit
      PROVE  all[i].id < all[j].id
  <2>1. p = Len(rows)
    BY <1>6 DEF Placed
  <2>2. i # p + 1
    BY <1>10, <1>11, <1>6, <2>1
  <2>3. CASE j = p + 1
    BY <1>3, <1>4, <1>6, <2>2, <2>3
  <2>4. CASE j # p + 1
    <3>1. PICK k, l \in DOMAIN rows : /\ all[i] = rows[k] /\ all[j] = rows[l]
                                      /\ i < j => k < l
      BY <1>13, <2>2, <2>4 DEF Apart
    <3> QED BY <1>6, <3>1 DEF Numbered
  <2> QED BY <2>3, <2>4
<1> QED BY <1>0, <1>1, <1>5, <1>6 DEF Numbered, all

\* What a crash leaves of a table is one, and it is the whole or a part of it.
LEMMA AfterCrashIs ==
    ASSUME NEW R, Cuttable(R), NEW log \in Table(R), Placed(log), NEW row \in R,
           NEW out \in AfterCrash(log, row)
    PROVE  /\ out \in Table(R) /\ Placed(out) /\ out.state # "open"
           /\ \/ out = Written(log, row)
              \/ out.cut /\ PartOf(out.rows, Written(log, row).rows)
<1> DEFINE new == Written(log, row)
<1>1. new \in Table(R) /\ Placed(new) /\ new.state = "ready"
  BY WrittenIs
<1>2. new.rows \in Seq(R) /\ new.next \in Nat /\ new.next <= Len(new.rows) /\ Len(new.rows) \in Nat
  BY <1>1 DEF Table, Placed
<1> HIDE DEF new
<1>3. CASE out = [NewTable("unusable") EXCEPT !.cut = TRUE]
  <2>1. /\ out.state = "unusable" /\ out.cut /\ out.rows = <<>> /\ out.next = 0
        /\ out = [state |-> "unusable", cut |-> TRUE, rows |-> <<>>, next |-> 0]
    BY <1>3 DEF NewTable
  <2>2. Len(out.rows) = 0 /\ <<>> \in Seq(R)
    BY <2>1
  <2> QED BY <1>2, <2>1, <2>2 DEF Table, Placed, PartOf, new
<1>4. ASSUME NEW n \in 0 .. Len(new.rows), NEW short \in BOOLEAN, NEW k \in Nat, k <= n,
             out = [state |-> "ready", cut |-> TRUE, rows |-> Beginning(new.rows, n, short), next |-> k]
      PROVE  out \in Table(R) /\ Placed(out) /\ out.state # "open" /\ out.cut /\ PartOf(out.rows, new.rows)
  <2> DEFINE rows == Beginning(new.rows, n, short)
  <2>1. \A i \in 1 .. n : new.rows[i] \in R /\ [new.rows[i] EXCEPT !.status = "cut"] \in R
    BY <1>2 DEF Cuttable
  <2>2. \A i \in 1 .. n : rows[i] \in {new.rows[i], [new.rows[i] EXCEPT !.status = "cut"]}
    BY DEF Beginning
  <2>3. rows \in [1 .. n -> R]
    BY <2>1 DEF Beginning
  <2>4. rows \in Seq(R) /\ Len(rows) = n
    <3>1. n \in Nat
      OBVIOUS
    <3> HIDE DEF rows
    <3> QED BY <2>3, <3>1
  <2> HIDE DEF rows
  <2>5. out.rows = rows /\ out.next = k /\ out.state = "ready" /\ out.cut
    BY <1>4 DEF rows
  <2>6. out \in Table(R)
    BY <1>4, <2>4 DEF Table, rows
  <2>7. Placed(out)
    BY <1>2, <1>4, <2>4, <2>5 DEF Placed
  <2>8. PartOf(out.rows, new.rows)
    BY <1>2, <2>2, <2>4, <2>5 DEF PartOf
  <2> QED BY <2>5, <2>6, <2>7, <2>8
<1>5. CASE out # new /\ out # [NewTable("unusable") EXCEPT !.cut = TRUE]
  <2>1. PICK n \in 0 .. Len(new.rows), short \in BOOLEAN, k \in Nat :
           /\ k <= n
           /\ out = [state |-> "ready", cut |-> TRUE, rows |-> Beginning(new.rows, n, short), next |-> k]
    <3> DEFINE separator == IF log.cut THEN new.next ELSE 0
    <3>1. separator \in Nat
      BY <1>2
    <3>2. PICK n \in 0 .. Len(new.rows), short \in BOOLEAN, k \in {0, separator} :
             /\ out = [state |-> "ready", cut |-> TRUE,
                       rows |-> Beginning(new.rows, n, short), next |-> k]
             /\ IF out.next = separator THEN Len(out.rows) >= separator
                                        ELSE Len(out.rows) <= separator
      BY <1>5 DEF AfterCrash, new
    <3>3. Len(out.rows) = n /\ out.next = k /\ n \in Nat
      <4>1. out.rows = Beginning(new.rows, n, short) /\ n \in Nat
        BY <1>2, <3>2
      <4> QED BY <3>2, <4>1 DEF Beginning
    <3>4. k \in Nat /\ k <= n
      BY <3>1, <3>2, <3>3
    <3> QED BY <3>2, <3>4
  <2> QED BY <1>4, <2>1 DEF new
<1> QED BY <1>1, <1>3, <1>5 DEF new

LEMMA NumberedPart ==
    ASSUME NEW R, Cuttable(R), NEW whole \in Table(R), NEW part \in Table(R),
           Numbered(whole), part.cut, PartOf(part.rows, whole.rows)
    PROVE  Numbered(part)
<1>1. /\ part.rows \in Seq(R) /\ whole.rows \in Seq(R)
      /\ DOMAIN part.rows = 1 .. Len(part.rows) /\ DOMAIN whole.rows = 1 .. Len(whole.rows)
      /\ Len(part.rows) \in Nat /\ Len(whole.rows) \in Nat /\ Len(part.rows) <= Len(whole.rows)
  BY DEF Table, PartOf
<1>2. DOMAIN part.rows \subseteq DOMAIN whole.rows
  BY <1>1
<1>3. \A i \in DOMAIN part.rows : part.rows[i].id = whole.rows[i].id
  <2> TAKE i \in DOMAIN part.rows
  <2>1. whole.rows[i] \in R
    BY <1>1, <1>2
  <2>2. part.rows[i] \in {whole.rows[i], [whole.rows[i] EXCEPT !.status = "cut"]}
    BY <1>1 DEF PartOf
  <2> QED BY <2>1, <2>2 DEF Cuttable
<1> QED BY <1>2, <1>3 DEF Numbered

\* The handler that writes the Operation Log leaves a table that agrees with the
\* files, whether it gets to the end or a crash cuts it.
LEMMA RewrittenLog ==
    ASSUME Inv, h.at = "logging", opsLog' \in AfterCrash(opsLog, NewOpsRow),
           UNCHANGED <<file, ops, jobs>>
    PROVE  /\ opsLog' \in Table(OpsRow) /\ Placed(opsLog)' /\ opsLog'.state # "open"
           /\ HistoryAgrees' /\ Numbered(opsLog)' /\ Bounded(OpsNumbers)'
           /\ \A r \in OpsRows' : r.status # "cut" => r \in OpsRows \cup {NewOpsRow}
           /\ opsLog' = Written(opsLog, NewOpsRow) => OpsRows' = OpsRows \cup {NewOpsRow}
<1> USE DEF Inv, IInv
<1> DEFINE rows  == opsLog.rows
           e     == NewOpsRow
           whole == Written(opsLog, NewOpsRow)
           p     == opsLog.next
<1>1. /\ h.op \in OpIds /\ h.new = ops[h.op]
      /\ h.new.status \in {"completed", "failed"}
      /\ h.new.outcome \in Outcomes
      /\ ~ Recorded(h.op)
  BY DEF HoldingInv
<1>2. OpsNumbers \subseteq Nat
  <2>1. ASSUME NEW i \in DOMAIN rows
        PROVE  rows[i].id \in Nat /\ CitedIn[rows[i].outcome] \in Nat
    <3>1. rows[i] \in OpsRow
      BY RowTypes DEF OpsRows
    <3> QED BY <3>1 DEF OpsRow
  <2> QED BY <2>1 DEF OpsNumbers
<1>3. /\ NextLogId(OpsNumbers) \in Nat
      /\ \A n \in OpsNumbers : n < IdLimit => n < NextLogId(OpsNumbers)
  BY <1>2, NextLogIdIsNew DEF TextInv
<1>4. e \in OpsRow /\ e.id = NextLogId(OpsNumbers) /\ e.op = h.op
      /\ e.status = h.new.status /\ e.outcome = h.new.outcome
  BY <1>1, <1>3 DEF NewOpsRow, OpsRow, Statuses
<1>5. opsLog \in Table(OpsRow) /\ Placed(opsLog) /\ rows \in Seq(OpsRow)
  BY DEF TypeOK, TablesInv, Table
<1>6. \A i \in DOMAIN rows : rows[i].id \in OpsNumbers
  BY DEF OpsNumbers
<1>7. Numbered(opsLog)
  BY DEF LogIdsDistinct
<1> HIDE DEF e
<1>8. /\ whole \in Table(OpsRow) /\ whole.rows \in Seq(OpsRow)
      /\ PutAt(whole.rows, rows, e, p)
      /\ Numbered(whole)
  <2>1. \A i \in DOMAIN rows : rows[i].id < IdLimit => rows[i].id < e.id
    BY <1>3, <1>4, <1>6
  <2>2. whole = Written(opsLog, e)
    BY DEF e
  <2>3. whole \in Table(OpsRow) /\ PutAt(whole.rows, rows, e, p)
    BY ONLY <1>4, <1>5, <2>2, WrittenIs
  <2>4. Numbered(whole)
    BY ONLY <1>4, <1>5, <1>7, <2>1, <2>2, RowsCuttable, NumberedWritten
  <2> QED BY <2>3, <2>4 DEF Table
<1>9. /\ opsLog' \in Table(OpsRow) /\ Placed(opsLog)' /\ opsLog'.state # "open"
      /\ opsLog' = whole \/ (opsLog'.cut /\ PartOf(opsLog'.rows, whole.rows))
  <2>1. opsLog' \in AfterCrash(opsLog, e) /\ whole = Written(opsLog, e)
    BY DEF e
  <2>2. /\ opsLog' \in Table(OpsRow) /\ Placed(opsLog') /\ opsLog'.state # "open"
        /\ \/ opsLog' = Written(opsLog, e)
           \/ opsLog'.cut /\ PartOf(opsLog'.rows, Written(opsLog, e).rows)
    BY ONLY <1>4, <1>5, <2>1, RowsCuttable, AfterCrashIs
  <2> QED BY <2>1, <2>2 DEF Placed
<1> HIDE DEF whole
<1>10. PartOf(opsLog'.rows, whole.rows)
  BY <1>8, <1>9 DEF PartOf
<1>11. \A i \in DOMAIN whole.rows : whole.rows[i] = e \/ \E k \in DOMAIN rows : whole.rows[i] = rows[k]
  <2>1. /\ whole.rows[p + 1] = e
        /\ \A i \in DOMAIN whole.rows : i # p + 1 => \E k \in DOMAIN rows : whole.rows[i] = rows[k]
    BY ONLY <1>4, <1>5, <1>8, PutOrigin
  <2> QED BY <2>1
<1>12. /\ opsLog'.rows \in Seq(OpsRow)
       /\ DOMAIN opsLog'.rows \subseteq DOMAIN whole.rows
       /\ \A i \in DOMAIN opsLog'.rows :
             opsLog'.rows[i] \in {whole.rows[i], [whole.rows[i] EXCEPT !.status = "cut"]}
  <2>1. opsLog'.rows \in Seq(OpsRow)
    BY <1>9 DEF Table
  <2>2. DOMAIN opsLog'.rows = 1 .. Len(opsLog'.rows) /\ DOMAIN whole.rows = 1 .. Len(whole.rows)
        /\ Len(opsLog'.rows) \in Nat /\ Len(whole.rows) \in Nat
    BY <1>8, <2>1
  <2> QED BY <1>10, <2>1, <2>2 DEF PartOf
<1>13. \A i \in DOMAIN opsLog'.rows :
          /\ opsLog'.rows[i].id = whole.rows[i].id
          /\ opsLog'.rows[i].op = whole.rows[i].op
          /\ opsLog'.rows[i].outcome = whole.rows[i].outcome
          /\ opsLog'.rows[i].status \in {whole.rows[i].status, "cut"}
  <2> TAKE i \in DOMAIN opsLog'.rows
  <2>1. whole.rows[i] \in OpsRow
    BY <1>8, <1>12
  <2> QED BY <1>12, <2>1 DEF OpsRow
<1>14. HistoryAgrees'
  <2>1. ASSUME NEW i \in DOMAIN whole.rows
        PROVE  /\ ops[whole.rows[i].op].status \in {"completed", "failed"}
               /\ whole.rows[i].status # "cut" =>
                     /\ ops[whole.rows[i].op].status = whole.rows[i].status
                     /\ ops[whole.rows[i].op].outcome = whole.rows[i].outcome
    BY <1>1, <1>4, <1>11 DEF HistoryAgrees, OpsRows
  <2>2. ASSUME NEW r \in OpsRows'
        PROVE  /\ ops'[r.op].status \in {"completed", "failed"}
               /\ r.status # "cut" => ops'[r.op].status = r.status /\ ops'[r.op].outcome = r.outcome
    <3>1. PICK i \in DOMAIN opsLog'.rows : r = opsLog'.rows[i]
      BY DEF OpsRows
    <3> QED BY <1>12, <1>13, <2>1, <3>1
  <2>3. \A k \in DOMAIN rows : rows[k].op # e.op
    BY <1>1, <1>4 DEF Recorded, OpsRows
  <2>4. ASSUME NEW i \in DOMAIN whole.rows, NEW j \in DOMAIN whole.rows,
               whole.rows[i].op = whole.rows[j].op
        PROVE  i = j
    <3>1. CASE i # p + 1 /\ j # p + 1
      <4>1. PICK k, l \in DOMAIN rows : /\ whole.rows[i] = rows[k] /\ whole.rows[j] = rows[l]
                                        /\ k = l => i = j
        <5>1. Apart(whole.rows, rows, p)
          BY ONLY <1>4, <1>5, <1>8, PutApart
        <5> QED BY <3>1, <5>1 DEF Apart
      <4> QED BY <2>4, <4>1 DEF HistoryAgrees
    <3>2. whole.rows[p + 1] = e
      BY <1>8 DEF PutAt
    <3>3. \A x \in DOMAIN whole.rows : x # p + 1 => whole.rows[x].op # e.op
      BY <1>4, <1>5, <1>8, <2>3, PutOrigin
    <3> QED BY <2>4, <3>1, <3>2, <3>3
  <2>5. ASSUME NEW i \in DOMAIN opsLog'.rows, NEW j \in DOMAIN opsLog'.rows,
               opsLog'.rows[i].op = opsLog'.rows[j].op
        PROVE  i = j
    BY <1>12, <1>13, <2>4, <2>5
  <2> QED BY <2>2, <2>5 DEF HistoryAgrees
<1>15. Numbered(opsLog')
  BY <1>8, <1>9, RowsCuttable, NumberedPart
<1>16. Bounded(OpsNumbers)'
  <2>1. PICK b \in Nat : \A n \in OpsNumbers : n <= b
    BY DEF TextInv, Bounded
  <2>2. e.id \in Nat /\ CitedIn[e.outcome] \in Nat
    BY <1>1, <1>3, <1>4
  <2> DEFINE m == b + e.id + CitedIn[e.outcome]
  <2>3. m \in Nat /\ b <= m /\ e.id <= m /\ CitedIn[e.outcome] <= m
    BY <2>2
  <2> HIDE DEF m
  <2>4. ASSUME NEW n \in OpsNumbers PROVE n <= m
    <3>1. n \in Nat /\ n <= b
      BY <1>2, <2>1
    <3> QED BY <2>3, <3>1
  <2>5. ASSUME NEW i \in DOMAIN whole.rows
        PROVE  /\ whole.rows[i].id <= m
               /\ whole.rows[i].status # "cut" => CitedIn[whole.rows[i].outcome] <= m
    <3>1. CASE whole.rows[i] = e
      BY <2>3, <3>1
    <3>2. ASSUME NEW k \in DOMAIN rows, whole.rows[i] = rows[k]
          PROVE  /\ whole.rows[i].id <= m
                 /\ whole.rows[i].status # "cut" => CitedIn[whole.rows[i].outcome] <= m
      <4>1. /\ rows[k].id \in OpsNumbers
            /\ rows[k].status # "cut" => CitedIn[rows[k].outcome] \in OpsNumbers
        BY DEF OpsNumbers
      <4> QED BY <2>4, <3>2, <4>1
    <3> QED BY <1>11, <3>1, <3>2
  <2>6. ASSUME NEW n \in OpsNumbers' PROVE n <= m
    <3>1. PICK i \in DOMAIN opsLog'.rows :
             n = opsLog'.rows[i].id \/ (opsLog'.rows[i].status # "cut" /\ n = CitedIn[opsLog'.rows[i].outcome])
      BY DEF OpsNumbers
    <3> QED BY <1>12, <1>13, <2>5, <3>1
  <2> QED BY <2>3, <2>6 DEF Bounded
<1>17. ASSUME NEW r \in OpsRows', r.status # "cut" PROVE r \in OpsRows \cup {e}
  <2>1. PICK i \in DOMAIN opsLog'.rows : r = opsLog'.rows[i]
    BY DEF OpsRows
  <2>2. whole.rows[i] \in OpsRow /\ i \in DOMAIN whole.rows
    BY <1>8, <1>12
  <2>3. r = whole.rows[i]
    BY <1>12, <1>17, <2>1, <2>2 DEF OpsRow
  <2> QED BY <1>11, <2>2, <2>3 DEF OpsRows
<1>18. ASSUME opsLog' = whole PROVE OpsRows' = OpsRows \cup {e}
  <2>1. /\ p + 1 \in DOMAIN whole.rows /\ whole.rows[p + 1] = e
        /\ \A i \in DOMAIN whole.rows : i # p + 1 => \E k \in DOMAIN rows : whole.rows[i] = rows[k]
        /\ \A k \in DOMAIN rows : \E i \in DOMAIN whole.rows : whole.rows[i] = rows[k]
    BY <1>4, <1>5, <1>8, PutOrigin
  <2>2. OpsRows' = {whole.rows[i] : i \in DOMAIN whole.rows} /\ OpsRows = {rows[k] : k \in DOMAIN rows}
    BY <1>18 DEF OpsRows
  <2> QED BY <2>1, <2>2
<1>19. Numbered(opsLog)'
  BY <1>15 DEF Numbered
<1> QED BY <1>9, <1>14, <1>16, <1>17, <1>18, <1>19 DEF whole, e

\* The same of Decisions.md: what stays of it is numbered, and if it was not cut the
\* new row has joined the others.
LEMMA RewrittenDecisions ==
    ASSUME Inv, h.at = "deciding", decLog' \in AfterCrash(decLog, h.row)
    PROVE  /\ decLog' \in Table(DecRow) /\ Placed(decLog)' /\ decLog'.state # "open"
           /\ Numbered(decLog)' /\ Bounded(DecNumbers)'
           /\ decLog' = Written(decLog, h.row) =>
                 decLog'.cut = decLog.cut /\ DecRows' = DecRows \cup {h.row}
           /\ decLog' # Written(decLog, h.row) => decLog'.cut
<1> USE DEF Inv, IInv
<1> DEFINE rows  == decLog.rows
           e     == h.row
           whole == Written(decLog, h.row)
           p     == decLog.next
<1>1. e \in DecRow /\ e.id \in Nat /\ \A n \in DecNumbers : n < IdLimit => n < e.id
  BY DEF DecidingInv, DecRow
<1>2. /\ decLog \in Table(DecRow) /\ Placed(decLog) /\ rows \in Seq(DecRow) /\ Numbered(decLog)
  BY DEF TypeOK, TablesInv, Table, LogIdsDistinct
<1>3. \A i \in DOMAIN rows : rows[i].id \in DecNumbers
  BY DEF DecNumbers
<1>4. /\ whole \in Table(DecRow) /\ whole.rows \in Seq(DecRow) /\ whole.cut = decLog.cut
      /\ PutAt(whole.rows, rows, e, p)
      /\ Numbered(whole)
  <2>1. \A i \in DOMAIN rows : rows[i].id < IdLimit => rows[i].id < e.id
    BY <1>1, <1>3
  <2>2. whole = Written(decLog, e)
    OBVIOUS
  <2> HIDE DEF e, whole
  <2>3. whole \in Table(DecRow) /\ PutAt(whole.rows, rows, e, p) /\ whole.cut = decLog.cut
    BY ONLY <1>1, <1>2, <2>2, WrittenIs
  <2>4. Numbered(whole)
    BY ONLY <1>1, <1>2, <2>1, <2>2, RowsCuttable, NumberedWritten
  <2> QED BY <2>3, <2>4 DEF Table
<1>5. /\ decLog' \in Table(DecRow) /\ Placed(decLog') /\ decLog'.state # "open"
      /\ decLog' = whole \/ (decLog'.cut /\ PartOf(decLog'.rows, whole.rows))
  BY ONLY <1>1, <1>2, RowsCuttable, AfterCrashIs, decLog' \in AfterCrash(decLog, h.row)
<1> HIDE DEF whole, e
<1>6. Numbered(decLog')
  BY <1>4, <1>5, RowsCuttable, NumberedPart
<1>7. PartOf(decLog'.rows, whole.rows)
  BY <1>4, <1>5 DEF PartOf
<1>8. \A i \in DOMAIN decLog'.rows : i \in DOMAIN whole.rows /\ decLog'.rows[i].id = whole.rows[i].id
  <2> TAKE i \in DOMAIN decLog'.rows
  <2>1. decLog'.rows \in Seq(DecRow)
    BY <1>5 DEF Table
  <2>2. i \in 1 .. Len(decLog'.rows) /\ i \in DOMAIN whole.rows
    BY <1>4, <1>7, <2>1 DEF PartOf
  <2>3. whole.rows[i] \in DecRow
    BY <1>4, <2>2
  <2> QED BY <1>7, <2>2, <2>3, RowsCuttable DEF PartOf, Cuttable
<1>9. Bounded(DecNumbers)'
  <2>1. PICK b \in Nat : \A n \in DecNumbers : n <= b
    BY DEF TextInv, Bounded
  <2> DEFINE m == b + e.id
  <2>2. m \in Nat /\ b <= m /\ e.id <= m
    BY <1>1
  <2> HIDE DEF m
  <2>3. ASSUME NEW n \in DecNumbers PROVE n <= m
    <3>1. n \in Nat /\ n <= b
      <4>1. PICK i \in DOMAIN rows : n = rows[i].id
        BY DEF DecNumbers
      <4>2. rows[i] \in DecRow
        BY <1>2
      <4> QED BY <2>1, <4>1, <4>2 DEF DecRow
    <3> QED BY <2>2, <3>1
  <2>4. \A i \in DOMAIN whole.rows : whole.rows[i].id <= m
    <3>1. \A i \in DOMAIN whole.rows : whole.rows[i] = e \/ \E k \in DOMAIN rows : whole.rows[i] = rows[k]
      <4>1. /\ whole.rows[p + 1] = e
            /\ \A i \in DOMAIN whole.rows : i # p + 1 => \E k \in DOMAIN rows : whole.rows[i] = rows[k]
        BY ONLY <1>1, <1>2, <1>4, PutOrigin
      <4> QED BY <4>1
    <3> QED BY <1>3, <2>2, <2>3, <3>1
  <2>5. ASSUME NEW n \in DecNumbers' PROVE n <= m
    <3>1. PICK i \in DOMAIN decLog'.rows : n = decLog'.rows[i].id
      BY DEF DecNumbers
    <3> QED BY <1>8, <2>4, <3>1
  <2> QED BY <2>2, <2>5 DEF Bounded
<1>10. ASSUME decLog' = whole PROVE DecRows' = DecRows \cup {e}
  <2>1. /\ p + 1 \in DOMAIN whole.rows /\ whole.rows[p + 1] = e
        /\ \A i \in DOMAIN whole.rows : i # p + 1 => \E k \in DOMAIN rows : whole.rows[i] = rows[k]
        /\ \A k \in DOMAIN rows : \E i \in DOMAIN whole.rows : whole.rows[i] = rows[k]
    BY <1>1, <1>2, <1>4, PutOrigin
  <2>2. DecRows' = {whole.rows[i] : i \in DOMAIN whole.rows} /\ DecRows = {rows[k] : k \in DOMAIN rows}
    BY <1>10 DEF DecRows
  <2> QED BY <2>1, <2>2
<1>11. Numbered(decLog)' /\ Placed(decLog)'
  BY <1>5, <1>6 DEF Numbered, Placed
<1> QED BY <1>4, <1>5, <1>9, <1>10, <1>11 DEF whole, e

LEMMA WriteLogInv == ASSUME Inv, WriteLog PROVE Inv'
<1> USE DEF Inv, IInv
<1>1. /\ h.at = "logging" /\ h' = Idle
      /\ opsLog' = Written(opsLog, NewOpsRow)
      /\ UNCHANGED <<file, ops, decLog, jobs, crashes>>
  BY DEF WriteLog
<1>2. opsLog' \in AfterCrash(opsLog, NewOpsRow)
  BY <1>1 DEF AfterCrash
<1>3. /\ opsLog' \in Table(OpsRow) /\ Placed(opsLog)' /\ opsLog'.state # "open"
      /\ HistoryAgrees' /\ Numbered(opsLog)' /\ Bounded(OpsNumbers)'
      /\ OpsRows' = OpsRows \cup {NewOpsRow}
  BY <1>1, <1>2, RewrittenLog
<1>4. DecRows' = DecRows /\ DecNumbers' = DecNumbers
  BY <1>1 DEF DecRows, DecNumbers
<1>5. h'.at = "idle" /\ h' \in Handler
  BY <1>1, NewOperationType DEF Idle, Handler, Points
<1>6. TypeOK'
  BY <1>1, <1>3, <1>5 DEF TypeOK
<1>7. SavingInv' /\ HoldingInv' /\ DecidingInv'
  BY <1>5 DEF SavingInv, HoldingInv, DecidingInv
<1>8. TablesInv'
  BY <1>1, <1>3, <1>5 DEF TablesInv, Placed
<1>9. LogIdsDistinct' /\ TextInv'
  BY <1>1, <1>3, <1>4 DEF LogIdsDistinct, Numbered, TextInv, Bounded
<1>10. CitingInv' /\ CompletedHasEvidence'
  BY <1>1, <1>4, <1>5 DEF CitingInv, Cites, Intact, CompletedHasEvidence, Closed
<1>11. RecordingInv'
  <2>1. opsLog.state = "open"
    BY <1>1 DEF TablesInv
  <2>2. \A x : Recorded(x) \/ x = h.op => Recorded(x)'
    <3>1. NewOpsRow.op = h.op
      BY DEF NewOpsRow
    <3> QED BY <1>3, <3>1 DEF Recorded
  <2> QED BY <1>1, <2>1, <2>2 DEF RecordingInv, Closed
<1> QED BY <1>3, <1>6, <1>7, <1>8, <1>9, <1>10, <1>11

LEMMA ActOnRecommendationInv ==
    ASSUME Inv, NEW r \in Recs, NEW a \in DOMAIN ActionToStatus, NEW b \in BOOLEAN,
           ActOnRecommendation(r, a, b)
    PROVE  Inv'
<1> USE DEF Inv, IInv
<1> DEFINE row == [id |-> NextLogId(DecNumbers), rec |-> r, status |-> ActionToStatus[a]]
           then == IF b /\ a = "approve" THEN "spawn" ELSE "idle"
<1>1. /\ h.at = "idle" /\ decLog.state = "ready"
      /\ b => NextOp \in OpIds
      /\ decLog' = [decLog EXCEPT !.state = "open"]
      /\ h' = [Idle EXCEPT !.at = "deciding", !.row = row, !.then = then]
      /\ UNCHANGED <<file, ops, opsLog, jobs, crashes>>
  BY DEF ActOnRecommendation
<1>2. DecNumbers \subseteq Nat
  <2>1. ASSUME NEW i \in DOMAIN decLog.rows PROVE decLog.rows[i].id \in Nat
    <3>1. decLog.rows[i] \in DecRow
      BY RowTypes DEF DecRows
    <3> QED BY <3>1 DEF DecRow
  <2> QED BY <2>1 DEF DecNumbers
<1>3. /\ NextLogId(DecNumbers) \in Nat
      /\ \A n \in DecNumbers : n < IdLimit => n < NextLogId(DecNumbers)
  BY <1>2, NextLogIdIsNew DEF TextInv
<1>4. /\ row \in DecRow /\ row.id = NextLogId(DecNumbers)
      /\ then \in {"idle", "spawn"}
      /\ then = "spawn" => row.status = "approved" /\ NextOp \in OpIds
  BY <1>1, <1>3 DEF DecRow, DecStatuses, ActionToStatus
<1> HIDE DEF row, then
<1>5. /\ h'.at = "deciding" /\ h'.row = row /\ h'.then = then
      /\ h' \in Handler
  BY <1>1, <1>4, NewOperationType DEF Idle, Handler, Points
<1>6. /\ decLog'.state = "open" /\ decLog'.rows = decLog.rows
      /\ decLog'.cut = decLog.cut /\ decLog'.next = decLog.next
      /\ decLog' \in Table(DecRow)
  BY <1>1 DEF TypeOK, Table
<1>7. OpsRows' = OpsRows /\ DecRows' = DecRows
      /\ OpsNumbers' = OpsNumbers /\ DecNumbers' = DecNumbers
  BY <1>1, <1>6 DEF OpsRows, DecRows, OpsNumbers, DecNumbers
<1>8. NextOp' = NextOp
  BY <1>1 DEF NextOp
<1>9. TypeOK'
  BY <1>1, <1>5, <1>6 DEF TypeOK
<1>10. SavingInv' /\ HoldingInv' /\ TablesInv'
  BY <1>1, <1>5, <1>6 DEF SavingInv, HoldingInv, TablesInv, Placed
<1>11. DecidingInv'
  BY <1>3, <1>4, <1>5, <1>7, <1>8 DEF DecidingInv
<1>12. HistoryAgrees' /\ LogIdsDistinct' /\ TextInv'
  BY <1>1, <1>6, <1>7 DEF HistoryAgrees, LogIdsDistinct, Numbered, TextInv, Bounded
<1>13. CitingInv' /\ CompletedHasEvidence' /\ RecordingInv'
  BY <1>1, <1>5, <1>6, <1>7 DEF CitingInv, Cites, Intact, CompletedHasEvidence, Closed,
                          RecordingInv, Recorded
<1> QED BY <1>9, <1>10, <1>11, <1>12, <1>13

LEMMA WriteDecisionInv == ASSUME Inv, WriteDecision PROVE Inv'
<1> USE DEF Inv, IInv
<1>1. /\ h.at = "deciding"
      /\ decLog' = Written(decLog, h.row)
      /\ UNCHANGED <<file, ops, opsLog, jobs, crashes>>
  BY DEF WriteDecision
<1>2. /\ h.then \in {"idle", "spawn"}
      /\ h.then = "spawn" => h.row.status = "approved" /\ NextOp \in OpIds
  BY <1>1 DEF DecidingInv
<1>3. decLog' \in AfterCrash(decLog, h.row)
  BY <1>1 DEF AfterCrash
<1>4. /\ decLog' \in Table(DecRow) /\ Placed(decLog)' /\ decLog'.state # "open"
      /\ Numbered(decLog)' /\ Bounded(DecNumbers)'
      /\ decLog'.cut = decLog.cut /\ DecRows' = DecRows \cup {h.row}
  BY <1>1, <1>3, RewrittenDecisions
<1>5. /\ h'.at = h.then
      /\ h.then = "idle" => h' = Idle
      /\ h.then = "spawn" => h'.row = h.row
      /\ h' \in Handler
  <2>1. CASE h.then = "idle"
    BY <2>1, NewOperationType DEF WriteDecision, Idle, Handler, Points
  <2>2. CASE h.then = "spawn"
    BY <2>2 DEF WriteDecision, TypeOK, Handler, Points
  <2> QED BY <1>2, <2>1, <2>2
<1>6. OpsRows' = OpsRows /\ OpsNumbers' = OpsNumbers /\ NextOp' = NextOp
  BY <1>1 DEF OpsRows, OpsNumbers, NextOp
<1>7. TypeOK'
  BY <1>1, <1>4, <1>5 DEF TypeOK
<1>8. SavingInv' /\ HoldingInv'
  BY <1>2, <1>5 DEF SavingInv, HoldingInv
<1>9. TablesInv'
  BY <1>1, <1>2, <1>4, <1>5 DEF TablesInv, Placed
<1>10. DecidingInv'
  BY <1>2, <1>4, <1>5, <1>6 DEF DecidingInv
<1>11. HistoryAgrees'
  BY <1>1, <1>6 DEF HistoryAgrees
<1>12. LogIdsDistinct' /\ TextInv'
  BY <1>1, <1>4, <1>6 DEF LogIdsDistinct, Numbered, TextInv, Bounded
<1>13. CitingInv'
  <2>1. Intact(decLog)' => Intact(decLog)
    <3>1. decLog.state = "open"
      BY <1>1 DEF TablesInv
    <3> QED BY <1>4, <3>1 DEF Intact
  <2>2. Intact(decLog)' => \A x \in OpIds : Cites(ops[x])
    BY <2>1 DEF CitingInv
  <2>3. Intact(decLog)' => \A x \in OpIds : Cites(ops[x])'
    BY <1>1, <1>4, <2>2 DEF Cites
  <2>4. h'.at \in {"idle", "spawn"}
    BY <1>2, <1>5
  <2> QED BY <2>3, <2>4 DEF CitingInv
<1>14. CompletedHasEvidence' /\ RecordingInv'
  BY <1>1, <1>6 DEF CompletedHasEvidence, Closed, RecordingInv, Recorded
<1> QED BY <1>7, <1>8, <1>9, <1>10, <1>11, <1>12, <1>13, <1>14

\* A crash forgets the handler; of a table that was open a beginning stays.
LEMMA CrashInv == ASSUME Inv, Crash PROVE Inv'
<1> USE DEF Inv, IInv
<1>1. /\ h' = Idle /\ crashes < MaxCrashes /\ crashes' = crashes + 1
      /\ opsLog' \in IF h.at = "logging" THEN AfterCrash(opsLog, NewOpsRow) ELSE {opsLog}
      /\ decLog' \in IF h.at = "deciding" THEN AfterCrash(decLog, h.row) ELSE {decLog}
      /\ UNCHANGED <<file, ops, jobs>>
  BY DEF Crash
<1>2. h'.at = "idle" /\ h' \in Handler
  BY <1>1, NewOperationType DEF Idle, Handler, Points
<1>3. crashes' \in 0 .. MaxCrashes /\ crashes' # 0
  BY <1>1 DEF TypeOK
<1>4. /\ opsLog' \in Table(OpsRow) /\ Placed(opsLog)' /\ opsLog'.state # "open"
      /\ HistoryAgrees' /\ Numbered(opsLog)' /\ Bounded(OpsNumbers)'
  <2>1. CASE h.at = "logging"
    BY <1>1, <2>1, RewrittenLog
  <2>2. CASE h.at # "logging"
    <3>1. opsLog' = opsLog /\ opsLog.state # "open"
      BY <1>1, <2>2 DEF TablesInv
    <3>2. OpsRows' = OpsRows /\ OpsNumbers' = OpsNumbers
      BY <3>1 DEF OpsRows, OpsNumbers
    <3> QED BY <1>1, <3>1, <3>2
            DEF TypeOK, TablesInv, Placed, HistoryAgrees, LogIdsDistinct, Numbered, TextInv, Bounded
  <2> QED BY <2>1, <2>2
<1>5. /\ decLog' \in Table(DecRow) /\ Placed(decLog)' /\ decLog'.state # "open"
      /\ Numbered(decLog)' /\ Bounded(DecNumbers)'
      /\ Intact(decLog)' => Intact(decLog) /\ DecRows \subseteq DecRows'
  <2>1. CASE h.at = "deciding"
    <3>1. /\ decLog' \in Table(DecRow) /\ Placed(decLog)' /\ decLog'.state # "open"
          /\ Numbered(decLog)' /\ Bounded(DecNumbers)'
          /\ decLog' = Written(decLog, h.row) =>
                decLog'.cut = decLog.cut /\ DecRows' = DecRows \cup {h.row}
          /\ decLog' # Written(decLog, h.row) => decLog'.cut
      BY <1>1, <2>1, RewrittenDecisions
    <3>2. decLog.state = "open"
      BY <2>1 DEF TablesInv
    <3>3. Intact(decLog)' => Intact(decLog) /\ DecRows \subseteq DecRows'
      BY <3>1, <3>2 DEF Intact
    <3> QED BY <3>1, <3>3
  <2>2. CASE h.at # "deciding"
    <3>1. decLog' = decLog /\ decLog.state # "open"
      BY <1>1, <2>2 DEF TablesInv
    <3>2. DecRows' = DecRows /\ DecNumbers' = DecNumbers
      BY <3>1 DEF DecRows, DecNumbers
    <3> QED BY <1>1, <3>1, <3>2
            DEF TypeOK, TablesInv, Placed, LogIdsDistinct, Numbered, TextInv, Bounded, Intact
  <2> QED BY <2>1, <2>2
<1>6. TypeOK'
  BY <1>1, <1>2, <1>3, <1>4, <1>5 DEF TypeOK
<1>7. SavingInv' /\ HoldingInv' /\ DecidingInv'
  BY <1>2 DEF SavingInv, HoldingInv, DecidingInv
<1>8. TablesInv'
  BY <1>1, <1>2, <1>4, <1>5 DEF TablesInv
<1>9. LogIdsDistinct' /\ TextInv'
  BY <1>4, <1>5 DEF LogIdsDistinct, TextInv
<1>10. CitingInv'
  <2>1. Intact(decLog)' => \A x \in OpIds : Cites(ops[x])
    BY <1>5 DEF CitingInv
  <2>2. Intact(decLog)' => \A x \in OpIds : Cites(ops[x])'
    BY <1>1, <1>5, <2>1 DEF Cites
  <2> QED BY <1>2, <2>2 DEF CitingInv
<1>11. CompletedHasEvidence'
  BY <1>1 DEF CompletedHasEvidence, Closed
<1>12. RecordingInv'
  BY <1>3 DEF RecordingInv
<1> QED BY <1>4, <1>6, <1>7, <1>8, <1>9, <1>10, <1>11, <1>12

-----------------------------------------------------------------------------
LEMMA StutterInv == ASSUME Inv, UNCHANGED vars PROVE Inv'
<1> USE DEF Inv, IInv
<1>1. UNCHANGED <<file, ops, opsLog, decLog, jobs, h, crashes>>
  BY DEF vars
<1>2. /\ OpsRows' = OpsRows /\ DecRows' = DecRows
      /\ OpsNumbers' = OpsNumbers /\ DecNumbers' = DecNumbers /\ NextOp' = NextOp
  BY <1>1 DEF OpsRows, DecRows, OpsNumbers, DecNumbers, NextOp
<1>3. TypeOK' /\ TablesInv'
  BY <1>1 DEF TypeOK, TablesInv, Placed
<1>4. SavingInv'
  BY <1>1 DEF SavingInv, Continues
<1>5. HoldingInv' /\ DecidingInv'
  BY <1>1, <1>2 DEF HoldingInv, DecidingInv, Recorded
<1>6. HistoryAgrees' /\ LogIdsDistinct' /\ TextInv'
  BY <1>1, <1>2 DEF HistoryAgrees, LogIdsDistinct, Numbered, TextInv, Bounded
<1>7. CitingInv' /\ CompletedHasEvidence' /\ RecordingInv'
  BY <1>1, <1>2 DEF CitingInv, Cites, Intact, CompletedHasEvidence, RecordingInv,
                    Closed, Recorded
<1> QED BY <1>3, <1>4, <1>5, <1>6, <1>7

LEMMA NextInv == ASSUME Inv, Next PROVE Inv'
<1>1. CASE CreateFromChat
  BY <1>1, CreateFromChatInv
<1>2. CASE Generate
  BY <1>2, GenerateBeginInv, GenerateStartInv, GenerateAbortsInv, ExecutorRaisesInv,
     ExecutorReturnsInv, GenerateFinishInv DEF Generate
<1>3. CASE FinishSave
  BY <1>3, FinishSaveInv
<1>4. CASE LogRaises \/ OpenLog \/ WriteLog
  BY <1>4, LogRaisesInv, OpenLogInv, WriteLogInv
<1>5. CASE WriteDecision \/ SpawnOperation
  BY <1>5, WriteDecisionInv, SpawnOperationInv
<1>6. CASE \E o \in OpIds : Approve(o) \/ Reject(o) \/ Escalate(o)
  BY <1>6, ApproveInv, RejectInv, EscalateInv
<1>7. CASE \E o \in OpIds, c \in Outcomes :
              CompleteOperation(o, c) \/ FailOperation(o, c)
  BY <1>7, CloseInv
<1>8. CASE \E o \in OpIds, s \in Sops : LinkSop(o, s)
  BY <1>8, SopInv
<1>9. CASE \E o \in OpIds, step \in Steps : CompleteStep(o, step)
  BY <1>9, SopInv
<1>10. CASE \E r \in Recs, a \in DOMAIN ActionToStatus, b \in BOOLEAN :
              ActOnRecommendation(r, a, b)
  BY <1>10, ActOnRecommendationInv
<1>11. CASE Crash
  BY <1>11, CrashInv
<1> QED BY <1>1, <1>2, <1>3, <1>4, <1>5, <1>6, <1>7, <1>8, <1>9, <1>10, <1>11 DEF Next

LEMMA InvHolds == Spec => []Inv
<1>1. Init => Inv
  BY InitInv
<1>2. Inv /\ [Next]_vars => Inv'
  BY NextInv, StutterInv
<1> QED BY <1>1, <1>2, PTL DEF Spec
-----------------------------------------------------------------------------
(* What the inductive invariant gives: the safety invariants and action     *)
(* properties of Operations.                                               *)

\* The handlers keep the store, the tables, the jobs and the handler in
\* progress within their types; no status outside the lifecycle is written.
THEOREM TypeCorrect == Spec => []TypeOK
<1>1. Inv => TypeOK
  BY DEF Inv, IInv
<1> QED BY <1>1, InvHolds, PTL

\* Operations.md never contradicts the YAML files: complete_operation and
\* fail_operation write one row at most for an operation, and nothing changes
\* afterwards what the row says.
THEOREM HistoryHolds == Spec => []HistoryAgrees
<1>1. Inv => HistoryAgrees
  BY DEF Inv, IInv
<1> QED BY <1>1, InvHolds, PTL

\* act_on_recommendation: an operation that names a decision names an approved one
\* of the table, for the same recommendation, until a crash cuts the table.
THEOREM CitesHolds == Spec => []CitesApprovedDecision
<1>1. Inv => CitesApprovedDecision
  BY DEF Inv, IInv, CitingInv, Cites, CitesApprovedDecision
<1> QED BY <1>1, InvHolds, PTL

\* generate_bk_operation_id and generate_decision_id: no number that can be read
\* whole is given to two rows of a table, also when rows are added to the part
\* of it that a crash has left, and in a table that no crash has cut ids grow.
THEOREM IdsDistinct == Spec => []LogIdsDistinct
<1>1. Inv => LogIdsDistinct
  BY DEF Inv, IInv
<1> QED BY <1>1, InvHolds, PTL

\* generate and complete_operation: a completed operation has an outcome a
\* person gave or a Job that was saved before it was closed.
THEOREM EvidenceHolds == Spec => []CompletedHasEvidence
<1>1. Inv => CompletedHasEvidence
  BY DEF Inv, IInv
<1> QED BY <1>1, InvHolds, PTL

\* complete_operation and fail_operation, undisturbed by a crash and with a
\* table to write to, leave no closed operation without its row.
THEOREM RecordedHolds == Spec => []RecordedUnlessInterrupted
<1>1. Inv => RecordedUnlessInterrupted
  BY DEF Inv, IInv, RecordingInv, RecordedUnlessInterrupted
<1> QED BY <1>1, InvHolds, PTL

-----------------------------------------------------------------------------
(* What one step does to the records and to the Operation Log *)

LEMMA RecordsChange ==
    ASSUME Next
    PROVE  \/ ops' = ops
           \/ FinishSave
           \/ \E o \in OpIds : Escalate(o)
BY DEF Next, Generate, CreateFromChat, GenerateBegin, GenerateStart, GenerateAborts,
       ExecutorRaises, ExecutorReturns, GenerateFinish, LogRaises, OpenLog, WriteLog,
       WriteDecision, SpawnOperation, Approve, Reject, CompleteOperation,
       FailOperation, Close, LinkSop, CompleteStep, ActOnRecommendation, Crash, Save

LEMMA LogChange ==
    ASSUME Next
    PROVE  \/ opsLog' = opsLog
           \/ OpenLog
           \/ WriteLog
           \/ Crash
BY DEF Next, Generate, CreateFromChat, GenerateBegin, GenerateStart, GenerateAborts,
       ExecutorRaises, ExecutorReturns, GenerateFinish, LogRaises, FinishSave, Escalate,
       WriteDecision, SpawnOperation, Approve, Reject, CompleteOperation,
       FailOperation, Close, LinkSop, CompleteStep, ActOnRecommendation, Save

-----------------------------------------------------------------------------
(* Terminal statuses *)

LEMMA TerminalStep ==
    ASSUME Inv, [Next]_vars, NEW o \in OpIds, ops[o].status \in Terminal
    PROVE  ops'[o].status = ops[o].status /\ ops'[o].outcome = ops[o].outcome
<1> USE DEF Inv, IInv
<1>1. CASE ops' = ops
  BY <1>1
<1>2. CASE FinishSave
  <2>1. /\ h.op \in OpIds /\ Continues(h.op, h.new, h.then)
        /\ ops' = [ops EXCEPT ![h.op] = h.new]
    BY <1>2 DEF FinishSave, SavingInv
  <2>2. CASE o = h.op
    BY <2>1, <2>2 DEF Continues, Ledger!Lifecycle, Terminal, TypeOK
  <2>3. CASE o # h.op
    BY <2>1, <2>3 DEF TypeOK
  <2> QED BY <2>2, <2>3
<1>3. ASSUME NEW x \in OpIds, Escalate(x)
      PROVE  ops'[o].status = ops[o].status /\ ops'[o].outcome = ops[o].outcome
  <2>1. /\ ops[x].status = "executing"
        /\ ops' = [ops EXCEPT ![x].status = "awaiting_escalation"]
    BY <1>3 DEF Escalate, CanMove, ValidTransitions, Statuses
  <2>2. o # x
    BY <2>1 DEF Terminal
  <2> QED BY <2>1, <2>2 DEF TypeOK
<1> QED BY <1>1, <1>2, <1>3, RecordsChange DEF vars

\* No handler changes the status or the outcome of an operation that is
\* completed, failed or rejected (transition_operation, link_sop_to_operation,
\* complete_step all save whole records).
THEOREM TerminalHolds == Spec => TerminalStays
<1>1. Inv /\ [Next]_vars =>
        [\A o \in OpIds : ops[o].status \in Terminal =>
            /\ ops'[o].status = ops[o].status
            /\ ops'[o].outcome = ops[o].outcome]_vars
  BY TerminalStep
<1> QED BY <1>1, InvHolds, PTL DEF Spec, TerminalStays

-----------------------------------------------------------------------------
(* Numbers *)

LEMMA NumberStep ==
    ASSUME Inv, Next, h.at \in {"idle", "spawn"}, h'.at = "saving",
           h'.new.status = "created", h'.new.sop = NoSop
    PROVE  file[h'.op] = "absent"
<1> USE DEF Inv, IInv
<1>1. ASSUME NEW o, NEW r, NEW next, Save(o, r, next)
      PROVE  h'.op = o /\ h'.new = r
  BY <1>1 DEF Save, Idle
<1>2. NextOp \in OpIds => file[NextOp] = "absent"
  BY NextOpIsFree
<1>3. CASE CreateFromChat \/ GenerateBegin
  BY <1>1, <1>2, <1>3 DEF CreateFromChat, GenerateBegin
<1>4. CASE SpawnOperation
  BY <1>1, <1>2, <1>4 DEF SpawnOperation, DecidingInv
<1>5. ASSUME NEW o \in OpIds, Approve(o) \/ Reject(o)
      PROVE  FALSE
  <2>1. PICK s \in {"executing", "rejected"} : h'.new = [ops[o] EXCEPT !.status = s]
    BY <1>1, <1>5 DEF Approve, Reject
  <2>2. ops[o] \in Operation
    BY DEF TypeOK
  <2>3. h'.new.status = s
    BY <2>1, <2>2 DEF Operation
  <2> QED BY <2>3
<1>6. ASSUME NEW o \in OpIds, NEW c \in Outcomes,
             CompleteOperation(o, c) \/ FailOperation(o, c)
      PROVE  FALSE
  <2>1. PICK s \in {"completed", "failed"} :
            h'.new = [ops[o] EXCEPT !.status = s, !.outcome = c]
    BY <1>1, <1>6 DEF CompleteOperation, FailOperation, Close
  <2> QED BY <2>1 DEF TypeOK, Operation
<1>7. ASSUME NEW o \in OpIds, NEW s \in Sops, LinkSop(o, s)
      PROVE  FALSE
  <2>1. h'.new = [ops[o] EXCEPT !.sop = s]
    BY <1>1, <1>7 DEF LinkSop
  <2> QED BY <2>1, OperationsAssumption DEF TypeOK, Operation
<1>8. ASSUME NEW o \in OpIds, NEW step \in Steps, CompleteStep(o, step)
      PROVE  FALSE
  <2>1. h'.new = [ops[o] EXCEPT !.done = @ \cup {step}] /\ ops[o].sop # NoSop
    BY <1>1, <1>8 DEF CompleteStep
  <2> QED BY <2>1 DEF TypeOK, Operation
<1>9. ASSUME NEW o \in OpIds, Escalate(o) PROVE FALSE
  BY <1>9 DEF Escalate, Loads
<1>10. ASSUME NEW r \in Recs, NEW a \in DOMAIN ActionToStatus, NEW b \in BOOLEAN,
              ActOnRecommendation(r, a, b)
       PROVE  FALSE
  BY <1>10 DEF ActOnRecommendation, Idle
<1>11. ~ (GenerateStart \/ GenerateAborts \/ ExecutorRaises \/ ExecutorReturns
            \/ GenerateFinish \/ FinishSave \/ LogRaises \/ OpenLog \/ WriteLog
            \/ WriteDecision)
  BY DEF GenerateStart, GenerateAborts, ExecutorRaises, ExecutorReturns, GenerateFinish,
         FinishSave, LogRaises, OpenLog, WriteLog, WriteDecision
<1>12. ~ Crash
  BY DEF Crash, Idle
<1> QED BY <1>3, <1>4, <1>5, <1>6, <1>7, <1>8, <1>9, <1>10, <1>11, <1>12
        DEF Next, Generate

\* generate_operation_id: an operation is created under a number no file of
\* the directory has, readable or not.
THEOREM NumbersHold == Spec => NumbersNotReused
<1>1. Inv /\ [Next]_vars =>
        [/\ h.at \in {"idle", "spawn"} /\ h'.at = "saving"
         /\ h'.new.status = "created" /\ h'.new.sop = NoSop
         => file[h'.op] = "absent"]_vars
  BY NumberStep
<1> QED BY <1>1, InvHolds, PTL DEF Spec, NumbersNotReused
-----------------------------------------------------------------------------
(* SOP steps *)

\* Marking step for o is in order: it is in the SOP linked now, and every
\* step before it is complete.
InOrder(o, step) ==
    LET steps == StepsOf[ops[o].sop] IN
    \E i \in DOMAIN steps :
        /\ steps[i] = step
        /\ \A j \in 1 .. i - 1 : steps[j] \in ops[o].done

\* The record being saved marks no step out of order.
MarksInOrder ==
    h.at = "saving" => \A step \in h.new.done \ ops[h.op].done : InOrder(h.op, step)

\* The step complete_step accepts is the first that is not complete.
LEMMA ActionableInOrder ==
    ASSUME NEW o, NEW step, ops[o].sop \in Sops, step \notin ops[o].done,
           Actionable(StepsOf[ops[o].sop], ops[o].done, step)
    PROVE  InOrder(o, step)
<1> DEFINE steps == StepsOf[ops[o].sop]
<1>1. steps \in Seq(StepsIn(steps))
  BY OperationsAssumption
<1>2. PICK i \in DOMAIN steps :
            steps[i] = step /\ \A j \in Pending(steps, ops[o].done) : i <= j
  BY DEF Actionable, IsCurrent, Pending
<1>3. ASSUME NEW j \in 1 .. i - 1 PROVE steps[j] \in ops[o].done
  <2>1. j \in DOMAIN steps /\ j < i /\ i \in Int /\ j \in Int
    BY <1>1
  <2>2. j \notin Pending(steps, ops[o].done)
    BY <1>2, <2>1
  <2> QED BY <2>1, <2>2 DEF Pending
<1> QED BY <1>2, <1>3 DEF InOrder

\* A save that marks no step, or one in order, is in order.
LEMMA SaveInOrder ==
    ASSUME NEW o \in OpIds, NEW r, NEW next, Save(o, r, next),
           \A step \in r.done \ ops[o].done : InOrder(o, step)
    PROVE  MarksInOrder'
<1>1. h'.op = o /\ h'.new = r /\ ops' = ops
  BY DEF Save, Idle
<1>2. \A step : InOrder(o, step)' <=> InOrder(o, step)
  BY <1>1 DEF InOrder
<1>3. \A step \in r.done \ ops[o].done : InOrder(o, step)'
  BY <1>2
<1> QED BY <1>1, <1>3 DEF MarksInOrder, InOrder

LEMMA MarksStep == ASSUME Inv, MarksInOrder, [Next]_vars PROVE MarksInOrder'
<1> USE DEF Inv, IInv
<1>1. CASE UNCHANGED vars
  BY <1>1 DEF vars, MarksInOrder, InOrder
<1>2. CASE h'.at # "saving"
  BY <1>2 DEF MarksInOrder
<1>3. ASSUME NEW o \in OpIds, NEW r \in {NewOperation}, NEW next, Save(o, r, next)
      PROVE  MarksInOrder'
  BY <1>3, SaveInOrder DEF NewOperation
<1>4. ASSUME NEW o \in OpIds, NEW r, NEW next, Save(o, r, next), r.done = ops[o].done
      PROVE  MarksInOrder'
  BY <1>4, SaveInOrder
<1>5. CASE CreateFromChat \/ GenerateBegin
  BY <1>3, <1>5 DEF CreateFromChat, GenerateBegin
<1>6. CASE SpawnOperation
  <2>1. NextOp \in OpIds
    BY <1>6 DEF SpawnOperation, DecidingInv
  <2> DEFINE r == [NewOperation EXCEPT !.dec = h.row.id, !.rec = h.row.rec]
  <2>2. r.done = {}
    BY DEF NewOperation
  <2>3. Save(NextOp, r, "idle")
    BY <1>6 DEF SpawnOperation
  <2> HIDE DEF r
  <2> QED BY <2>1, <2>2, <2>3, SaveInOrder
<1>7. CASE GenerateStart \/ ExecutorRaises \/ GenerateFinish
  <2>1. h.op \in OpIds /\ h.new = ops[h.op]
    BY <1>7 DEF GenerateStart, ExecutorRaises, GenerateFinish, HoldingInv
  <2>2. PICK s, next : Save(h.op, [h.new EXCEPT !.status = s], next)
    BY <1>7 DEF GenerateStart, ExecutorRaises, GenerateFinish
  <2>3. ops[h.op] \in Operation
    BY <2>1 DEF TypeOK
  <2>4. [h.new EXCEPT !.status = s].done = ops[h.op].done
    BY <2>1, <2>3 DEF Operation
  <2> QED BY <1>4, <2>1, <2>2, <2>4
<1>8. ASSUME NEW o \in OpIds, Approve(o) \/ Reject(o)
      PROVE  MarksInOrder'
  <2>1. PICK s : Save(o, [ops[o] EXCEPT !.status = s], "idle")
    BY <1>8 DEF Approve, Reject
  <2>2. [ops[o] EXCEPT !.status = s].done = ops[o].done
    BY DEF TypeOK, Operation
  <2> QED BY <1>4, <2>1, <2>2
<1>9. ASSUME NEW o \in OpIds, NEW c \in Outcomes,
             CompleteOperation(o, c) \/ FailOperation(o, c)
      PROVE  MarksInOrder'
  <2>1. PICK s : Save(o, [ops[o] EXCEPT !.status = s, !.outcome = c], "log")
    BY <1>9 DEF CompleteOperation, FailOperation, Close
  <2>2. [ops[o] EXCEPT !.status = s, !.outcome = c].done = ops[o].done
    BY DEF TypeOK, Operation
  <2> QED BY <1>4, <2>1, <2>2
<1>10. ASSUME NEW o \in OpIds, NEW s \in Sops, LinkSop(o, s)
       PROVE  MarksInOrder'
  <2>1. Save(o, [ops[o] EXCEPT !.sop = s], "idle")
    BY <1>10 DEF LinkSop
  <2>2. [ops[o] EXCEPT !.sop = s].done = ops[o].done
    BY DEF TypeOK, Operation
  <2> QED BY <1>4, <2>1, <2>2
<1>11. ASSUME NEW o \in OpIds, NEW step \in Steps, CompleteStep(o, step)
       PROVE  MarksInOrder'
  <2> DEFINE r == [ops[o] EXCEPT !.done = @ \cup {step}]
  <2>1. ops[o] \in Operation
    BY DEF TypeOK
  <2>2. /\ Save(o, r, "idle")
        /\ ops[o].sop \in Sops
        /\ Actionable(StepsOf[ops[o].sop], ops[o].done, step)
    BY <1>11, <2>1 DEF CompleteStep, Operation
  <2>3. r.done = ops[o].done \cup {step}
    BY <2>1 DEF Operation
  <2>4. step \notin ops[o].done => InOrder(o, step)
    BY <2>2, ActionableInOrder
  <2> HIDE DEF r
  <2> QED BY <2>2, <2>3, <2>4, SaveInOrder
<1>12. CASE GenerateAborts \/ ExecutorReturns \/ LogRaises \/ OpenLog \/ WriteLog
               \/ WriteDecision \/ Crash \/ FinishSave
  <2>1. h'.at # "saving"
    <3>1. h \in Handler
      BY DEF TypeOK
    <3>2. CASE FinishSave
      <4>1. h.then \in {"idle", "start", "work", "log"}
        BY <3>2 DEF FinishSave, SavingInv, Continues
      <4> QED BY <3>1, <3>2, <4>1 DEF FinishSave, Idle, Handler
    <3>3. CASE WriteDecision
      <4>1. h.then \in {"idle", "spawn"}
        BY <3>3 DEF WriteDecision, DecidingInv
      <4> QED BY <3>1, <3>3, <4>1 DEF WriteDecision, Idle, Handler
    <3>4. CASE GenerateAborts \/ LogRaises \/ WriteLog \/ Crash
      BY <3>4 DEF GenerateAborts, LogRaises, WriteLog, Crash, Idle
    <3>5. CASE ExecutorReturns \/ OpenLog
      BY <3>1, <3>5 DEF ExecutorReturns, OpenLog, Handler
    <3> QED BY <1>12, <3>2, <3>3, <3>4, <3>5
  <2> QED BY <1>2, <2>1
<1>13. ASSUME NEW o \in OpIds, Escalate(o) PROVE MarksInOrder'
  BY <1>2, <1>13 DEF Escalate, Loads
<1>14. ASSUME NEW r \in Recs, NEW a \in DOMAIN ActionToStatus, NEW b \in BOOLEAN,
              ActOnRecommendation(r, a, b)
       PROVE  MarksInOrder'
  BY <1>2, <1>14 DEF ActOnRecommendation, Idle
<1> QED BY <1>1, <1>5, <1>6, <1>7, <1>8, <1>9, <1>10, <1>11, <1>12, <1>13, <1>14
        DEF Next, Generate

LEMMA OrderStep ==
    ASSUME Inv, MarksInOrder, [Next]_vars, NEW o \in OpIds,
           NEW step \in ops'[o].done \ ops[o].done
    PROVE  InOrder(o, step)
<1> USE DEF Inv, IInv
<1>1. CASE ops' = ops
  BY <1>1
<1>2. CASE FinishSave
  <2>1. h.at = "saving" /\ h.op \in OpIds /\ ops' = [ops EXCEPT ![h.op] = h.new]
    BY <1>2 DEF FinishSave, SavingInv
  <2>2. o = h.op /\ ops'[o] = h.new
    BY <2>1 DEF TypeOK
  <2> QED BY <2>1, <2>2 DEF MarksInOrder
<1>3. ASSUME NEW x \in OpIds, Escalate(x) PROVE FALSE
  <2>1. ops' = [ops EXCEPT ![x].status = "awaiting_escalation"]
    BY <1>3 DEF Escalate
  <2>2. ops'[o].done = ops[o].done
    BY <2>1 DEF TypeOK, Operation
  <2> QED BY <2>2
<1> QED BY <1>1, <1>2, <1>3, RecordsChange DEF vars

\* complete_operation_step: a step is marked only after those before it in
\* the SOP the operation is linked to, whatever other handlers saved between.
THEOREM StepsHold == Spec => StepsInOrder
<1>1. Init => MarksInOrder
  BY DEF Init, Idle, MarksInOrder
<1>2. Inv /\ MarksInOrder /\ [Next]_vars => MarksInOrder'
  BY MarksStep
<1>3. Inv /\ MarksInOrder /\ [Next]_vars =>
        [\A o \in OpIds : \A step \in ops'[o].done \ ops[o].done :
            LET steps == StepsOf[ops[o].sop] IN
            \E i \in DOMAIN steps :
                /\ steps[i] = step
                /\ \A j \in 1 .. i - 1 : steps[j] \in ops[o].done]_vars
  BY OrderStep DEF InOrder
<1> QED BY <1>1, <1>2, <1>3, InvHolds, PTL DEF Spec, StepsInOrder
-----------------------------------------------------------------------------
(* Operations implements OperationLedger: each handler's two-step save maps *)
(* to one move of the ledger or to none, each row of Operations.md to one   *)
(* entry.                                                                   *)

StatusMap == [o \in OpIds |-> ops[o].status]
EntryMap  == [o \in OpIds |-> EntryOf(o)]

\* The entry of an operation that has a whole row shows the status of the file.
LEMMA EntryIs ==
    ASSUME HistoryAgrees, NEW o
    PROVE  EntryOf(o) = IF Whole(o) = {} THEN "none" ELSE ops[o].status
<1>1. \A q \in Whole(o) : q.status = ops[o].status
  BY DEF HistoryAgrees, Whole
<1>2. Whole(o) # {} => (CHOOSE r \in Whole(o) : TRUE) \in Whole(o)
  OBVIOUS
<1> QED BY <1>1, <1>2 DEF EntryOf

LEMMA EntryUnchanged == ASSUME opsLog'.rows = opsLog.rows PROVE EntryMap' = EntryMap
<1>1. OpsRows' = OpsRows
  BY DEF OpsRows
<1>2. \A o : EntryOf(o)' = EntryOf(o)
  BY <1>1 DEF EntryOf, Whole
<1> QED BY <1>2 DEF EntryMap

LEMMA InitMaps == Init => Ledger!Init
<1> SUFFICES ASSUME Init PROVE Ledger!Init
  OBVIOUS
<1>1. opsLog.rows = <<>>
  BY DEF Init, NewTable
<1>2. OpsRows = {}
  BY <1>1 DEF OpsRows
<1>3. \A o \in OpIds : EntryOf(o) = "none" /\ ops[o].status = "none"
  BY <1>2 DEF Init, EntryOf, Whole, NoOperation, NewOperation
<1> QED BY <1>3 DEF Ledger!Init

\* A step that writes no row moves one operation along the lifecycle, or none.
LEMMA StatusMaps ==
    ASSUME Inv, Next, opsLog'.rows = opsLog.rows
    PROVE  StatusMap' = StatusMap \/ \E o \in OpIds : Ledger!Move(o)
<1> USE DEF Inv, IInv
<1>1. EntryMap' = EntryMap
  BY EntryUnchanged
<1>2. CASE ops' = ops
  BY <1>2 DEF StatusMap
<1>3. ASSUME NEW o \in OpIds, NEW s \in Statuses,
             <<ops[o].status, s>> \in Ledger!Lifecycle,
             ops' = [ops EXCEPT ![o] = ops'[o]], ops'[o].status = s
      PROVE  Ledger!Move(o)
  <2>1. StatusMap' = [StatusMap EXCEPT ![o] = s]
    BY <1>3 DEF StatusMap, TypeOK
  <2>2. StatusMap[o] = ops[o].status
    BY DEF StatusMap
  <2> QED BY <1>1, <1>3, <2>1, <2>2 DEF Ledger!Move, StatusMap, EntryMap, Statuses
<1>4. CASE FinishSave
  <2>1. /\ h.op \in OpIds /\ Continues(h.op, h.new, h.then) /\ h.new \in Operation
        /\ ops' = [ops EXCEPT ![h.op] = h.new] /\ ops'[h.op] = h.new
    BY <1>4 DEF FinishSave, SavingInv, TypeOK, Handler
  <2>2. h.new.status \in Statuses
    BY <2>1 DEF Continues, Operation
  <2>3. CASE ops[h.op].status = h.new.status
    BY <2>1, <2>3 DEF StatusMap, TypeOK
  <2>4. CASE <<ops[h.op].status, h.new.status>> \in Ledger!Lifecycle
    BY <1>3, <2>1, <2>2, <2>4
  <2> QED BY <2>1, <2>3, <2>4 DEF Continues
<1>5. ASSUME NEW o \in OpIds, Escalate(o)
      PROVE  Ledger!Move(o)
  <2>1. /\ ops[o].status = "executing"
        /\ ops' = [ops EXCEPT ![o].status = "awaiting_escalation"]
    BY <1>5 DEF Escalate, CanMove, ValidTransitions, Statuses
  <2>2. ops[o] \in Operation /\ ops \in [OpIds -> Operation]
    BY DEF TypeOK
  <2>3. ops'[o].status = "awaiting_escalation" /\ ops' = [ops EXCEPT ![o] = ops'[o]]
    BY <2>1, <2>2 DEF Operation
  <2> QED BY <1>3, <2>1, <2>3 DEF Ledger!Lifecycle, Statuses
<1> QED BY <1>2, <1>4, <1>5, RecordsChange

\* What the handler that writes the log has found: the operation is closed, it
\* has no entry, and no other operation gets one.
LEMMA LogRewriteMaps ==
    ASSUME Inv, h.at = "logging", opsLog' \in AfterCrash(opsLog, NewOpsRow),
           UNCHANGED <<file, ops, jobs>>
    PROVE  /\ h.op \in OpIds /\ ops[h.op].status \in {"completed", "failed"}
           /\ EntryOf(h.op) = "none"
           /\ \A x \in OpIds : EntryOf(x)' = IF Whole(x)' = {} THEN "none" ELSE ops[x].status
           /\ \A x \in OpIds : x # h.op /\ Whole(x)' # {} => EntryOf(x) = ops[x].status
<1> USE DEF Inv, IInv
<1>1. /\ h.op \in OpIds /\ ops[h.op].status \in {"completed", "failed"} /\ ~ Recorded(h.op)
  BY DEF HoldingInv
<1>2. HistoryAgrees' /\ \A r \in OpsRows' : r.status # "cut" => r \in OpsRows \cup {NewOpsRow}
  BY RewrittenLog
<1>3. \A x : EntryOf(x) = IF Whole(x) = {} THEN "none" ELSE ops[x].status
  BY EntryIs
<1>4. \A x : EntryOf(x)' = IF Whole(x)' = {} THEN "none" ELSE ops'[x].status
  <2> TAKE x
  <2>1. \A q \in Whole(x)' : q.status = ops'[x].status
    BY <1>2 DEF HistoryAgrees, Whole
  <2>2. Whole(x)' # {} => (CHOOSE r \in Whole(x)' : TRUE) \in Whole(x)'
    OBVIOUS
  <2> QED BY <2>1, <2>2 DEF EntryOf
<1>5. Whole(h.op) = {}
  BY <1>1 DEF Whole, Recorded
<1>6. ASSUME NEW x \in OpIds, x # h.op, Whole(x)' # {} PROVE Whole(x) # {}
  <2>1. PICK r \in OpsRows' : r.op = x /\ r.status # "cut"
    BY <1>6 DEF Whole
  <2>2. r \in OpsRows
    BY <1>2, <1>6, <2>1 DEF NewOpsRow
  <2> QED BY <2>1, <2>2 DEF Whole
<1> QED BY <1>1, <1>3, <1>4, <1>5, <1>6

\* The row complete_operation or fail_operation appends is the first of its
\* operation and shows the status already saved.
LEMMA WriteMaps == ASSUME Inv, WriteLog PROVE \E o \in OpIds : Ledger!Record(o)
<1>1. /\ h.at = "logging" /\ opsLog' = Written(opsLog, NewOpsRow)
      /\ opsLog' \in AfterCrash(opsLog, NewOpsRow) /\ UNCHANGED <<file, ops, jobs>>
  BY DEF WriteLog, AfterCrash
<1>2. OpsRows' = OpsRows \cup {NewOpsRow}
  BY <1>1, RewrittenLog
<1>3. /\ h.op \in OpIds /\ ops[h.op].status \in {"completed", "failed"}
      /\ EntryOf(h.op) = "none"
      /\ \A x \in OpIds : EntryOf(x)' = IF Whole(x)' = {} THEN "none" ELSE ops[x].status
      /\ \A x \in OpIds : x # h.op /\ Whole(x)' # {} => EntryOf(x) = ops[x].status
  BY <1>1, LogRewriteMaps
<1>4. PICK o \in OpIds : o = h.op
  BY <1>3
<1>5. Whole(o)' # {}
  <2>1. NewOpsRow.op = o /\ NewOpsRow.status \in {"completed", "failed"}
    BY <1>1, <1>4 DEF Inv, IInv, HoldingInv, NewOpsRow
  <2>2. NewOpsRow \in Whole(o)'
    BY <1>2, <2>1 DEF Whole
  <2> QED BY <2>2
<1>6. ASSUME NEW x \in OpIds, Whole(x)' = {} PROVE EntryOf(x) = "none"
  <2>1. Whole(x) \subseteq Whole(x)'
    BY <1>2 DEF Whole
  <2> QED BY <1>6, <2>1 DEF EntryOf
<1>7. \A x \in OpIds : EntryOf(x)' = IF x = o THEN ops[x].status ELSE EntryOf(x)
  BY <1>3, <1>4, <1>5, <1>6
<1>8. EntryMap' = [EntryMap EXCEPT ![o] = ops[o].status]
  BY <1>3, <1>7 DEF EntryMap
<1>9. StatusMap' = StatusMap /\ StatusMap[o] = ops[o].status /\ EntryMap[o] = "none"
  BY <1>1, <1>3, <1>4 DEF StatusMap, EntryMap
<1>10. Ledger!Record(o)
  BY <1>3, <1>4, <1>8, <1>9 DEF Ledger!Record, StatusMap, EntryMap
<1> QED BY <1>10

\* A crash while the log is rewritten leaves the entries of the rows that are whole.
LEMMA CrashMaps ==
    ASSUME Inv, Crash, h.at = "logging"
    PROVE  \E o \in OpIds : Ledger!Interrupted(o)
<1>1. opsLog' \in AfterCrash(opsLog, NewOpsRow) /\ UNCHANGED <<file, ops, jobs>>
  BY DEF Crash
<1>2. /\ h.op \in OpIds /\ ops[h.op].status \in {"completed", "failed"}
      /\ EntryOf(h.op) = "none"
      /\ \A x \in OpIds : EntryOf(x)' = IF Whole(x)' = {} THEN "none" ELSE ops[x].status
      /\ \A x \in OpIds : x # h.op /\ Whole(x)' # {} => EntryOf(x) = ops[x].status
  BY <1>1, LogRewriteMaps
<1> DEFINE kept == {x \in OpIds : Whole(x)' # {}}
<1>3. \A x \in OpIds : EntryOf(x)' = IF x \notin kept THEN "none"
                                    ELSE IF x = h.op THEN ops[x].status ELSE EntryOf(x)
  BY <1>2
<1>4. kept \in SUBSET OpIds
  OBVIOUS
<1> HIDE DEF kept
<1>5. EntryMap' = [x \in OpIds |-> IF x \notin kept THEN "none"
                                  ELSE IF x = h.op THEN StatusMap[h.op] ELSE EntryMap[x]]
  BY <1>2, <1>3 DEF EntryMap, StatusMap
<1>6. StatusMap' = StatusMap /\ StatusMap[h.op] = ops[h.op].status /\ EntryMap[h.op] = "none"
  BY <1>1, <1>2 DEF StatusMap, EntryMap
<1>7. Ledger!Interrupted(h.op)
  BY <1>2, <1>4, <1>5, <1>6 DEF Ledger!Interrupted, StatusMap, EntryMap
<1> QED BY <1>2, <1>7

LEMMA StepMaps ==
    ASSUME Inv, Inv', [Next]_vars
    PROVE  [Ledger!Next]_<<StatusMap, EntryMap>>
<1>1. CASE UNCHANGED vars
  <2>1. ops' = ops /\ opsLog' = opsLog
    BY <1>1 DEF vars
  <2> QED BY <2>1, EntryUnchanged DEF StatusMap
<1>2. CASE Next /\ opsLog'.rows = opsLog.rows
  BY <1>2, StatusMaps, EntryUnchanged DEF Ledger!Next
<1>3. CASE WriteLog
  BY <1>3, WriteMaps DEF Ledger!Next
<1>4. CASE Crash /\ h.at = "logging"
  BY <1>4, CrashMaps DEF Ledger!Next
<1>6. CASE Crash /\ h.at # "logging"
  BY <1>2, <1>6 DEF Crash, Next
<1>5. CASE OpenLog
  <2>1. opsLog'.rows = opsLog.rows
    BY <1>5 DEF OpenLog, Inv, IInv, TypeOK, Table
  <2>2. ops' = ops
    BY <1>5 DEF OpenLog
  <2> QED BY <2>1, <2>2, EntryUnchanged DEF StatusMap
<1> QED BY <1>1, <1>2, <1>3, <1>4, <1>5, <1>6, LogChange

\* HermesService with its files keeps the promise of the ledger: one opening,
\* one lifecycle, no way back from a terminal status, at most one true entry.
THEOREM Refinement == Spec => ImplementsLedger
<1>1. Init => Ledger!Init
  BY InitMaps
<1>2. Inv /\ Inv' /\ [Next]_vars => [Ledger!Next]_<<StatusMap, EntryMap>>
  BY StepMaps
<1>3. Inv /\ Inv' /\ [Next]_vars =>
        [Ledger!Next]_<<[o \in OpIds |-> ops[o].status], [o \in OpIds |-> EntryOf(o)]>>
  BY <1>2 DEF StatusMap, EntryMap
<1> QED BY <1>1, <1>3, InvHolds, PTL DEF Spec, ImplementsLedger, Ledger!Spec
=============================================================================
