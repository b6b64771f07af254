-------------------------- MODULE FounderJobsProof --------------------------
(***************************************************************************)
(* Type correctness of FounderJobs, the distinctness of the numbers of     *)
(* founder jobs and the refinement of JobBoard, for any number of streams, *)
(* CLI runs and decisions.                                                 *)
(*                                                                         *)
(* About the CEO review, for any tables, edits and crashes: the founder's  *)
(* decisions are read back where the writer and the loader find the same   *)
(* end of the table, which stays so when a row is put before it, and never *)
(* where they do not; and they are about what the brief showed, since the  *)
(* id of a recommendation means the same subject as long as no KPI row     *)
(* goes or breaks.                                                         *)
(***************************************************************************)
EXTENDS FounderJobs, Review, IdSequenceProof, FiniteSetTheorems, SequenceTheorems

\* A founder job that is past taking its number has a file by that number,
\* readable or not.
FilesKeptInv ==
    \A r \in Streams : w[r].id # 0 /\ w[r].at # "picked"
                          => disk[w[r].id].text # "absent"

\* One founder job at most is between taking a number and opening the file.
OnePickInv ==
    \A r, q \in Streams : w[r].at = "picked" /\ w[q].at = "picked" => r = q

\* Who is at work has a number.
HeldInv ==
    \A p \in Writers : w[p].id = 0 => w[p].at \in {"new", "idle", "gone"}

JobsInv == TypeOK /\ FilesKeptInv /\ OnePickInv /\ HeldInv /\ StreamIdsDistinct

\* The records the runs and the desk write are jobs.
LEMMA FreshType == \A s \in {"running"} \cup Finished : Fresh(s) \in Job
BY DEF Fresh, Job, Finished

\* The number generate_job_id returns is that of no file.
LEMMA NextJobIsFree ==
    ASSUME TypeOK, NextJob \in Ids
    PROVE  disk[NextJob].text = "absent"
<1> DEFINE S == {i \in Ids : disk[i].text # "absent"}
<1>1. S \subseteq Nat /\ \A n \in S : n <= MaxJobs
  BY FounderJobsAssumption DEF Ids
<1>2. Bounded(S)
  BY <1>1, FounderJobsAssumption DEF Bounded
<1>3. NextFileId(S) \notin S
  BY <1>1, <1>2, NextFileIdIsNew
<1> QED BY <1>3 DEF NextJob

LEMMA JobsInit == Init => JobsInv
<1> SUFFICES ASSUME Init PROVE JobsInv
  OBVIOUS
<1>1. NoJob \in Job
  BY DEF NoJob, Job
<1>2. \A p \in Writers : w[p] = [at |-> IF p = Desk THEN "idle" ELSE "new",
                                 id |-> 0, job |-> NoJob, shared |-> FALSE]
  BY DEF Init
<1>3. TypeOK
  BY <1>1 DEF Init, TypeOK, Writer, Points
<1>4. \A r \in Streams : w[r].id = 0 /\ w[r].at # "picked"
  <2>1. ASSUME NEW r \in Streams PROVE w[r].id = 0 /\ w[r].at # "picked"
    <3>1. r \in Writers
      BY DEF Writers, Runs
    <3>2. w[r] = [at |-> IF r = Desk THEN "idle" ELSE "new",
                  id |-> 0, job |-> NoJob, shared |-> FALSE]
      BY <1>2, <3>1
    <3> QED BY <3>2
  <2> QED BY <2>1
<1>5. HeldInv
  <2>1. ASSUME NEW p \in Writers PROVE w[p].at \in {"new", "idle"}
    <3>1. w[p] = [at |-> IF p = Desk THEN "idle" ELSE "new",
                  id |-> 0, job |-> NoJob, shared |-> FALSE]
      BY <1>2
    <3>2. CASE p = Desk
      BY <3>1, <3>2
    <3>3. CASE p # Desk
      BY <3>1, <3>3
    <3> QED BY <3>2, <3>3
  <2> QED BY <2>1 DEF HeldInv
<1> QED BY <1>3, <1>4, <1>5 DEF JobsInv, FilesKeptInv, OnePickInv, StreamIdsDistinct

\* Every action but Submit: the numbers the runs hold are kept or given up,
\* none is being taken that was not before, and no file disappears.
LEMMA NumbersKept ==
    ASSUME JobsInv, TypeOK', HeldInv',
           \A r \in Streams : w'[r].id \in {w[r].id, 0},
           \A r \in Streams : w'[r].at = "picked" => w[r].at = "picked",
           \A r \in Streams : w[r].at = "picked" /\ w'[r].at # "picked" /\ w'[r].id # 0
                => disk'[w'[r].id].text # "absent",
           \A i \in Ids : disk[i].text # "absent" => disk'[i].text # "absent"
    PROVE  JobsInv'
<1> USE DEF JobsInv
<1>1. FilesKeptInv'
  <2>1. ASSUME NEW r \in Streams, w'[r].id # 0, w'[r].at # "picked"
        PROVE  disk'[w'[r].id].text # "absent"
    <3>1. w'[r].id = w[r].id /\ w[r] \in Writer
      BY <2>1 DEF TypeOK, Writers, Runs
    <3>2. CASE w[r].at = "picked"
      BY <2>1, <3>2
    <3>3. CASE w[r].at # "picked"
      <4>1. w[r].id \in Ids /\ disk[w[r].id].text # "absent"
        BY <2>1, <3>1, <3>3 DEF FilesKeptInv, Writer
      <4> QED BY <3>1, <4>1
    <3> QED BY <3>2, <3>3
  <2> QED BY <2>1 DEF FilesKeptInv
<1>2. OnePickInv'
  BY DEF OnePickInv
<1>3. StreamIdsDistinct'
  BY DEF StreamIdsDistinct
<1> QED BY <1>1, <1>2, <1>3

LEMMA SubmitKeeps == ASSUME JobsInv, NEW r \in Runs, Submit(r) PROVE JobsInv'
<1> USE DEF JobsInv
<1>1. /\ w' = [w EXCEPT ![r].at = "picked", ![r].id = NextJob]
      /\ NextJob \in Ids /\ UNCHANGED <<disk, pages>>
      /\ r \in Streams => LoopIsFree
  BY DEF Submit
<1>2. /\ w[r] \in Writer
      /\ w'[r].at = "picked" /\ w'[r].id = NextJob
      /\ \A q \in Writers : q # r => w'[q] = w[q]
      /\ r \in Writers
  BY <1>1 DEF TypeOK, Writers, Writer
<1>3. TypeOK'
  BY <1>1, <1>2 DEF TypeOK, Writer, Points
<1>4. \A q \in Streams : q \in Writers
  BY DEF Writers, Runs
<1>5. FilesKeptInv'
  BY <1>1, <1>2, <1>4 DEF FilesKeptInv
<1>6. OnePickInv'
  BY <1>1, <1>2, <1>4 DEF OnePickInv, LoopIsFree
<1>8. HeldInv'
  <2>1. w'[r].id # 0
    BY <1>1, <1>2, FounderJobsAssumption DEF Ids
  <2> QED BY <1>2, <2>1 DEF HeldInv
<1>7. StreamIdsDistinct'
  <2>1. ASSUME NEW q \in Streams, q # r, r \in Streams
        PROVE  w[q].id # NextJob
    <3>1. w[q].at # "picked" /\ w[q] \in Writer
      BY <1>1, <1>4, <2>1 DEF LoopIsFree, TypeOK
    <3>2. w[q].id = 0 \/ disk[w[q].id].text # "absent"
      BY <3>1 DEF FilesKeptInv
    <3>3. disk[NextJob].text = "absent"
      BY <1>1, NextJobIsFree
    <3>4. NextJob # 0
      BY <1>1, FounderJobsAssumption DEF Ids
    <3> QED BY <3>2, <3>3, <3>4
  <2> QED BY <1>2, <1>4, <2>1 DEF StreamIdsDistinct
<1> QED BY <1>3, <1>5, <1>6, <1>7, <1>8

\* Opening and writing a file keep the numbers.
LEMMA OpenKeeps ==
    ASSUME JobsInv, NEW p \in Writers, NEW i \in Ids, NEW job \in Job,
           NEW at \in Points \ {"picked"}, Open(p, i, job, at), w[p].id = i
    PROVE  JobsInv'
<1> USE DEF JobsInv
<1> DEFINE others == {q \in Writers \ {p} : Writing(q, i)}
<1>1. /\ disk' = [disk EXCEPT ![i].text = "torn"]
      /\ w' = [q \in Writers |->
                CASE q = p         -> [at |-> at, id |-> i, job |-> job,
                                       shared |-> others # {}]
                  [] q \in others  -> [w[q] EXCEPT !.shared = TRUE]
                  [] OTHER         -> w[q]]
      /\ UNCHANGED pages
  BY DEF Open
<1>0. p \notin others
  OBVIOUS
<1> HIDE DEF others
<1>2. \A q \in Writers : w[q] \in Writer
  BY DEF TypeOK
<1>3. w'[p] = [at |-> at, id |-> i, job |-> job, shared |-> others # {}]
  BY <1>0, <1>1
<1>4. ASSUME NEW q \in Writers, q # p
      PROVE  /\ w'[q] \in Writer /\ w'[q].id = w[q].id
             /\ w'[q].at = w[q].at
  <2>1. w'[q] = w[q] \/ w'[q] = [w[q] EXCEPT !.shared = TRUE]
    BY <1>1, <1>4
  <2> QED BY <1>2, <2>1 DEF Writer
<1>5. w'[p] \in Writer
  BY <1>3 DEF Writer
<1>6. /\ disk' \in [Ids -> [text : {"absent", "torn", "cut", "saved"}, job : Job]]
      /\ disk'[i].text = "torn"
      /\ \A j \in Ids : disk[j].text # "absent" => disk'[j].text # "absent"
  BY <1>1 DEF TypeOK
<1>7. TypeOK'
  BY <1>1, <1>4, <1>5, <1>6 DEF TypeOK
<1>8. \A q \in Streams : q \in Writers
  BY DEF Writers, Runs
<1>9. w'[p].at # "picked" /\ w'[p].id = i
  BY <1>3
<1>10. HeldInv'
  BY <1>4, <1>9, FounderJobsAssumption DEF HeldInv, Ids
<1>11. ASSUME NEW q \in Streams
       PROVE  /\ w'[q].id \in {w[q].id, 0}
              /\ w'[q].at = "picked" => w[q].at = "picked"
              /\ w[q].at = "picked" /\ w'[q].at # "picked" => disk'[w'[q].id].text # "absent"
  <2>1. CASE q = p
    BY <1>6, <1>9, <2>1
  <2>2. CASE q # p
    BY <1>4, <1>8, <2>2
  <2> QED BY <2>1, <2>2
<1>12. JobsInv
  OBVIOUS
<1> HIDE DEF JobsInv
<1> QED BY ONLY <1>6, <1>7, <1>10, <1>11, <1>12, NumbersKept

LEMMA DumpKeeps ==
    ASSUME JobsInv, NEW p \in Writers, NEW next \in Points \ {"picked"},
           w[p].id \in Ids, w[p].at # "picked", Dump(p, next)
    PROVE  JobsInv'
<1> USE DEF JobsInv
<1>1. /\ w' = [w EXCEPT ![p].at = next, ![p].shared = FALSE]
      /\ UNCHANGED pages
      /\ disk' \in {disk, [disk EXCEPT ![w[p].id] = [text |-> "saved", job |-> w[p].job]]}
  BY DEF Dump
<1>2. \A q \in Writers : w[q] \in Writer
  BY DEF TypeOK
<1>3. /\ w' \in [Writers -> Writer]
      /\ w'[p].at = next /\ w'[p].id = w[p].id
      /\ \A q \in Writers : q # p => w'[q] = w[q]
  <2>1. PICK f : f = [w[p] EXCEPT !.at = next, !.shared = FALSE]
    OBVIOUS
  <2>2. f \in Writer /\ f.at = next /\ f.id = w[p].id
    BY <1>2, <2>1 DEF Writer
  <2>3. w \in [Writers -> Writer] /\ w' = [w EXCEPT ![p] = f]
    BY <1>1, <2>1 DEF TypeOK
  <2> QED BY ONLY <2>2, <2>3, p \in Writers
<1>4. /\ disk' \in [Ids -> [text : {"absent", "torn", "cut", "saved"}, job : Job]]
      /\ \A j \in Ids : disk[j].text # "absent" => disk'[j].text # "absent"
  <2>1. w[p].job \in Job
    BY <1>2 DEF Writer
  <2> QED BY <1>1, <2>1 DEF TypeOK
<1>5. TypeOK'
  BY <1>1, <1>3, <1>4 DEF TypeOK
<1>6. \A q \in Streams : q \in Writers
  BY DEF Writers, Runs
<1>7. HeldInv'
  BY <1>3, FounderJobsAssumption DEF HeldInv, Ids
<1> QED BY <1>3, <1>4, <1>5, <1>6, <1>7, NumbersKept

\* Steps that write no record and take no number.
LEMMA GoKeeps ==
    ASSUME JobsInv, disk' = disk \/ CutDecision, pages' \subseteq Ids,
           w' \in [Writers -> Writer],
           \A q \in Writers : w'[q].id = 0 => w'[q].at \in {"new", "idle", "gone"},
           \A q \in Streams : \/ w'[q].id = w[q].id /\ (w'[q].at = "picked" <=> w[q].at = "picked")
                              \/ w'[q].id = 0 /\ w'[q].at # "picked"
    PROVE  JobsInv'
<1>1. /\ disk' \in [Ids -> [text : {"absent", "torn", "cut", "saved"}, job : Job]]
      /\ \A i \in Ids : disk[i].text # "absent" => disk'[i].text # "absent"
  BY DEF JobsInv, TypeOK, CutDecision
<1>2. TypeOK' /\ HeldInv'
  BY <1>1 DEF JobsInv, TypeOK, HeldInv
<1>3. ASSUME NEW r \in Streams, w[r].at = "picked", w'[r].at # "picked", w'[r].id # 0
      PROVE  disk'[w'[r].id].text # "absent"
  BY <1>3
<1> QED BY <1>1, <1>2, <1>3, NumbersKept DEF JobsInv

\* One writer, not at taking a number, moves to another point with the number
\* it has, or gives it up.
LEMMA OneGoes ==
    ASSUME JobsInv, UNCHANGED <<disk, pages>>, NEW p \in Writers, NEW x \in Writer,
           w' = [w EXCEPT ![p] = x], x.at # "picked",
           \/ x.id = w[p].id /\ x.id # 0 /\ w[p].at # "picked"
           \/ x.id = 0 /\ x.at = "gone"
    PROVE  JobsInv'
<1>1. w' \in [Writers -> Writer] /\ w'[p] = x /\ \A q \in Writers : q # p => w'[q] = w[q]
  BY DEF JobsInv, TypeOK
<1>2. \A q \in Streams : q \in Writers
  BY DEF Writers, Runs
<1>3. \A q \in Writers : w'[q].id = 0 => w'[q].at \in {"new", "idle", "gone"}
  BY <1>1 DEF JobsInv, HeldInv
<1>4. pages' \subseteq Ids
  BY DEF JobsInv, TypeOK
<1> QED BY <1>1, <1>2, <1>3, <1>4, GoKeeps

LEMMA RunKeeps ==
    ASSUME JobsInv, NEW r \in Runs,
           Step(r) \/ SaveRaises(r) \/ Disconnect(r) \/ CliDies(r)
    PROVE  JobsInv'
<1> USE DEF JobsInv
<1>1. r \in Writers /\ w[r] \in Writer
  BY DEF Writers, TypeOK
<1>2. w[r].at \notin {"new", "idle", "gone"} => w[r].id \in Ids
  BY <1>1 DEF HeldInv, Writer
<1>3. CASE CreateOpen(r)
  BY <1>1, <1>2, <1>3, OpenKeeps, FreshType DEF CreateOpen, Points
<1>4. CASE Returns(r)
  BY <1>1, <1>2, <1>4, OpenKeeps, FreshType DEF Returns, Points, Finished
<1>5. CASE FailOpen(r)
  BY <1>1, <1>2, <1>5, OpenKeeps, FreshType DEF FailOpen, Points, Finished
<1>6. CASE CreateDump(r)
  BY <1>1, <1>2, <1>6, DumpKeeps DEF CreateDump, Points
<1>7. CASE Finish(r)
  BY <1>1, <1>2, <1>7, DumpKeeps DEF Finish, Points
<1>8. ASSUME NEW at \in {"failing", "gone"}, Go(r, at),
             w[r].at \notin {"new", "idle", "gone", "picked"}
      PROVE  JobsInv'
  <2> DEFINE x == [w[r] EXCEPT !.at = at]
  <2>1. w' = [w EXCEPT ![r] = x] /\ UNCHANGED <<disk, pages>>
    BY <1>8 DEF Go
  <2>2. x \in Writer /\ x.at = at /\ x.id = w[r].id
    BY <1>1 DEF Writer, Points
  <2>3. x.id # 0
    BY <1>2, <1>8, <2>2, FounderJobsAssumption DEF Ids
  <2> HIDE DEF x
  <2> QED BY <1>1, <1>8, <2>1, <2>2, <2>3, OneGoes
<1>9. CASE Raises(r) \/ Disconnect(r)
  BY <1>8, <1>9 DEF Raises, Disconnect
<1>10. /\ Gone(r) \in Writer /\ Gone(r).at = "gone"
       /\ Gone(r).id = IF w[r].at = "picked" THEN 0 ELSE w[r].id
  BY <1>1 DEF Gone, Writer, Points
<1>11. ASSUME w' = [w EXCEPT ![r] = Gone(r)], UNCHANGED <<disk, pages>>,
              w[r].at \notin {"new", "idle", "gone"}
       PROVE  JobsInv'
  <2>1. w[r].id # 0
    BY <1>2, <1>11, FounderJobsAssumption DEF Ids
  <2> QED BY <1>1, <1>10, <1>11, <2>1, OneGoes
<1>12. CASE CliDies(r)
  BY <1>11, <1>12 DEF CliDies
<1>13. CASE SaveRaises(r)
  <2> DEFINE x == [w[r] EXCEPT !.at = "failing", !.shared = FALSE]
  <2>1. \/ w' = [w EXCEPT ![r] = x]
        \/ w' = [w EXCEPT ![r] = Gone(r)]
    BY <1>1, <1>13 DEF SaveRaises, TypeOK
  <2>2. x \in Writer /\ x.at = "failing" /\ x.id = w[r].id
    BY <1>1 DEF Writer, Points
  <2>3. /\ w[r].at \notin {"new", "idle", "gone", "picked"} /\ w[r].id # 0
        /\ UNCHANGED <<disk, pages>>
    BY <1>2, <1>13, FounderJobsAssumption DEF SaveRaises, Ids
  <2> HIDE DEF x
  <2> QED BY <1>1, <1>11, <2>1, <2>2, <2>3, OneGoes
<1> QED BY <1>3, <1>4, <1>5, <1>6, <1>7, <1>9, <1>12, <1>13 DEF Step

LEMMA DeskKeeps ==
    ASSUME JobsInv, \/ Decide
                    \/ \E i \in Ids : OpenJob(i)
                    \/ \E i \in Ids, v \in Verdicts : JobDecision(i, v)
    PROVE  JobsInv'
<1> USE DEF JobsInv
<1>1. Desk \in Writers /\ w[Desk] \in Writer /\ Desk \notin Streams
  BY FounderJobsAssumption DEF Writers, Runs, TypeOK
<1>2. w[Desk].at \notin {"new", "idle", "gone"} => w[Desk].id \in Ids
  BY <1>1 DEF HeldInv, Writer
<1>3. CASE DecisionOpen
  BY <1>1, <1>2, <1>3, OpenKeeps DEF DecisionOpen, Points, Writer
<1>4. CASE DecisionDump
  BY <1>1, <1>2, <1>4, DumpKeeps DEF DecisionDump, Points
<1>5. ASSUME NEW i \in Ids, OpenJob(i) PROVE JobsInv'
  BY <1>5, GoKeeps DEF OpenJob, TypeOK, HeldInv
<1>6. ASSUME NEW i \in Ids, NEW v \in Verdicts, JobDecision(i, v) PROVE JobsInv'
  <2> DEFINE x == [at |-> "loaded", id |-> i, shared |-> FALSE,
                   job |-> [disk[i].job EXCEPT !.verdict = v]]
  <2>1. w' = [w EXCEPT ![Desk] = x] /\ UNCHANGED <<disk, pages>>
    BY <1>6 DEF JobDecision
  <2>2. [disk[i].job EXCEPT !.verdict = v] \in Job
    BY DEF TypeOK, Job
  <2>3. x \in Writer /\ x.id # 0
    BY <2>2, FounderJobsAssumption DEF Writer, Points, Ids
  <2> HIDE DEF x
  <2>4. w' \in [Writers -> Writer] /\ \A q \in Writers : q # Desk => w'[q] = w[q]
    BY <2>1, <2>3 DEF TypeOK
  <2>5. \A q \in Streams : q \in Writers /\ q # Desk
    BY <1>1 DEF Writers, Runs
  <2>6. \A q \in Writers : w'[q].id = 0 => w'[q].at \in {"new", "idle", "gone"}
    BY <1>1, <2>1, <2>3, <2>4 DEF HeldInv, TypeOK
  <2> QED BY <2>1, <2>4, <2>5, <2>6, GoKeeps DEF TypeOK
<1> QED BY <1>3, <1>4, <1>5, <1>6 DEF Decide

LEMMA CutKeeps == ASSUME JobsInv, DecisionRaises PROVE JobsInv'
<1>1. Desk \in Writers /\ w[Desk] \in Writer /\ Desk \notin Streams
  BY FounderJobsAssumption DEF Writers, Runs, JobsInv, TypeOK
<1> DEFINE x == [w[Desk] EXCEPT !.at = "idle", !.shared = FALSE]
<1>2. w' = [w EXCEPT ![Desk] = x] /\ w[Desk].at = "saving"
  BY DEF DecisionRaises
<1>3. x \in Writer /\ x.at = "idle"
  BY <1>1 DEF Writer, Points
<1> HIDE DEF x
<1>4. w' \in [Writers -> Writer] /\ \A q \in Writers : q # Desk => w'[q] = w[q]
  BY <1>1, <1>2, <1>3 DEF JobsInv, TypeOK
<1>5. \A q \in Streams : q \in Writers /\ q # Desk
  BY <1>1 DEF Writers, Runs
<1>6. \A q \in Writers : w'[q].id = 0 => w'[q].at \in {"new", "idle", "gone"}
  BY <1>1, <1>2, <1>3, <1>4 DEF JobsInv, HeldInv, TypeOK
<1> QED BY <1>4, <1>5, <1>6, GoKeeps DEF DecisionRaises, JobsInv, TypeOK

LEMMA GatewayKeeps == ASSUME JobsInv, GatewayDies PROVE JobsInv'
<1> USE DEF JobsInv
<1>1. \A p \in Writers : w[p] \in Writer
  BY DEF TypeOK
<1>2. Desk \notin Streams
  BY FounderJobsAssumption DEF Runs
<1>3. ASSUME NEW p \in Writers
      PROVE  /\ w'[p] \in Writer
             /\ \/ w'[p] = w[p]
                \/ w'[p].at = "gone" /\ w'[p].id = IF w[p].at = "picked" THEN 0 ELSE w[p].id
                \/ p = Desk /\ w'[p].at = "idle"
  <2>1. \/ w'[p] = w[p]
        \/ w'[p] = Gone(p)
        \/ p = Desk /\ w'[p] = [w[p] EXCEPT !.at = "idle", !.shared = FALSE]
    BY <1>2, <1>3 DEF GatewayDies
  <2> QED BY <1>1, <1>3, <2>1 DEF Gone, Writer, Points
<1>4. w' \in [Writers -> Writer]
  BY <1>3 DEF GatewayDies
<1>5. \A q \in Writers : w'[q].id = 0 => w'[q].at \in {"new", "idle", "gone"}
  BY <1>3 DEF HeldInv
<1>6. ASSUME NEW q \in Streams
      PROVE  \/ w'[q].id = w[q].id /\ (w'[q].at = "picked" <=> w[q].at = "picked")
             \/ w'[q].id = 0 /\ w'[q].at # "picked"
  <2>1. q \in Writers /\ q # Desk
    BY <1>2 DEF Writers, Runs
  <2> QED BY <1>3, <2>1
<1> QED BY <1>4, <1>5, <1>6, GoKeeps DEF GatewayDies, TypeOK

LEMMA JobsNext == ASSUME JobsInv, [Next]_vars PROVE JobsInv'
<1>1. CASE UNCHANGED vars
  BY <1>1 DEF vars, JobsInv, TypeOK, FilesKeptInv, OnePickInv, HeldInv, StreamIdsDistinct
<1> QED BY <1>1, SubmitKeeps, RunKeeps, DeskKeeps, CutKeeps, GatewayKeeps DEF Next

LEMMA JobsInvHolds == Spec => []JobsInv
BY JobsInit, JobsNext, PTL DEF Spec

\* Every file of the jobs directory, every record in a writer's memory and
\* every page stays within its type, however saves overlap.
THEOREM JobsTypeCorrect == Spec => []TypeOK
<1>1. JobsInv => TypeOK
  BY DEF JobsInv
<1> QED BY <1>1, JobsInvHolds, PTL

\* run_founder_job never gives two founder jobs one number, for any number of
\* jobs, torn files, CLI runs and restarts of the gateway.
THEOREM StreamIdsDistinctHolds == Spec => []StreamIdsDistinct
<1>1. JobsInv => StreamIdsDistinct
  BY DEF JobsInv
<1> QED BY <1>1, JobsInvHolds, PTL
-----------------------------------------------------------------------------
(* FounderJobs implements JobBoard, and a job's end stays on record, for   *)
(* any number of streams, CLI runs and decisions taken on the web page.    *)
(*                                                                         *)
(* The argument: a number has an owner for as long as one run only has     *)
(* opened its file.  What the file says then follows from where the owner  *)
(* is, and the desk has the job in hand only when its record is completed, *)
(* after which the owner writes no more.                                   *)

\* r has opened the file of j.
Opened(r, j) == w[r].id = j /\ w[r].at # "picked"

\* p has nothing to do with the file of j.
Aside(p, j) == w[p].id # j \/ w[p].at = IF p = Desk THEN "idle" ELSE "picked"

\* What the record of j says, from where the run that owns it is.
Fits(r, j) ==
    /\ w[r].at = "creating" => disk[j].job = NoJob /\ w[r].job = Fresh("running")
    /\ w[r].at \in {"working", "failing"} => disk[j].job = Fresh("running")
    /\ w[r].at = "saving" => /\ disk[j].job = Fresh("running")
                             /\ w[r].job \in {Fresh("completed"), Fresh("failed")}
    /\ w[r].at = "ended" => disk[j].job.status \in Finished

\* The desk has j in hand.
InHand(j) == w[Desk].id = j /\ w[Desk].at # "idle"

\* A file that was never opened, or has one owner.
Kept(j) ==
    /\ j \in pages => disk[j].job.status = "completed"
    /\ InHand(j) => /\ disk[j].job.status = "completed"
                    /\ w[Desk].job.status = "completed" /\ w[Desk].job.verdict \in Verdicts
    /\ \A p \in Writers : Writing(p, j) => ~w[p].shared
    /\ disk[j].job # NoJob => \E r \in Runs : Opened(r, j)
    /\ \A r \in Runs : Opened(r, j) => Fits(r, j)

KeptInv == \A j \in Ids : ~Contested(j) => Kept(j)

\* Who has not begun has no number; a file is created with a running job; the
\* desk and the runs have points of their own.
PlaceInv ==
    /\ \A r \in Runs : w[r].at = "new" => w[r].id = 0
    /\ \A r \in Runs : w[r].at = "creating" => w[r].job = Fresh("running")
    /\ w[Desk].at \in {"idle", "loaded", "saving"}

BoardInv == JobsInv /\ PlaceInv /\ KeptInv

LEMMA WritersAre ==
    /\ \A r \in Runs : r \in Writers /\ r # Desk
    /\ Desk \in Writers
    /\ \A p \in Writers : p # Desk => p \in Runs
    /\ 0 \notin Ids
BY FounderJobsAssumption DEF Writers, Runs, Ids

LEMMA BoardInit == Init => PlaceInv /\ KeptInv
<1> SUFFICES ASSUME Init PROVE PlaceInv /\ KeptInv
  OBVIOUS
<1>1. ASSUME NEW p \in Writers
      PROVE  w[p].id = 0 /\ w[p].at = IF p = Desk THEN "idle" ELSE "new"
  BY <1>1 DEF Init
<1>2. PlaceInv
  BY <1>1, WritersAre DEF PlaceInv
<1>3. ASSUME NEW j \in Ids PROVE Kept(j)
  <2>1. disk[j].job = NoJob /\ j \notin pages
    BY DEF Init
  <2>2. \A p \in Writers : w[p].id # j
    BY <1>1, WritersAre
  <2> QED BY <2>1, <2>2, WritersAre DEF Kept, InHand, Writing, Opened
<1> QED BY <1>2, <1>3 DEF KeptInv

\* Whoever does not take part in a step with j leaves its record as it fits;
\* so does a run that fails, or is cut short, and a desk that puts j down.
Quiet(p, j) ==
    \/ w'[p] = w[p]
    \/ Aside(p, j) /\ Aside(p, j)'
    \/ p = Desk /\ Aside(p, j)'
    \/ /\ p \in Runs /\ w'[p].id = w[p].id /\ w[p].at # "picked"
       /\ \/ w'[p].at = "gone"
          \/ w[p].at \in {"working", "saving"} /\ w'[p].at = "failing"

LEMMA QuietOpeners ==
    ASSUME NEW j, \A p \in Writers : Quiet(p, j)
    PROVE  /\ \A r \in Runs : Opened(r, j)' <=> Opened(r, j)
           /\ Contested(j)' <=> Contested(j)
<1>1. ASSUME NEW r \in Runs PROVE Opened(r, j)' <=> Opened(r, j)
  BY <1>1, WritersAre DEF Quiet, Opened, Aside
<1> QED BY <1>1 DEF Contested, Opened

LEMMA QuietKeeps ==
    ASSUME NEW j \in Ids, KeptInv, disk'[j].job = disk[j].job,
           j \in pages' => j \in pages,
           \A p \in Writers : Quiet(p, j), ~Contested(j)'
    PROVE  Kept(j)'
<1>1. Kept(j)
  BY QuietOpeners DEF KeptInv
<1>2. \A r \in Runs : Opened(r, j)' <=> Opened(r, j)
  BY QuietOpeners
<1>3. InHand(j)' => InHand(j) /\ w'[Desk] = w[Desk]
  BY WritersAre DEF Quiet, InHand, Aside
<1>4. ASSUME NEW p \in Writers, Writing(p, j)' PROVE ~w'[p].shared
  <2>1. w'[p] = w[p]
    BY <1>4, WritersAre DEF Quiet, Writing, Aside
  <2> QED BY <1>1, <1>4, <2>1 DEF Kept, Writing
<1>5. ASSUME NEW r \in Runs, Opened(r, j)' PROVE Fits(r, j)'
  <2>1. Fits(r, j)
    BY <1>1, <1>2, <1>5 DEF Kept
  <2>2. CASE w'[r] = w[r]
    BY <2>1, <2>2 DEF Fits
  <2>3. CASE w'[r] # w[r]
    BY <1>5, <2>1, <2>3, WritersAre DEF Fits, Quiet, Opened, Aside
  <2> QED BY <2>2, <2>3
<1> QED BY <1>1, <1>2, <1>3, <1>4, <1>5 DEF Kept

-----------------------------------------------------------------------------
(* Opening and writing a file *)

LEMMA OpenEffect ==
    ASSUME JobsInv, NEW p \in Writers, NEW i \in Ids, NEW job \in Job, NEW at,
           Open(p, i, job, at), w[p].id = i
    PROVE  /\ \A j \in Ids : disk'[j].job = disk[j].job
           /\ pages' = pages
           /\ w'[p].at = at /\ w'[p].id = i /\ w'[p].job = job
           /\ w'[p].shared <=> \E q \in Writers \ {p} : Writing(q, i)
           /\ \A q \in Writers \ {p} :
                 /\ w'[q].at = w[q].at /\ w'[q].id = w[q].id /\ w'[q].job = w[q].job
                 /\ ~Writing(q, i) => w'[q] = w[q]
           /\ \A j \in Ids \ {i}, q \in Writers : Quiet(q, j)
<1> DEFINE others == {q \in Writers \ {p} : Writing(q, i)}
<1>1. /\ disk' = [disk EXCEPT ![i].text = "torn"]
      /\ w' = [q \in Writers |->
                CASE q = p         -> [at |-> at, id |-> i, job |-> job,
                                       shared |-> others # {}]
                  [] q \in others  -> [w[q] EXCEPT !.shared = TRUE]
                  [] OTHER         -> w[q]]
      /\ UNCHANGED pages
  BY DEF Open
<1>2. p \notin others /\ \A q \in Writers \ {p} : q \in others <=> Writing(q, i)
  OBVIOUS
<1>3. others # {} <=> \E q \in Writers \ {p} : Writing(q, i)
  OBVIOUS
<1> HIDE DEF others
<1>4. w'[p] = [at |-> at, id |-> i, job |-> job, shared |-> others # {}]
  BY <1>1, <1>2
<1>5. ASSUME NEW q \in Writers \ {p}
      PROVE  /\ w'[q].at = w[q].at /\ w'[q].id = w[q].id /\ w'[q].job = w[q].job
             /\ ~Writing(q, i) => w'[q] = w[q]
  <2>1. w[q] \in Writer
    BY <1>5 DEF JobsInv, TypeOK
  <2>2. CASE q \in others
    <3>1. w'[q] = [w[q] EXCEPT !.shared = TRUE]
      BY <1>1, <1>5, <2>2
    <3> QED BY <1>2, <1>5, <2>1, <2>2, <3>1 DEF Writer
  <2>3. CASE q \notin others
    BY <1>1, <1>5, <2>3
  <2> QED BY <2>2, <2>3
<1>6. \A j \in Ids : disk'[j].job = disk[j].job
  BY <1>1 DEF JobsInv, TypeOK
<1>7. ASSUME NEW j \in Ids \ {i}, NEW q \in Writers PROVE Quiet(q, j)
  BY <1>4, <1>5, <1>7 DEF Quiet, Aside, Writing
<1>8. w'[p].at = at /\ w'[p].id = i /\ w'[p].job = job
  BY <1>4
<1>9. w'[p].shared <=> \E q \in Writers \ {p} : Writing(q, i)
  <2>1. w'[p].shared = (others # {})
    BY <1>4
  <2> QED BY <1>3, <2>1
<1> QED BY <1>1, <1>5, <1>6, <1>7, <1>8, <1>9

LEMMA DumpEffect ==
    ASSUME JobsInv, NEW p \in Writers, NEW next, Dump(p, next), w[p].id \in Ids
    PROVE  /\ \/ disk'[w[p].id].job = w[p].job
              \/ w[p].shared /\ disk' = disk
           /\ \A j \in Ids \ {w[p].id} : disk'[j].job = disk[j].job
           /\ pages' = pages
           /\ w'[p].at = next /\ w'[p].id = w[p].id /\ w'[p].job = w[p].job
           /\ \A q \in Writers \ {p} : w'[q] = w[q]
           /\ \A j \in Ids \ {w[p].id}, q \in Writers : Quiet(q, j)
<1>1. /\ w' = [w EXCEPT ![p].at = next, ![p].shared = FALSE]
      /\ UNCHANGED pages
  BY DEF Dump
<1>2. w[p] \in Writer
  BY DEF JobsInv, TypeOK
<1>3. /\ w'[p].at = next /\ w'[p].id = w[p].id /\ w'[p].job = w[p].job
      /\ \A q \in Writers \ {p} : w'[q] = w[q]
  BY <1>1, <1>2 DEF JobsInv, TypeOK, Writer
<1>4. /\ \/ disk'[w[p].id].job = w[p].job
         \/ w[p].shared /\ disk' = disk
      /\ \A j \in Ids \ {w[p].id} : disk'[j].job = disk[j].job
  BY DEF Dump, JobsInv, TypeOK
<1>5. \A j \in Ids \ {w[p].id}, q \in Writers : Quiet(q, j)
  BY <1>3 DEF Quiet, Aside
<1> QED BY <1>1, <1>3, <1>4, <1>5

LEMMA FreshFields ==
    /\ \A s : Fresh(s).status = s /\ Fresh(s).verdict = NoVerdict
    /\ NoJob.status = "none" /\ NoJob.verdict = NoVerdict
BY DEF Fresh, NoJob

\* The writers that a step at the file of i leaves alone have opened the same
\* files.
LEMMA SameOpeners ==
    ASSUME NEW i, NEW p \in Writers,
           \A q \in Writers \ {p} : w'[q].at = w[q].at /\ w'[q].id = w[q].id,
           p \in Runs => (Opened(p, i)' <=> Opened(p, i))
    PROVE  /\ \A r \in Runs : Opened(r, i)' <=> Opened(r, i)
           /\ Contested(i)' <=> Contested(i)
<1>1. ASSUME NEW r \in Runs PROVE Opened(r, i)' <=> Opened(r, i)
  BY <1>1, WritersAre DEF Opened
<1> QED BY <1>1 DEF Contested, Opened

-----------------------------------------------------------------------------
(* Each action at the file it writes *)

LEMMA CreateOpenKept ==
    ASSUME BoardInv, NEW r \in Runs, CreateOpen(r), NEW i \in Ids, w[r].id = i,
           ~Contested(i)'
    PROVE  Kept(i)'
<1>0. r \in Writers /\ w[r].at = "picked" /\ w[r] \in Writer /\ Fresh("running") \in Job
  BY WritersAre, FreshType DEF CreateOpen, BoardInv, JobsInv, TypeOK
<1>1. Open(r, i, Fresh("running"), "creating")
  BY DEF CreateOpen
<1>3. /\ \A j \in Ids : disk'[j].job = disk[j].job
      /\ pages' = pages
      /\ w'[r].at = "creating" /\ w'[r].id = i /\ w'[r].job = Fresh("running")
      /\ w'[r].shared <=> \E q \in Writers \ {r} : Writing(q, i)
      /\ \A q \in Writers \ {r} :
            /\ w'[q].at = w[q].at /\ w'[q].id = w[q].id /\ w'[q].job = w[q].job
            /\ ~Writing(q, i) => w'[q] = w[q]
  BY <1>0, <1>1, OpenEffect DEF BoardInv
<1>4. \A q \in Runs : ~Opened(q, i)
  <2>1. ASSUME NEW q \in Runs, Opened(q, i) PROVE FALSE
    <3>1. q # r
      BY <1>0, <2>1 DEF Opened
    <3> QED BY <1>0, <1>3, <2>1, <3>1, WritersAre DEF Contested, Opened
  <2> QED BY <2>1
<1>5. Kept(i)
  BY <1>1, <1>4 DEF BoardInv, KeptInv, Contested, Opened
<1>6. disk[i].job = NoJob
  BY <1>4, <1>5 DEF Kept
<1>7. i \notin pages /\ ~InHand(i)
  BY <1>5, <1>6, FreshFields DEF Kept
<1>8. \A q \in Writers \ {r} : ~Writing(q, i)
  <2>1. ASSUME NEW q \in Writers \ {r}, Writing(q, i) PROVE FALSE
    <3>1. q # Desk
      BY <1>7, <2>1 DEF InHand, Writing
    <3> QED BY <1>4, <2>1, <3>1, WritersAre DEF Writing, Opened
  <2> QED BY <2>1
<1>9. Opened(r, i)' /\ Fits(r, i)'
  BY <1>1, <1>3, <1>6 DEF Opened, Fits
<1>10. \A q \in Runs : q # r => ~Opened(q, i)'
  BY <1>3, <1>4, WritersAre DEF Opened
<1>11. ~InHand(i)'
  BY <1>3, <1>7, WritersAre DEF InHand
<1>12. \A q \in Writers : Writing(q, i)' => ~w'[q].shared
  BY <1>3, <1>8 DEF Writing
<1> QED BY <1>3, <1>7, <1>9, <1>10, <1>11, <1>12 DEF Kept

\* What is known of the file of the owner r, before r writes it.
LEMMA Owned ==
    ASSUME BoardInv, NEW r \in Runs, NEW i \in Ids, Opened(r, i), ~Contested(i)
    PROVE  /\ Kept(i) /\ Fits(r, i)
           /\ \A q \in Runs : q # r => ~Opened(q, i)
           /\ w[r].at \in {"creating", "working", "failing", "saving"}
                => /\ disk[i].job.status # "completed" /\ i \notin pages /\ ~InHand(i)
                   /\ \A q \in Writers \ {r} : ~Writing(q, i)
           /\ w[r].at \in {"creating", "saving"} => ~w[r].shared
<1>1. Kept(i)
  BY DEF BoardInv, KeptInv
<1>2. Fits(r, i)
  BY <1>1 DEF Kept
<1>3. ASSUME NEW q \in Runs, q # r PROVE ~Opened(q, i)
  BY <1>3 DEF Contested, Opened
<1>4. ASSUME w[r].at \in {"creating", "working", "failing", "saving"}
      PROVE  /\ disk[i].job.status # "completed" /\ i \notin pages /\ ~InHand(i)
             /\ \A q \in Writers \ {r} : ~Writing(q, i)
  <2>1. disk[i].job.status # "completed"
    BY <1>2, <1>4, FreshFields DEF Fits
  <2>2. i \notin pages /\ ~InHand(i)
    BY <1>1, <2>1 DEF Kept
  <2>3. ASSUME NEW q \in Writers \ {r}, Writing(q, i) PROVE FALSE
    <3>1. q # Desk
      BY <2>2, <2>3 DEF InHand, Writing
    <3> QED BY <1>3, <2>3, <3>1, WritersAre DEF Writing, Opened
  <2> QED BY <2>1, <2>2, <2>3
<1>5. w[r].at \in {"creating", "saving"} => ~w[r].shared
  BY <1>1, WritersAre DEF Kept, Writing, Opened
<1> QED BY <1>1, <1>2, <1>3, <1>4, <1>5

LEMMA EndOpenKept ==
    ASSUME BoardInv, NEW r \in Runs, Returns(r) \/ FailOpen(r),
           NEW i \in Ids, w[r].id = i, ~Contested(i)'
    PROVE  Kept(i)'
<1>1. PICK s \in {"completed", "failed"} : Open(r, i, Fresh(s), "saving")
  BY DEF Returns, FailOpen
<1>2. r \in Writers /\ Fresh(s) \in Job /\ w[r].at \in {"working", "failing"}
  BY WritersAre, FreshType DEF Returns, FailOpen, Finished
<1>3. /\ \A j \in Ids : disk'[j].job = disk[j].job
      /\ pages' = pages
      /\ w'[r].at = "saving" /\ w'[r].id = i /\ w'[r].job = Fresh(s)
      /\ w'[r].shared <=> \E q \in Writers \ {r} : Writing(q, i)
      /\ \A q \in Writers \ {r} :
            /\ w'[q].at = w[q].at /\ w'[q].id = w[q].id /\ w'[q].job = w[q].job
            /\ ~Writing(q, i) => w'[q] = w[q]
  BY <1>1, <1>2, OpenEffect DEF BoardInv
<1>4. Opened(r, i) /\ Opened(r, i)'
  BY <1>2, <1>3 DEF Opened
<1>5. ~Contested(i) /\ \A q \in Runs : Opened(q, i)' <=> Opened(q, i)
  BY <1>2, <1>3, <1>4, SameOpeners
<1>6. /\ Fits(r, i) /\ i \notin pages /\ ~InHand(i)
      /\ \A q \in Runs : q # r => ~Opened(q, i)
      /\ \A q \in Writers \ {r} : ~Writing(q, i)
  BY <1>2, <1>4, <1>5, Owned
<1>7. Fits(r, i)'
  BY <1>2, <1>3, <1>6 DEF Fits
<1>8. ~InHand(i)'
  BY <1>3, <1>6, WritersAre DEF InHand
<1>9. \A q \in Writers : Writing(q, i)' => ~w'[q].shared
  BY <1>3, <1>6 DEF Writing
<1> QED BY <1>3, <1>4, <1>5, <1>6, <1>7, <1>8, <1>9 DEF Kept

\* The job a run writes out is what its place asks for.
LEMMA RunDumpKept ==
    ASSUME BoardInv, NEW r \in Runs, CreateDump(r) \/ Finish(r),
           NEW i \in Ids, w[r].id = i, ~Contested(i)'
    PROVE  /\ Kept(i)' /\ ~Contested(i)
           /\ disk'[i].job = w[r].job
<1>1. PICK next \in {"working", "ended"} :
         Dump(r, next) /\ w[r].at = IF next = "working" THEN "creating" ELSE "saving"
  BY DEF CreateDump, Finish
<1>2. r \in Writers
  BY WritersAre
<1>3. /\ \/ disk'[i].job = w[r].job
         \/ w[r].shared /\ disk' = disk
      /\ pages' = pages
      /\ w'[r].at = next /\ w'[r].id = i /\ w'[r].job = w[r].job
      /\ \A q \in Writers \ {r} : w'[q] = w[q]
  BY <1>1, <1>2, DumpEffect DEF BoardInv
<1>4. Opened(r, i) /\ Opened(r, i)'
  BY <1>1, <1>3 DEF Opened
<1>5. ~Contested(i) /\ \A q \in Runs : Opened(q, i)' <=> Opened(q, i)
  BY <1>2, <1>3, <1>4, SameOpeners
<1>6. /\ Fits(r, i) /\ i \notin pages /\ ~InHand(i) /\ ~w[r].shared
      /\ \A q \in Runs : q # r => ~Opened(q, i)
      /\ \A q \in Writers \ {r} : ~Writing(q, i)
  BY <1>1, <1>4, <1>5, Owned
<1>7. disk'[i].job = w[r].job
  BY <1>3, <1>6
<1>8. Fits(r, i)'
  BY <1>1, <1>3, <1>6, <1>7, FreshFields DEF Fits, Finished
<1>9. ~InHand(i)'
  BY <1>3, <1>6, WritersAre DEF InHand
<1>10. \A q \in Writers : ~Writing(q, i)'
  BY <1>1, <1>3, <1>6 DEF Writing
<1> QED BY <1>3, <1>4, <1>5, <1>6, <1>7, <1>8, <1>9, <1>10 DEF Kept

\* While the desk has j in hand its owner writes no more.
LEMMA DeskAlone ==
    ASSUME BoardInv, NEW i \in Ids, disk[i].job.status = "completed", Kept(i)
    PROVE  /\ \A r \in Runs : Opened(r, i)
                    => w[r].at \notin {"creating", "working", "failing", "saving"}
           /\ \A q \in Writers \ {Desk} : ~Writing(q, i)
<1>1. ASSUME NEW r \in Runs, Opened(r, i)
      PROVE  w[r].at \notin {"creating", "working", "failing", "saving"}
  BY <1>1, FreshFields DEF Kept, Fits
<1>2. ASSUME NEW q \in Writers \ {Desk}, Writing(q, i) PROVE FALSE
  BY <1>1, <1>2, WritersAre DEF Writing, Opened
<1> QED BY <1>1, <1>2

LEMMA DecisionOpenKept ==
    ASSUME BoardInv, DecisionOpen, NEW i \in Ids, w[Desk].id = i, ~Contested(i)'
    PROVE  Kept(i)'
<1>1. Desk \in Writers /\ w[Desk] \in Writer /\ w[Desk].at = "loaded"
  BY WritersAre DEF BoardInv, JobsInv, TypeOK, DecisionOpen
<1>2. w[Desk].job \in Job /\ Open(Desk, i, w[Desk].job, "saving")
  BY <1>1 DEF DecisionOpen, Writer
<1>3. /\ \A j \in Ids : disk'[j].job = disk[j].job
      /\ pages' = pages
      /\ w'[Desk].at = "saving" /\ w'[Desk].id = i /\ w'[Desk].job = w[Desk].job
      /\ w'[Desk].shared <=> \E q \in Writers \ {Desk} : Writing(q, i)
      /\ \A q \in Writers \ {Desk} :
            /\ w'[q].at = w[q].at /\ w'[q].id = w[q].id /\ w'[q].job = w[q].job
            /\ ~Writing(q, i) => w'[q] = w[q]
  BY <1>1, <1>2, OpenEffect DEF BoardInv
<1>4. ~Contested(i) /\ \A q \in Runs : Opened(q, i)' <=> Opened(q, i)
  BY <1>1, <1>3, WritersAre, SameOpeners
<1>5. Kept(i) /\ InHand(i)
  BY <1>1, <1>4 DEF BoardInv, KeptInv, InHand
<1>6. /\ disk[i].job.status = "completed"
      /\ w[Desk].job.status = "completed" /\ w[Desk].job.verdict \in Verdicts
  BY <1>5 DEF Kept
<1>7. \A q \in Writers \ {Desk} : ~Writing(q, i)
  BY <1>5, <1>6, DeskAlone
<1>8. \A q \in Writers \ {Desk} : w'[q] = w[q]
  BY <1>3, <1>7
<1>9. \A q \in Writers : Writing(q, i)' => ~w'[q].shared
  BY <1>3, <1>7, <1>8 DEF Writing
<1>10. \A r \in Runs : Opened(r, i)' => Fits(r, i)'
  BY <1>3, <1>4, <1>5, <1>8, WritersAre DEF Kept, Fits
<1> QED BY <1>3, <1>4, <1>5, <1>6, <1>9, <1>10 DEF Kept

LEMMA DecisionDumpKept ==
    ASSUME BoardInv, DecisionDump, NEW i \in Ids, w[Desk].id = i, ~Contested(i)'
    PROVE  /\ Kept(i)' /\ ~Contested(i)
           /\ disk'[i].job = w[Desk].job /\ InHand(i)
<1>1. Desk \in Writers /\ Dump(Desk, "idle") /\ w[Desk].at = "saving"
  BY WritersAre DEF DecisionDump
<1>2. /\ \/ disk'[i].job = w[Desk].job
         \/ w[Desk].shared /\ disk' = disk
      /\ pages' = pages
      /\ w'[Desk].at = "idle" /\ w'[Desk].id = i
      /\ \A q \in Writers \ {Desk} : w'[q] = w[q]
  BY <1>1, DumpEffect DEF BoardInv
<1>3. ~Contested(i) /\ \A q \in Runs : Opened(q, i)' <=> Opened(q, i)
  BY <1>1, <1>2, WritersAre, SameOpeners
<1>4. Kept(i) /\ InHand(i) /\ Writing(Desk, i)
  BY <1>1, <1>3 DEF BoardInv, KeptInv, InHand, Writing
<1>5. /\ disk[i].job.status = "completed" /\ ~w[Desk].shared
      /\ w[Desk].job.status = "completed" /\ w[Desk].job.verdict \in Verdicts
  BY <1>1, <1>4 DEF Kept
<1>6. disk'[i].job = w[Desk].job
  BY <1>2, <1>5
<1>7. /\ \A r \in Runs : Opened(r, i)
                => w[r].at \notin {"creating", "working", "failing", "saving"}
      /\ \A q \in Writers \ {Desk} : ~Writing(q, i)
  BY <1>4, <1>5, DeskAlone
<1>8. \A q \in Writers : ~Writing(q, i)'
  BY <1>2, <1>7 DEF Writing
<1>9. \A r \in Runs : Opened(r, i)' => Fits(r, i)'
  BY <1>2, <1>3, <1>5, <1>6, <1>7, WritersAre DEF Fits, Finished
<1>10. disk'[i].job # NoJob => \E r \in Runs : Opened(r, i)'
  BY <1>3, <1>4, <1>5, FreshFields DEF Kept
<1> QED BY <1>2, <1>3, <1>4, <1>5, <1>6, <1>8, <1>9, <1>10 DEF Kept, InHand

-----------------------------------------------------------------------------
(* The board *)

BoardStatus  == [i \in Ids |-> IF Contested(i) THEN "contested" ELSE disk[i].job.status]
BoardVerdict == [i \in Ids |-> IF Contested(i) THEN NoVerdict ELSE disk[i].job.verdict]

\* The step of the board that a change of the record of i stands for.
BoardChange(i) ==
    \/ Contested(i)'
    \/ ~Contested(i) /\
         \/ disk'[i].job = disk[i].job
         \/ /\ disk[i].job.status = "none" /\ disk'[i].job.status = "running"
            /\ disk'[i].job.verdict = disk[i].job.verdict
         \/ /\ disk[i].job.status = "running" /\ disk'[i].job.status \in Finished
            /\ disk'[i].job.verdict = disk[i].job.verdict
         \/ /\ disk[i].job.status = "completed" /\ disk'[i].job.status = "completed"
            /\ disk'[i].job.verdict \in Verdicts

LEMMA BoardSteps ==
    ASSUME NEW i \in Ids, BoardChange(i),
           \A j \in Ids \ {i} : (Contested(j)' <=> Contested(j)) /\ disk'[j].job = disk[j].job
    PROVE  [Board!Next]_<<BoardStatus, BoardVerdict>>
<1>1. CASE Contested(i)'
  <2>1. BoardStatus' = [BoardStatus EXCEPT ![i] = "contested"]
    BY <1>1 DEF BoardStatus
  <2>2. BoardVerdict' = [BoardVerdict EXCEPT ![i] = NoVerdict]
    BY <1>1 DEF BoardVerdict
  <2> QED BY <2>1, <2>2 DEF Board!Next, Board!Contest, BoardStatus, BoardVerdict
<1>2. CASE ~Contested(i)' /\ ~Contested(i)
  <2>1. /\ BoardStatus[i] = disk[i].job.status
        /\ BoardStatus' = [BoardStatus EXCEPT ![i] = disk'[i].job.status]
    BY <1>2 DEF BoardStatus
  <2>2. /\ BoardVerdict[i] = disk[i].job.verdict
        /\ BoardVerdict' = [BoardVerdict EXCEPT ![i] = disk'[i].job.verdict]
    BY <1>2 DEF BoardVerdict
  <2>3. disk'[i].job.status = disk[i].job.status => BoardStatus' = BoardStatus
    BY <2>1 DEF BoardStatus
  <2>4. disk'[i].job.verdict = disk[i].job.verdict => BoardVerdict' = BoardVerdict
    BY <2>2 DEF BoardVerdict
  <2>5. CASE disk'[i].job = disk[i].job
    BY <2>3, <2>4, <2>5
  <2>6. CASE /\ disk[i].job.status = "none" /\ disk'[i].job.status = "running"
             /\ disk'[i].job.verdict = disk[i].job.verdict
    BY <2>1, <2>4, <2>6 DEF Board!Next, Board!Appear, BoardStatus, BoardVerdict
  <2>7. CASE /\ disk[i].job.status = "running" /\ disk'[i].job.status \in Finished
             /\ disk'[i].job.verdict = disk[i].job.verdict
    BY <2>1, <2>4, <2>7 DEF Board!Next, Board!End, BoardStatus, BoardVerdict, Finished
  <2>8. CASE /\ disk[i].job.status = "completed" /\ disk'[i].job.status = "completed"
             /\ disk'[i].job.verdict \in Verdicts
    BY <2>1, <2>2, <2>3, <2>8 DEF Board!Next, Board!Decide, BoardStatus, BoardVerdict
  <2> QED BY <1>2, <2>5, <2>6, <2>7, <2>8 DEF BoardChange
<1> QED BY <1>1, <1>2 DEF BoardChange

Keeps == KeptInv' /\ [Board!Next]_<<BoardStatus, BoardVerdict>>

LEMMA QuietStep ==
    ASSUME BoardInv, \A j \in Ids : disk'[j].job = disk[j].job, pages' \subseteq pages,
           \A j \in Ids, p \in Writers : Quiet(p, j)
    PROVE  Keeps
<1>1. \A j \in Ids : Contested(j)' <=> Contested(j)
  BY QuietOpeners
<1>2. KeptInv'
  BY QuietKeeps DEF KeptInv, BoardInv
<1>3. UNCHANGED <<BoardStatus, BoardVerdict>>
  BY <1>1 DEF BoardStatus, BoardVerdict
<1> QED BY <1>2, <1>3 DEF Keeps

\* A step at the file of i that is quiet for the others.
LEMMA StepAt ==
    ASSUME BoardInv, NEW i \in Ids, BoardChange(i), ~Contested(i)' => Kept(i)',
           \A j \in Ids \ {i} : /\ disk'[j].job = disk[j].job
                                /\ j \in pages' => j \in pages
                                /\ \A p \in Writers : Quiet(p, j)
    PROVE  Keeps
<1>1. \A j \in Ids \ {i} : Contested(j)' <=> Contested(j)
  BY QuietOpeners
<1>2. [Board!Next]_<<BoardStatus, BoardVerdict>>
  BY <1>1, BoardSteps
<1>3. \A j \in Ids \ {i} : ~Contested(j)' => Kept(j)'
  BY QuietKeeps DEF BoardInv
<1>4. KeptInv'
  BY <1>3 DEF KeptInv
<1> QED BY <1>2, <1>4 DEF Keeps

LEMMA SubmitQuiet == ASSUME BoardInv, NEW r \in Runs, Submit(r) PROVE Keeps
<1>1. /\ w' = [w EXCEPT ![r].at = "picked", ![r].id = NextJob]
      /\ UNCHANGED <<disk, pages>> /\ w[r].at = "new"
      /\ r \in Writers /\ r # Desk /\ w[r] \in Writer /\ w[r].id = 0
  BY WritersAre DEF Submit, BoardInv, PlaceInv, JobsInv, TypeOK
<1>2. w'[r].at = "picked" /\ \A q \in Writers : q # r => w'[q] = w[q]
  BY <1>1 DEF BoardInv, JobsInv, TypeOK, Writer
<1>3. \A j \in Ids, p \in Writers : Quiet(p, j)
  BY <1>1, <1>2, WritersAre DEF Quiet, Aside
<1> QED BY <1>1, <1>3, QuietStep

LEMMA GoneQuiet ==
    ASSUME BoardInv, NEW r \in Runs, w'[r] = Gone(r), NEW j \in Ids, w[r].at # "new"
    PROVE  Quiet(r, j)
<1>1. w[r] \in Writer /\ r \in Writers /\ r # Desk
  BY WritersAre DEF BoardInv, JobsInv, TypeOK
<1>2. w'[r].at = "gone" /\ w'[r].id = IF w[r].at = "picked" THEN 0 ELSE w[r].id
  BY <1>1 DEF Gone, Writer
<1> QED BY <1>1, <1>2, WritersAre DEF Quiet, Aside

LEMMA TroubleQuiet ==
    ASSUME BoardInv, NEW r \in Runs,
           Raises(r) \/ SaveRaises(r) \/ Disconnect(r) \/ CliDies(r)
    PROVE  Keeps
<1>1. w[r] \in Writer /\ r \in Writers /\ r # Desk
  BY WritersAre DEF BoardInv, JobsInv, TypeOK
<1>2. UNCHANGED <<disk, pages>>
  BY DEF Raises, SaveRaises, Disconnect, CliDies, Go
<1>3. \A q \in Writers : q # r => w'[q] = w[q]
  BY <1>1 DEF Raises, SaveRaises, Disconnect, CliDies, Go, BoardInv, JobsInv, TypeOK
<1>4. ASSUME NEW j \in Ids PROVE Quiet(r, j)
  <2>1. CASE Raises(r)
    <3>1. w'[r] = [w[r] EXCEPT !.at = "failing"] /\ w[r].at = "working"
      BY <1>1, <2>1 DEF Raises, Go, BoardInv, JobsInv, TypeOK
    <3>2. w'[r].at = "failing" /\ w'[r].id = w[r].id
      BY <1>1, <3>1 DEF Writer
    <3> QED BY <3>1, <3>2 DEF Quiet
  <2>2. CASE Disconnect(r)
    <3>1. w'[r] = [w[r] EXCEPT !.at = "gone"] /\ w[r].at \in {"working", "failing"}
      BY <1>1, <2>2 DEF Disconnect, Go, BoardInv, JobsInv, TypeOK
    <3>2. w'[r].at = "gone" /\ w'[r].id = w[r].id
      BY <1>1, <3>1 DEF Writer
    <3> QED BY <3>1, <3>2 DEF Quiet
  <2>3. CASE CliDies(r)
    <3>1. w'[r] = Gone(r) /\ w[r].at # "new"
      BY <1>1, <2>3 DEF CliDies, BoardInv, JobsInv, TypeOK
    <3> QED BY <3>1, GoneQuiet
  <2>4. CASE SaveRaises(r)
    <3>1. CASE w'[r] = Gone(r)
      <4>1. w[r].at # "new"
        BY <2>4 DEF SaveRaises
      <4> QED BY <3>1, <4>1, GoneQuiet
    <3>2. CASE w'[r] # Gone(r)
      <4>1. /\ w'[r] = [w[r] EXCEPT !.at = "failing", !.shared = FALSE]
            /\ w[r].job.status = "completed" /\ w[r].at \in {"creating", "saving"}
        BY <1>1, <2>4, <3>2 DEF SaveRaises, BoardInv, JobsInv, TypeOK
      <4>3. w[r].at = "saving"
        BY <4>1, FreshFields DEF BoardInv, PlaceInv
      <4>2. w'[r].at = "failing" /\ w'[r].id = w[r].id
        BY <1>1, <4>1 DEF Writer
      <4> QED BY <4>2, <4>3 DEF Quiet
    <3> QED BY <3>1, <3>2
  <2> QED BY <2>1, <2>2, <2>3, <2>4
<1>5. \A j \in Ids, p \in Writers : Quiet(p, j)
  BY <1>3, <1>4 DEF Quiet
<1> QED BY <1>2, <1>5, QuietStep

LEMMA CutRecords ==
    ASSUME BoardInv, CutDecision
    PROVE  \A j \in Ids : disk'[j].job = disk[j].job
BY DEF BoardInv, JobsInv, TypeOK, CutDecision

LEMMA CutQuiet == ASSUME BoardInv, DecisionRaises PROVE Keeps
<1>1. w[Desk] \in Writer /\ w' = [w EXCEPT ![Desk] = [@ EXCEPT !.at = "idle", !.shared = FALSE]]
  BY WritersAre DEF DecisionRaises, BoardInv, JobsInv, TypeOK
<1>2. w'[Desk].at = "idle" /\ \A p \in Writers : p # Desk => w'[p] = w[p]
  BY <1>1, WritersAre DEF BoardInv, JobsInv, TypeOK, Writer
<1>3. \A j \in Ids, p \in Writers : Quiet(p, j)
  BY <1>2 DEF Quiet, Aside
<1> QED BY <1>3, CutRecords, QuietStep DEF DecisionRaises

LEMMA GatewayQuiet == ASSUME BoardInv, GatewayDies PROVE Keeps
<1>1. ASSUME NEW j \in Ids, NEW p \in Writers PROVE Quiet(p, j)
  <2>1. CASE p \in Streams /\ w[p].at \notin {"new", "ended", "gone"}
    <3>1. w'[p] = Gone(p) /\ p \in Runs /\ w[p].at # "new"
      BY <1>1, <2>1, WritersAre DEF GatewayDies, Runs
    <3> QED BY <3>1, GoneQuiet
  <2>2. CASE p = Desk
    <3>1. w'[p] = [w[p] EXCEPT !.at = "idle", !.shared = FALSE]
      BY <1>1, <2>2, WritersAre DEF GatewayDies, Runs
    <3>2. w[p] \in Writer
      BY DEF BoardInv, JobsInv, TypeOK
    <3> QED BY <2>2, <3>1, <3>2 DEF Quiet, Aside, Writer
  <2>3. CASE ~(p \in Streams /\ w[p].at \notin {"new", "ended", "gone"}) /\ p # Desk
    BY <1>1, <2>3 DEF GatewayDies, Quiet
  <2> QED BY <2>1, <2>2, <2>3
<1> QED BY <1>1, CutRecords, QuietStep DEF GatewayDies

LEMMA RunFiles ==
    ASSUME BoardInv, NEW r \in Runs, Step(r), ~Raises(r)
    PROVE  Keeps
<1> DEFINE n == w[r].id
<1>1. n \in Ids /\ r \in Writers
  <2>1. w[r] \in Writer /\ r \in Writers
    BY WritersAre DEF BoardInv, JobsInv, TypeOK
  <2>2. w[r].at \notin {"new", "idle", "gone"}
    BY DEF Step, CreateOpen, CreateDump, Returns, FailOpen, Finish
  <2> QED BY <2>1, <2>2 DEF BoardInv, JobsInv, HeldInv, Writer
<1>2. PICK i \in Ids : i = n
  BY <1>1
<1>3. w[r].id = i
  BY <1>2
<1> HIDE DEF n
<1>4. CASE CreateOpen(r) \/ Returns(r) \/ FailOpen(r)
  <2>1. PICK s \in {"running"} \cup Finished, at \in Points : Open(r, i, Fresh(s), at)
    BY <1>3, <1>4 DEF CreateOpen, Returns, FailOpen, Points, Finished
  <2>2. Fresh(s) \in Job
    BY FreshType
  <2>3. /\ \A j \in Ids : disk'[j].job = disk[j].job
        /\ pages' = pages
        /\ \A j \in Ids \ {i}, q \in Writers : Quiet(q, j)
        /\ w'[r].id = i /\ w'[r].at = at
        /\ \A q \in Writers \ {r} : w'[q].at = w[q].at /\ w'[q].id = w[q].id
    BY <1>1, <1>3, <2>1, <2>2, OpenEffect DEF BoardInv
  <2>4. ~Contested(i)' => Kept(i)'
    BY <1>3, <1>4, CreateOpenKept, EndOpenKept
  <2>5. Contested(i) => Contested(i)'
    <3>1. ASSUME NEW q \in Runs, Opened(q, i) PROVE Opened(q, i)'
      <4>1. CASE q # r
        BY <2>3, <3>1, <4>1, WritersAre DEF Opened
      <4>2. CASE q = r
        <5>1. w[r].at # "picked"
          BY <3>1, <4>2 DEF Opened
        <5>2. w'[r].at = "saving"
          <6>1. Open(r, i, Fresh("completed"), "saving") \/ Open(r, i, Fresh("failed"), "saving")
            BY <1>3, <1>4, <5>1 DEF CreateOpen, Returns, FailOpen
          <6> QED BY <1>1, <6>1 DEF Open
        <5> QED BY <2>3, <4>2, <5>2 DEF Opened
      <4> QED BY <4>1, <4>2
    <3> QED BY <3>1 DEF Contested, Opened
  <2>6. BoardChange(i)
    BY <2>3, <2>5 DEF BoardChange
  <2> QED BY <2>3, <2>4, <2>6, StepAt
<1>5. CASE CreateDump(r) \/ Finish(r)
  <2>1. PICK next \in {"working", "ended"} :
           Dump(r, next) /\ w[r].at = IF next = "working" THEN "creating" ELSE "saving"
    BY <1>5 DEF CreateDump, Finish
  <2>2. /\ \A j \in Ids \ {i} : disk'[j].job = disk[j].job
        /\ pages' = pages
        /\ \A j \in Ids \ {i}, q \in Writers : Quiet(q, j)
    BY <1>1, <1>3, <2>1, DumpEffect DEF BoardInv
  <2>3. ~Contested(i)' => Kept(i)' /\ ~Contested(i) /\ disk'[i].job = w[r].job
    BY <1>3, <1>5, RunDumpKept
  <2>4. BoardChange(i)
    <3>1. SUFFICES ASSUME ~Contested(i)' PROVE BoardChange(i)
      BY DEF BoardChange
    <3>2. Opened(r, i)
      BY <1>3, <2>1 DEF Opened
    <3>3. Fits(r, i)
      BY <2>3, <3>1, <3>2, Owned
    <3>4. CASE next = "working"
      <4>1. disk[i].job = NoJob /\ disk'[i].job = Fresh("running")
        BY <2>1, <2>3, <3>1, <3>3, <3>4 DEF Fits
      <4> QED BY <2>3, <3>1, <4>1, FreshFields DEF BoardChange
    <3>5. CASE next = "ended"
      <4>1. disk[i].job = Fresh("running") /\ disk'[i].job \in {Fresh("completed"), Fresh("failed")}
        BY <2>1, <2>3, <3>1, <3>3, <3>5 DEF Fits
      <4> QED BY <2>3, <3>1, <4>1, FreshFields DEF BoardChange, Finished
    <3> QED BY <3>4, <3>5
  <2> QED BY <2>2, <2>3, <2>4, StepAt
<1> QED BY <1>4, <1>5 DEF Step

LEMMA DeskFiles == ASSUME BoardInv, Decide PROVE Keeps
<1>1. Desk \in Writers /\ w[Desk] \in Writer /\ w[Desk].at \in {"loaded", "saving"}
  BY WritersAre DEF BoardInv, JobsInv, TypeOK, Decide, DecisionOpen, DecisionDump
<1>2. w[Desk].id \in Ids /\ w[Desk].job \in Job
  BY <1>1 DEF BoardInv, JobsInv, HeldInv, Writer
<1>3. PICK i \in Ids : w[Desk].id = i
  BY <1>2
<1>4. CASE DecisionOpen
  <2>1. Open(Desk, i, w[Desk].job, "saving")
    BY <1>3, <1>4 DEF DecisionOpen
  <2>2. /\ \A j \in Ids : disk'[j].job = disk[j].job
        /\ pages' = pages
        /\ \A j \in Ids \ {i}, q \in Writers : Quiet(q, j)
        /\ \A q \in Writers \ {Desk} : w'[q].at = w[q].at /\ w'[q].id = w[q].id
    BY <1>1, <1>2, <1>3, <2>1, OpenEffect DEF BoardInv
  <2>3. Contested(i)' <=> Contested(i)
    BY <1>1, <2>2, WritersAre, SameOpeners
  <2>4. ~Contested(i)' => Kept(i)'
    BY <1>3, <1>4, DecisionOpenKept
  <2>5. BoardChange(i)
    BY <2>2, <2>3 DEF BoardChange
  <2> QED BY <2>2, <2>4, <2>5, StepAt
<1>5. CASE DecisionDump
  <2>1. Dump(Desk, "idle")
    BY <1>5 DEF DecisionDump
  <2>2. /\ \A j \in Ids \ {i} : disk'[j].job = disk[j].job
        /\ pages' = pages
        /\ \A j \in Ids \ {i}, q \in Writers : Quiet(q, j)
    BY <1>1, <1>3, <2>1, DumpEffect DEF BoardInv
  <2>3. ~Contested(i)' => /\ Kept(i)' /\ ~Contested(i)
                          /\ disk'[i].job = w[Desk].job /\ InHand(i)
    BY <1>3, <1>5, DecisionDumpKept
  <2>4. ~Contested(i) /\ InHand(i) =>
            /\ disk[i].job.status = "completed"
            /\ w[Desk].job.status = "completed" /\ w[Desk].job.verdict \in Verdicts
    BY DEF BoardInv, KeptInv, Kept
  <2>5. BoardChange(i)
    BY <2>3, <2>4 DEF BoardChange
  <2> QED BY <2>2, <2>3, <2>5, StepAt
<1> QED BY <1>4, <1>5 DEF Decide

LEMMA OpenJobKeeps == ASSUME BoardInv, NEW i \in Ids, OpenJob(i) PROVE Keeps
<1>1. /\ UNCHANGED <<disk, w>> /\ pages' = pages \cup {i}
      /\ disk[i].job.status = "completed"
  BY FreshFields DEF OpenJob
<1>2. \A j \in Ids, p \in Writers : Quiet(p, j)
  BY <1>1 DEF Quiet
<1>3. Contested(i)' <=> Contested(i)
  BY <1>2, QuietOpeners
<1>4. ~Contested(i)' => Kept(i)'
  <2>1. SUFFICES ASSUME ~Contested(i)' PROVE Kept(i)'
    OBVIOUS
  <2>2. Kept(i)
    BY <1>3, <2>1 DEF BoardInv, KeptInv
  <2> QED BY <1>1, <2>2 DEF Kept, InHand, Writing, Opened, Fits
<1>5. BoardChange(i)
  BY <1>1, <1>3 DEF BoardChange
<1> QED BY <1>1, <1>2, <1>4, <1>5, StepAt

\* The page offers a decision only on a job whose record it saw completed.
LEMMA JobDecisionKeeps ==
    ASSUME BoardInv, ~AnyClient, NEW i \in Ids, NEW v \in Verdicts, JobDecision(i, v)
    PROVE  Keeps
<1>1. /\ UNCHANGED <<disk, pages>> /\ i \in pages
      /\ w' = [w EXCEPT ![Desk] = [at |-> "loaded", id |-> i, shared |-> FALSE,
                                   job |-> [disk[i].job EXCEPT !.verdict = v]]]
      /\ Desk \in Writers /\ w[Desk].at = "idle" /\ disk[i].job \in Job
  BY WritersAre DEF JobDecision, LoopIsFree, BoardInv, JobsInv, TypeOK
<1>2. /\ w'[Desk].at = "loaded" /\ w'[Desk].id = i
      /\ w'[Desk].job.verdict = v /\ w'[Desk].job.status = disk[i].job.status
      /\ \A q \in Writers : q # Desk => w'[q] = w[q]
  BY <1>1 DEF BoardInv, JobsInv, TypeOK, Job
<1>3. \A j \in Ids \ {i}, p \in Writers : Quiet(p, j)
  BY <1>1, <1>2 DEF Quiet, Aside
<1>4. /\ \A r \in Runs : Opened(r, i)' <=> Opened(r, i)
      /\ Contested(i)' <=> Contested(i)
  BY <1>1, <1>2, WritersAre, SameOpeners
<1>5. ~Contested(i)' => Kept(i)'
  <2>1. SUFFICES ASSUME ~Contested(i)' PROVE Kept(i)'
    OBVIOUS
  <2>2. Kept(i) /\ disk[i].job.status = "completed"
    BY <1>1, <1>4, <2>1 DEF BoardInv, KeptInv, Kept
  <2>3. \A p \in Writers : Writing(p, i)' => p # Desk /\ w'[p] = w[p]
    BY <1>2 DEF Writing
  <2>4. \A p \in Writers : Writing(p, i)' => ~w'[p].shared
    BY <2>2, <2>3 DEF Writing, Kept
  <2>5. \A r \in Runs : Opened(r, i)' => Fits(r, i)'
    BY <1>1, <1>2, <1>4, <2>2, WritersAre DEF Kept, Fits
  <2> QED BY <1>1, <1>2, <1>4, <2>2, <2>4, <2>5 DEF Kept, InHand
<1>6. BoardChange(i)
  BY <1>1, <1>4 DEF BoardChange
<1> QED BY <1>1, <1>3, <1>5, <1>6, StepAt

-----------------------------------------------------------------------------
(* The theorems *)

LEMMA PlaceNext == ASSUME BoardInv, Next PROVE PlaceInv'
<1>0. \A p \in Writers : w[p] \in Writer
  BY DEF BoardInv, JobsInv, TypeOK
\* p alone moves, to where it may be.
<1>1. ASSUME NEW p \in Writers,
             \A q \in Writers \ {p} : w'[q].at = w[q].at /\ w'[q].id = w[q].id /\ w'[q].job = w[q].job,
             p # Desk => /\ w'[p].at # "new"
                         /\ w'[p].at = "creating" => w'[p].job = Fresh("running"),
             p = Desk => w'[p].at \in {"idle", "loaded", "saving"}
      PROVE  PlaceInv'
  BY <1>1, WritersAre DEF BoardInv, PlaceInv
<1>2. ASSUME NEW r \in Runs, Submit(r) PROVE PlaceInv'
  <2>1. w'[r].at = "picked" /\ \A q \in Writers \ {r} : w'[q] = w[q]
    BY <1>0, <1>2, WritersAre DEF Submit, BoardInv, JobsInv, TypeOK, Writer
  <2> QED BY <1>1, <2>1, WritersAre
<1>3. ASSUME NEW p \in Writers, NEW i \in Ids, w[p].id = i, NEW job \in Job, NEW at,
             Open(p, i, job, at),
             p # Desk => at # "new" /\ (at = "creating" => job = Fresh("running")),
             p = Desk => at = "saving"
      PROVE  PlaceInv'
  <2>1. /\ w'[p].at = at /\ w'[p].job = job
        /\ \A q \in Writers \ {p} :
              w'[q].at = w[q].at /\ w'[q].id = w[q].id /\ w'[q].job = w[q].job
    BY <1>3, OpenEffect DEF BoardInv
  <2> QED BY <1>1, <1>3, <2>1
<1>4. ASSUME NEW p \in Writers, NEW next, Dump(p, next),
             p # Desk => next \in {"working", "ended"}, p = Desk => next = "idle"
      PROVE  PlaceInv'
  <2>1. w' = [w EXCEPT ![p].at = next, ![p].shared = FALSE]
    BY <1>4 DEF Dump
  <2>2. w'[p].at = next /\ w'[p].job = w[p].job /\ \A q \in Writers \ {p} : w'[q] = w[q]
    BY <1>0, <1>4, <2>1 DEF BoardInv, JobsInv, TypeOK, Writer
  <2> QED BY <1>1, <1>4, <2>2
<1>5. \A p \in Writers : w[p].at \notin {"new", "idle", "gone"} => w[p].id \in Ids
  BY <1>0 DEF BoardInv, JobsInv, HeldInv, Writer
<1>6. ASSUME NEW r \in Runs, CreateOpen(r) \/ Returns(r) \/ FailOpen(r) PROVE PlaceInv'
  <2>1. w[r].id \in Ids /\ r \in Writers
    BY <1>5, <1>6, WritersAre DEF CreateOpen, Returns, FailOpen
  <2> QED BY <1>3, <1>6, <2>1, FreshType, WritersAre DEF CreateOpen, Returns, FailOpen, Finished
<1>7. ASSUME NEW r \in Runs, CreateDump(r) \/ Finish(r) PROVE PlaceInv'
  BY <1>4, <1>7, WritersAre DEF CreateDump, Finish
<1>8. ASSUME NEW r \in Runs, Raises(r) \/ SaveRaises(r) \/ Disconnect(r) \/ CliDies(r)
      PROVE  PlaceInv'
  <2>1. r \in Writers /\ w[r] \in Writer
    BY <1>0, WritersAre
  <2>2. \A q \in Writers \ {r} : w'[q] = w[q]
    BY <1>8, <2>1 DEF Raises, SaveRaises, Disconnect, CliDies, Go, BoardInv, JobsInv, TypeOK
  <2>3. \/ w'[r] = Gone(r)
        \/ w'[r] = [w[r] EXCEPT !.at = "gone"]
        \/ w'[r] = [w[r] EXCEPT !.at = "failing"]
        \/ w'[r] = [w[r] EXCEPT !.at = "failing", !.shared = FALSE]
    BY <1>8, <2>1 DEF Raises, SaveRaises, Disconnect, CliDies, Go, BoardInv, JobsInv, TypeOK
  <2>4. w'[r].at \in {"gone", "failing"}
    BY <2>1, <2>3 DEF Gone, Writer
  <2> QED BY <1>1, <2>1, <2>2, <2>4, WritersAre
<1>9. ASSUME NEW i \in Ids, OpenJob(i) PROVE PlaceInv'
  BY <1>9 DEF OpenJob, BoardInv, PlaceInv
<1>10. ASSUME NEW i \in Ids, NEW v \in Verdicts, JobDecision(i, v) PROVE PlaceInv'
  <2>1. w'[Desk].at = "loaded" /\ \A q \in Writers \ {Desk} : w'[q] = w[q]
    BY <1>10, WritersAre DEF JobDecision, BoardInv, JobsInv, TypeOK
  <2> QED BY <1>1, <2>1, WritersAre
<1>11. CASE Decide
  <2>1. CASE DecisionOpen
    <3>1. w[Desk].id \in Ids /\ w[Desk].job \in Job
      BY <1>0, <1>5, <2>1, WritersAre DEF DecisionOpen, Writer
    <3> QED BY <1>3, <2>1, <3>1, WritersAre DEF DecisionOpen
  <2>2. CASE DecisionDump
    BY <1>4, <2>2, WritersAre DEF DecisionDump
  <2> QED BY <1>11, <2>1, <2>2 DEF Decide
<1>12. CASE GatewayDies
  <2>1. ASSUME NEW p \in Runs
        PROVE  w'[p] = w[p] \/ w'[p].at = "gone"
    <3>1. w'[p] = w[p] \/ w'[p] = Gone(p)
      BY <1>12, <2>1, WritersAre DEF GatewayDies
    <3> QED BY <1>0, <3>1, WritersAre DEF Gone, Writer
  <2>2. w'[Desk].at = "idle"
    <3>1. w'[Desk] = [w[Desk] EXCEPT !.at = "idle", !.shared = FALSE]
      BY <1>12, WritersAre DEF GatewayDies, Runs
    <3> QED BY <1>0, <3>1, WritersAre DEF Writer
  <2> QED BY <2>1, <2>2 DEF BoardInv, PlaceInv
<1>13. CASE DecisionRaises
  <2>1. w' = [w EXCEPT ![Desk] = [@ EXCEPT !.at = "idle", !.shared = FALSE]]
    BY <1>13, <1>0, WritersAre DEF DecisionRaises, BoardInv, JobsInv, TypeOK
  <2>2. w'[Desk].at = "idle" /\ \A q \in Writers \ {Desk} : w'[q] = w[q]
    BY <2>1, <1>0, WritersAre DEF BoardInv, JobsInv, TypeOK, Writer
  <2> QED BY <1>1, <2>2, WritersAre
<1> QED BY <1>2, <1>6, <1>7, <1>8, <1>9, <1>10, <1>11, <1>12, <1>13 DEF Next, Step

LEMMA BoardNext ==
    ASSUME ~AnyClient, BoardInv, [Next]_vars
    PROVE  BoardInv' /\ [Board!Next]_<<BoardStatus, BoardVerdict>>
<1>1. JobsInv'
  BY JobsNext DEF BoardInv
<1>2. CASE UNCHANGED vars
  <2>1. PlaceInv' /\ KeptInv'
    BY <1>2 DEF vars, BoardInv, PlaceInv, KeptInv, Kept, Contested, InHand, Writing, Opened, Fits
  <2>2. UNCHANGED <<BoardStatus, BoardVerdict>>
    BY <1>2 DEF vars, BoardStatus, BoardVerdict, Contested
  <2> QED BY <1>1, <2>1, <2>2 DEF BoardInv
<1>3. CASE Next
  <2>1. PlaceInv'
    BY <1>3, PlaceNext
  <2>2. Keeps
    <3>1. CASE \E r \in Runs : Submit(r) \/ Step(r) \/ SaveRaises(r) \/ Disconnect(r) \/ CliDies(r)
      BY <3>1, SubmitQuiet, TroubleQuiet, RunFiles
    <3>2. CASE \E i \in Ids : OpenJob(i)
      BY <3>2, OpenJobKeeps
    <3>3. CASE \E i \in Ids, v \in Verdicts : JobDecision(i, v)
      BY <3>3, JobDecisionKeeps
    <3>4. CASE Decide \/ DecisionRaises \/ GatewayDies
      BY <3>4, DeskFiles, CutQuiet, GatewayQuiet
    <3> QED BY <1>3, <3>1, <3>2, <3>3, <3>4 DEF Next
  <2> QED BY <1>1, <2>1, <2>2 DEF BoardInv, Keeps
<1> QED BY <1>2, <1>3

LEMMA BoardInvHolds == ASSUME ~AnyClient PROVE Spec => []BoardInv
<1>1. Init => BoardInv
  BY JobsInit, BoardInit DEF BoardInv
<1>2. BoardInv /\ [Next]_vars => BoardInv'
  BY BoardNext
<1> QED BY <1>1, <1>2, PTL DEF Spec

-----------------------------------------------------------------------------
(* The end in the file *)

\* The file of j loads, a decision is rewriting it, or one was cut short in it.
Whole(j) ==
    \/ disk[j].text = "saved"
    \/ disk[j].text = "torn" /\ Writing(Desk, j)
    \/ disk[j].text = "cut"

EndKept(j) == \A r \in Runs : Opened(r, j) /\ w[r].at = "ended" => Whole(j)

EndInv == \A j \in Ids : ~Contested(j) => EndKept(j)

\* A step: for the files I it changes the claim is shown apart; the others, the
\* decisions in them and the runs that opened them stay as they are.
LEMMA EndSteps ==
    ASSUME EndInv, NEW I \in SUBSET Ids, \A i \in I : ~Contested(i)' => EndKept(i)',
           \A j \in Ids \ I : disk'[j] = disk[j] /\ (Writing(Desk, j) => Writing(Desk, j)'),
           \A r \in Runs :
              /\ w[r].at # "picked" /\ w[r].id \in Ids
                    => w'[r].id = w[r].id /\ w'[r].at # "picked"
              /\ w'[r].at = "ended" /\ w'[r].id \notin I
                    => w[r].at = "ended" /\ w'[r].id = w[r].id
    PROVE  EndInv'
<1>1. ASSUME NEW j \in Ids \ I, ~Contested(j)' PROVE EndKept(j)'
  <2>1. \A r \in Runs : Opened(r, j) => Opened(r, j)'
    BY DEF Opened
  <2>2. ~Contested(j)
    BY <1>1, <2>1 DEF Contested, Opened
  <2>3. ASSUME NEW r \in Runs, Opened(r, j)', w'[r].at = "ended" PROVE Whole(j)'
    <3>1. Opened(r, j) /\ w[r].at = "ended"
      BY <1>1, <2>3 DEF Opened
    <3>2. Whole(j)
      BY <2>2, <3>1 DEF EndInv, EndKept
    <3>3. disk'[j].text = disk[j].text /\ (Writing(Desk, j) => Writing(Desk, j)')
      OBVIOUS
    <3> QED BY <3>2, <3>3 DEF Whole
  <2> QED BY <2>3 DEF EndKept
<1> QED BY <1>1 DEF EndInv

LEMMA EndOpen ==
    ASSUME BoardInv, EndInv, NEW p \in Writers, NEW i \in Ids, NEW job \in Job, NEW at,
           Open(p, i, job, at), w[p].id = i, at \notin {"ended", "picked"},
           p = Desk => at = "saving" /\ w[p].at = "loaded"
    PROVE  EndInv'
<1>1. /\ w'[p].at = at /\ w'[p].id = i
      /\ \A q \in Writers \ {p} : w'[q].at = w[q].at /\ w'[q].id = w[q].id
  BY OpenEffect DEF BoardInv
<1>2. disk'[i].text = "torn" /\ \A j \in Ids \ {i} : disk'[j] = disk[j]
  BY DEF Open, BoardInv, JobsInv, TypeOK
<1>3. \A j \in Ids \ {i} : Writing(Desk, j) => Writing(Desk, j)'
  BY <1>1, WritersAre DEF Writing
<1>4. ASSUME NEW r \in Runs
      PROVE  /\ w[r].at # "picked" /\ w[r].id \in Ids
                    => w'[r].id = w[r].id /\ w'[r].at # "picked"
             /\ w'[r].at = "ended" => w[r].at = "ended" /\ w'[r].id = w[r].id
  BY <1>1, WritersAre
\* A run that opens i is alone there; a decision that does is writing it.
<1>5. ASSUME ~Contested(i)', NEW r \in Runs, Opened(r, i)', w'[r].at = "ended" PROVE Whole(i)'
  <2>1. p = Desk
    <3>1. SUFFICES ASSUME p # Desk PROVE FALSE
      OBVIOUS
    <3>2. p \in Runs /\ p # r
      BY <1>1, <1>5, <3>1, WritersAre
    <3>3. w'[p].id = i /\ w'[p].at # "picked" /\ w'[r].id = i /\ w'[r].at # "picked"
      BY <1>1, <1>5 DEF Opened
    <3> QED BY <1>5, <3>2, <3>3 DEF Contested
  <2> QED BY <1>1, <1>2, <2>1 DEF Whole, Writing
<1>6. ~Contested(i)' => EndKept(i)'
  BY <1>5 DEF EndKept
<1> QED BY <1>2, <1>3, <1>4, <1>6, EndSteps, {i} \in SUBSET Ids

\* Nobody else is saving the file of i, so it is written.
LEMMA EndDump ==
    ASSUME BoardInv, EndInv, NEW p \in Writers, NEW next, Dump(p, next), NEW i \in Ids,
           w[p].id = i, next # "picked", w[p].at \in {"creating", "saving"}
    PROVE  EndInv'
<1>1. /\ w'[p].at = next /\ w'[p].id = i
      /\ \A q \in Writers \ {p} : w'[q] = w[q]
  BY DumpEffect DEF BoardInv
<1>2. \A j \in Ids \ {i} : disk'[j] = disk[j]
  BY DEF Dump, BoardInv, JobsInv, TypeOK
<1>3. \A j \in Ids \ {i} : Writing(Desk, j) => Writing(Desk, j)'
  BY <1>1, WritersAre DEF Writing
<1>4. ASSUME NEW r \in Runs
      PROVE  /\ w[r].at # "picked" /\ w[r].id \in Ids
                    => w'[r].id = w[r].id /\ w'[r].at # "picked"
             /\ w'[r].at = "ended" /\ w'[r].id \notin {i}
                    => w[r].at = "ended" /\ w'[r].id = w[r].id
  BY <1>1, WritersAre
<1>5. ASSUME ~Contested(i)' PROVE Whole(i)'
  <2>1. ~Contested(i)
    <3>1. p \in Runs => (Opened(p, i)' <=> Opened(p, i))
      BY <1>1 DEF Opened
    <3> QED BY <1>1, <1>5, <3>1, SameOpeners
  <2>2. Kept(i) /\ Writing(p, i)
    BY <2>1 DEF BoardInv, KeptInv, Writing
  <2>3. ~w[p].shared
    BY <2>2 DEF Kept
  <2>4. disk'[i].text = "saved"
    BY <2>3 DEF Dump, BoardInv, JobsInv, TypeOK
  <2> QED BY <2>4 DEF Whole
<1>6. ~Contested(i)' => EndKept(i)'
  BY <1>5 DEF EndKept
<1> QED BY <1>2, <1>3, <1>4, <1>6, EndSteps, {i} \in SUBSET Ids

\* A step that changes no file, while no decision is being written or goes on.
LEMMA EndCalm ==
    ASSUME BoardInv, EndInv, disk' = disk, w[Desk].at = "saving" => w'[Desk] = w[Desk],
           \A r \in Runs : \/ w'[r] = w[r]
                           \/ /\ w'[r].at \notin {"ended", "picked"}
                              /\ w'[r].id = w[r].id \/ w[r].at = "picked"
                           \/ w[r].id \notin Ids /\ w'[r].at # "ended"
    PROVE  EndInv'
<1>1. \A j \in Ids : Writing(Desk, j) => Writing(Desk, j)'
  <2>1. ASSUME NEW j \in Ids, Writing(Desk, j) PROVE Writing(Desk, j)'
    <3>1. w[Desk].at = "saving"
      BY <2>1 DEF Writing, BoardInv, PlaceInv
    <3> QED BY <2>1, <3>1 DEF Writing
  <2> QED BY <2>1
<1>2. \A r \in Runs :
              /\ w[r].at # "picked" /\ w[r].id \in Ids
                    => w'[r].id = w[r].id /\ w'[r].at # "picked"
              /\ w'[r].at = "ended" /\ w'[r].id \notin {}
                    => w[r].at = "ended" /\ w'[r].id = w[r].id
  OBVIOUS
<1> QED BY <1>1, <1>2, EndSteps, {} \in SUBSET Ids

\* A decision that goes no further leaves its file cut.
LEMMA EndCut ==
    ASSUME BoardInv, EndInv, CutDecision,
           \A r \in Runs : \/ w'[r] = w[r]
                           \/ /\ w'[r].at \notin {"ended", "picked"}
                              /\ w'[r].id = w[r].id \/ w[r].at = "picked"
    PROVE  EndInv'
<1>1. CASE w[Desk].at # "saving"
  <2>1. disk' = disk
    BY <1>1 DEF CutDecision
  <2> QED BY <1>1, <2>1, EndCalm
<1>2. CASE w[Desk].at = "saving"
  <2>1. PICK i \in Ids : w[Desk].id = i
    BY <1>2, WritersAre DEF BoardInv, JobsInv, HeldInv, TypeOK, Writer
  <2>2. disk'[i].text = "cut" /\ \A j \in Ids \ {i} : disk'[j] = disk[j]
    BY <1>2, <2>1 DEF CutDecision, BoardInv, JobsInv, TypeOK
  <2>3. EndKept(i)'
    BY <2>2 DEF EndKept, Whole
  <2>4. \A j \in Ids \ {i} : Writing(Desk, j) => Writing(Desk, j)'
    BY <2>1 DEF Writing
  <2>5. \A r \in Runs :
              /\ w[r].at # "picked" /\ w[r].id \in Ids
                    => w'[r].id = w[r].id /\ w'[r].at # "picked"
              /\ w'[r].at = "ended" /\ w'[r].id \notin {i}
                    => w[r].at = "ended" /\ w'[r].id = w[r].id
    OBVIOUS
  <2> QED BY <2>2, <2>3, <2>4, <2>5, EndSteps, {i} \in SUBSET Ids
<1> QED BY <1>1, <1>2

LEMMA EndTrouble ==
    ASSUME BoardInv, EndInv, NEW r \in Runs,
           Raises(r) \/ SaveRaises(r) \/ Disconnect(r) \/ CliDies(r)
    PROVE  EndInv'
<1>1. w[r] \in Writer /\ r \in Writers /\ r # Desk
  BY WritersAre DEF BoardInv, JobsInv, TypeOK
<1>2. disk' = disk /\ \A q \in Writers : q # r => w'[q] = w[q]
  BY <1>1 DEF Raises, SaveRaises, Disconnect, CliDies, Go, BoardInv, JobsInv, TypeOK
<1>3. \/ w'[r] = Gone(r)
      \/ w'[r] = [w[r] EXCEPT !.at = "gone"]
      \/ w'[r] = [w[r] EXCEPT !.at = "failing"]
      \/ w'[r] = [w[r] EXCEPT !.at = "failing", !.shared = FALSE]
  BY <1>1 DEF Raises, SaveRaises, Disconnect, CliDies, Go, BoardInv, JobsInv, TypeOK
<1>4. /\ w'[r].at \notin {"ended", "picked"}
      /\ w'[r].id = w[r].id \/ w[r].at = "picked"
  BY <1>1, <1>3 DEF Gone, Writer
<1>5. w'[Desk] = w[Desk] /\ \A q \in Runs : q # r => w'[q] = w[q]
  BY <1>1, <1>2, WritersAre
<1> QED BY <1>2, <1>4, <1>5, EndCalm

LEMMA EndNext == ASSUME BoardInv, EndInv, [Next]_vars PROVE EndInv'
<1>0. \A p \in Writers : w[p] \in Writer
  BY DEF BoardInv, JobsInv, TypeOK
<1>1. \A p \in Writers : w[p].at \notin {"new", "idle", "gone"} => w[p].id \in Ids
  BY <1>0 DEF BoardInv, JobsInv, HeldInv, Writer
<1>2. CASE UNCHANGED vars
  BY <1>2, EndCalm DEF vars
<1>3. ASSUME NEW r \in Runs, Submit(r) PROVE EndInv'
  <2>1. /\ disk' = disk /\ r \in Writers /\ r # Desk
        /\ w' = [w EXCEPT ![r].at = "picked", ![r].id = NextJob] /\ w[r].at = "new"
    BY <1>3, WritersAre DEF Submit
  <2>2. w'[r].at = "picked" /\ \A q \in Writers : q # r => w'[q] = w[q]
    BY <1>0, <2>1 DEF BoardInv, JobsInv, TypeOK, Writer
  <2>3. w[r].id \notin Ids
    BY <1>3, <2>1, WritersAre DEF BoardInv, PlaceInv
  <2>4. w'[Desk] = w[Desk] /\ \A q \in Runs : q # r => w'[q] = w[q]
    BY <2>1, <2>2, WritersAre
  <2> QED BY <2>1, <2>2, <2>3, <2>4, EndCalm
<1>4. ASSUME NEW r \in Runs, CreateOpen(r) \/ Returns(r) \/ FailOpen(r) PROVE EndInv'
  <2>1. PICK s \in {"running"} \cup Finished, at \in {"creating", "saving"} :
           Open(r, w[r].id, Fresh(s), at)
    BY <1>4 DEF CreateOpen, Returns, FailOpen, Finished
  <2>2. w[r].id \in Ids /\ r \in Writers /\ r # Desk /\ Fresh(s) \in Job
    BY <1>1, <1>4, WritersAre, FreshType DEF CreateOpen, Returns, FailOpen
  <2> QED BY <2>1, <2>2, EndOpen
<1>5. ASSUME NEW r \in Runs, CreateDump(r) \/ Finish(r) PROVE EndInv'
  <2>1. PICK next \in {"working", "ended"} : Dump(r, next) /\ w[r].at \in {"creating", "saving"}
    BY <1>5 DEF CreateDump, Finish
  <2>2. w[r].id \in Ids /\ r \in Writers
    BY <1>1, <2>1, WritersAre
  <2> QED BY <2>1, <2>2, EndDump
<1>6. ASSUME NEW i \in Ids, OpenJob(i) PROVE EndInv'
  BY <1>6, EndCalm DEF OpenJob
<1>7. ASSUME NEW i \in Ids, NEW v \in Verdicts, JobDecision(i, v) PROVE EndInv'
  <2>1. disk' = disk /\ w[Desk].at = "idle" /\ \A q \in Runs : w'[q] = w[q]
    BY <1>7, WritersAre DEF JobDecision, LoopIsFree, BoardInv, JobsInv, TypeOK
  <2> QED BY <2>1, EndCalm
<1>8. CASE DecisionOpen
  <2>1. w[Desk].id \in Ids /\ w[Desk].job \in Job /\ w[Desk].at = "loaded"
    BY <1>0, <1>1, <1>8, WritersAre DEF DecisionOpen, Writer
  <2>2. Open(Desk, w[Desk].id, w[Desk].job, "saving")
    BY <1>8 DEF DecisionOpen
  <2> QED BY <2>1, <2>2, WritersAre, EndOpen
<1>9. CASE DecisionDump
  <2>1. w[Desk].id \in Ids /\ w[Desk].at = "saving" /\ Dump(Desk, "idle")
    BY <1>0, <1>1, <1>9, WritersAre DEF DecisionDump
  <2> QED BY <2>1, WritersAre, EndDump
<1>10. CASE DecisionRaises
  <2>1. \A q \in Runs : w'[q] = w[q]
    BY <1>10, WritersAre DEF DecisionRaises, BoardInv, JobsInv, TypeOK
  <2> QED BY <1>10, <2>1, EndCut DEF DecisionRaises
<1>11. CASE GatewayDies
  <2>1. ASSUME NEW r \in Runs
        PROVE  \/ w'[r] = w[r]
               \/ /\ w'[r].at \notin {"ended", "picked"}
                  /\ w'[r].id = w[r].id \/ w[r].at = "picked"
    <3>1. w'[r] = w[r] \/ w'[r] = Gone(r)
      BY <1>11, WritersAre DEF GatewayDies
    <3> QED BY <1>0, <3>1, WritersAre DEF Gone, Writer
  <2> QED BY <1>11, <2>1, EndCut DEF GatewayDies
<1>12. ASSUME NEW r \in Runs, Raises(r) \/ SaveRaises(r) \/ Disconnect(r) \/ CliDies(r)
       PROVE  EndInv'
  BY <1>12, EndTrouble
<1> QED BY <1>2, <1>3, <1>4, <1>5, <1>6, <1>7, <1>8, <1>9, <1>10, <1>11, <1>12
        DEF Next, Step, Decide

\* The file of a run that ended says so, unless a decision is rewriting it or
\* was cut short in it, if decisions are taken on the web page: the endpoint
\* itself would also take one on a running job, and save it as running after
\* its end.
THEOREM EndIsRecordedHolds == ASSUME ~AnyClient PROVE Spec => []EndIsRecorded
<1>1. Init => EndInv
  <2>1. ASSUME Init, NEW r \in Runs PROVE w[r].at # "ended"
    BY <2>1, WritersAre DEF Init
  <2> QED BY <2>1 DEF EndInv, EndKept
<1>2. BoardInv /\ EndInv /\ [Next]_vars => EndInv'
  BY EndNext
<1>3. BoardInv /\ EndInv => EndIsRecorded
  <2>1. SUFFICES ASSUME BoardInv, EndInv, NEW r \in Runs, w[r].at = "ended", Alone(r),
                        NEW i \in Ids, w[r].id = i
                 PROVE  \/ disk[i].text = "saved" /\ disk[i].job.status \in Finished
                        \/ disk[i].text = "torn" /\ Writing(Desk, i)
                        \/ disk[i].text = "cut"
    BY WritersAre DEF EndIsRecorded, Alone, BoardInv, JobsInv, TypeOK, Writer
  <2>2. ~Contested(i) /\ Opened(r, i)
    BY <2>1 DEF Contested, Opened, Alone
  <2>3. Fits(r, i) /\ Whole(i)
    BY <2>1, <2>2, Owned DEF EndInv, EndKept
  <2> QED BY <2>1, <2>3 DEF Fits, Whole
<1> QED BY <1>1, <1>2, <1>3, BoardInvHolds, PTL DEF Spec

\* The readable records implement the board, for any number of founder jobs,
\* CLI runs, restarts and decisions taken on the web page.
THEOREM BoardRefinement == ASSUME ~AnyClient PROVE Spec => ImplementsBoard
<1>1. Init => Board!Init
  <2> SUFFICES ASSUME Init PROVE Board!Init
    OBVIOUS
  <2>1. ASSUME NEW r \in Runs PROVE w[r].id = 0
    BY WritersAre DEF Init
  <2>2. \A i \in Ids : ~Contested(i)
    BY <2>1, WritersAre DEF Contested
  <2>3. \A i \in Ids : ~Contested(i) /\ disk[i].job = NoJob
    BY <2>2 DEF Init
  <2> QED BY <2>3, FreshFields DEF Board!Init
<1>2. Spec => [][Board!Next]_<<BoardStatus, BoardVerdict>>
  BY BoardInvHolds, BoardNext, PTL DEF Spec
<1>3. Spec => Board!Init
  BY <1>1 DEF Spec
<1> QED BY <1>2, <1>3, PTL DEF ImplementsBoard, Board!Spec, BoardStatus, BoardVerdict

-----------------------------------------------------------------------------
(* Decisions of the business review *)

\* In log f the separator is line s, the loader's end of the table e, the writer's m.
Table(f, s, e, m) ==
    /\ f \in Seq(ToSet(f))
    /\ s \in DOMAIN f /\ 1 < s
    /\ \A i \in DOMAIN f : f[i].kind = "separator" <=> i = s
    /\ e \in 1 .. Len(f) + 1 /\ s < e
    /\ e \in DOMAIN f => f[e].kind \in {"boundary", "rule"}
    /\ \A i \in DOMAIN f : s < i /\ i < e => f[i].kind \notin {"boundary", "rule"}
    /\ m \in DOMAIN f /\ f[m].kind \in {"boundary", "separator"}
    /\ \A i \in DOMAIN f : m < i => f[i].kind \notin {"boundary", "separator"}
    /\ m = e => f[s - 1].kind = "header"

\* The rows of f, wherever they stand, have numbers, none above b.
Numbered(f, b) == \A i \in DOMAIN f : f[i].kind = "row" => f[i].row.id \in Nat /\ f[i].row.id <= b

\* Decision d has a row in the table, or outside of it where the ends differ, and
\* no other row has its number.
Landed(f, s, e, m, d) ==
    /\ d.id \in Nat \ {0}
    /\ \E i \in DOMAIN f : /\ f[i].kind = "row" /\ f[i].row = AsRow(d)
                           /\ IF m = e THEN s < i /\ i < e ELSE i < s \/ e <= i
    /\ \A i, k \in DOMAIN f : f[i].kind = "row" /\ f[i].row.id = d.id
                              /\ f[k].kind = "row" /\ f[k].row.id = d.id => i = k

LogInv ==
    \E s, e, m, b \in Nat :
        /\ Table(log, s, e, m)
        /\ Numbered(log, b)
        /\ \A n \in DOMAIN answered : Landed(log, s, e, m, answered[n])
        /\ acting # None => Landed(log, s, e, m, acting.decision)

ReviewInv == answered \in Seq(ToSet(answered)) /\ LogInv

\* A sequence is one of every set that has its elements.
LEMMA OwnElements ==
    ASSUME NEW X, NEW g \in Seq(X), NEW Y, \A i \in DOMAIN g : g[i] \in Y
    PROVE  g \in Seq(Y)
<1>1. Len(g) \in Nat /\ DOMAIN g = 1 .. Len(g) /\ g = [i \in 1 .. Len(g) |-> g[i]]
  OBVIOUS
<1> QED BY <1>1

\* Sequence g is f with x put before element e.
Insertion(g, f, e, x) ==
    /\ g \in Seq(ToSet(g)) /\ Len(f) \in Nat
    /\ DOMAIN f = 1 .. Len(f) /\ DOMAIN g = 1 .. Len(f) + 1
    /\ \A i \in 1 .. e - 1 : g[i] = f[i]
    /\ g[e] = x
    /\ \A i \in e + 1 .. Len(f) + 1 : g[i] = f[i - 1]

LEMMA Inserted ==
    ASSUME NEW f, f \in Seq(ToSet(f)), NEW e \in DOMAIN f, NEW x
    PROVE  Insertion(InsertAt(f, e, x), f, e, x)
<1>0. PICK g : g = InsertAt(f, e, x)
  OBVIOUS
<1> DEFINE X == ToSet(f) \cup {x}
           a == SubSeq(f, 1, e - 1)
           c == SubSeq(f, e, Len(f))
<1>1. /\ f \in Seq(X) /\ Len(f) \in Nat /\ DOMAIN f = 1 .. Len(f)
      /\ e \in 1 .. Len(f) /\ e \in Nat /\ x \in X
  OBVIOUS
<1>2. /\ a \in Seq(X) /\ Len(a) = e - 1 /\ \A i \in 1 .. e - 1 : a[i] = f[i]
  BY <1>1, SubSeqProperties
<1>3. /\ c \in Seq(X) /\ Len(c) = Len(f) - e + 1 /\ \A i \in 1 .. Len(f) - e + 1 : c[i] = f[e + i - 1]
  BY <1>1, SubSeqProperties
<1> HIDE DEF X, a, c
<1>4. <<x>> \in Seq(X) /\ Len(<<x>>) = 1 /\ <<x>>[1] = x
  BY <1>1
<1>5. PICK p : p = a \o <<x>>
  OBVIOUS
<1>6. p \in Seq(X) /\ Len(p) = e /\ (\A i \in 1 .. e - 1 : p[i] = f[i]) /\ p[e] = x
  BY <1>1, <1>2, <1>4, <1>5, ConcatProperties
<1>7. g = p \o c
  BY <1>0, <1>5 DEF InsertAt, a, c
<1>8. g \in Seq(X) /\ Len(g) = Len(p) + Len(c)
      /\ \A i \in 1 .. Len(p) + Len(c) : g[i] = IF i <= Len(p) THEN p[i] ELSE c[i - Len(p)]
  <2>1. p \in Seq(X) /\ c \in Seq(X)
    BY <1>3, <1>6
  <2> QED BY <1>7, <2>1, ConcatProperties
<1>9. Len(g) = Len(f) + 1
  BY <1>1, <1>3, <1>6, <1>8
<1>10. DOMAIN g = 1 .. Len(f) + 1
  <2>1. DOMAIN g = 1 .. Len(g)
    BY <1>8
  <2> QED BY <1>9, <2>1
<1>11. \A i \in 1 .. e : g[i] = p[i]
  BY <1>1, <1>6, <1>8, <1>9
<1>12. \A i \in e + 1 .. Len(f) + 1 : g[i] = f[i - 1]
  <2> SUFFICES ASSUME NEW i \in e + 1 .. Len(f) + 1 PROVE g[i] = f[i - 1]
    OBVIOUS
  <2>1. i \in Int /\ i - e \in 1 .. Len(f) - e + 1 /\ e + (i - e) - 1 = i - 1
    BY <1>1
  <2>2. i \in 1 .. Len(f) + 1 /\ ~ (i <= e)
    BY <1>1
  <2>4. Len(p) = e /\ Len(p) + Len(c) = Len(f) + 1
    BY <1>8, <1>9, <1>6
  <2>3. g[i] = IF i <= Len(p) THEN p[i] ELSE c[i - Len(p)]
    BY <1>8, <2>2, <2>4
  <2> QED BY <2>1, <2>2, <2>3, <2>4, <1>3
<1>13. g \in Seq(ToSet(g))
  <2>1. g \in Seq(X)
    BY <1>8
  <2>2. \A i \in DOMAIN g : g[i] \in ToSet(g)
    BY DEF ToSet
  <2> QED BY <2>1, <2>2, OwnElements
<1>14. \A i \in 1 .. e - 1 : g[i] = f[i]
  BY <1>1, <1>6, <1>11
<1>15. g[e] = x
  BY <1>1, <1>6, <1>11
<1>16. Insertion(g, f, e, x)
  BY <1>1, <1>10, <1>12, <1>13, <1>14, <1>15 DEF Insertion
<1> QED BY <1>0, <1>16, Zenon

LEMMA RowIs == \A d : AsRow(d).id = d.id /\ AsRow(d).complete = TRUE
BY DEF AsRow

\* The ends of the table are what the loader and the writer find.
LEMMA EndsAre ==
    ASSUME NEW f, NEW s, NEW e, NEW m, Table(f, s, e, m)
    PROVE  Separator(f) = s /\ LoaderEnd(f) = e /\ WriterEnd(f) = m
<1>1. Len(f) \in Nat /\ DOMAIN f = 1 .. Len(f)
  BY DEF Table
<1>2. Separator(f) = s
  BY DEF Table, Separator
<1>3. LoaderEnd(f) = e
  <2> DEFINE closing == {i \in DOMAIN f : i > s /\ f[i].kind \in {"boundary", "rule"}}
                          \cup {Len(f) + 1}
  <2>1. e \in closing /\ closing \subseteq Nat /\ \A i \in closing : e <= i
    BY <1>1 DEF Table
  <2>2. LoaderEnd(f) = Min(closing)
    BY <1>2 DEF LoaderEnd
  <2> HIDE DEF closing
  <2>3. PICK x : x = Min(closing)
    OBVIOUS
  <2>4. x \in closing /\ \A i \in closing : x <= i
    BY <2>1, <2>3 DEF Min
  <2>5. x \in Nat /\ e \in Nat /\ x <= e /\ e <= x
    BY <2>1, <2>4
  <2> QED BY <2>2, <2>3, <2>5
<1>4. WriterEnd(f) = m
  <2> DEFINE dashes == {i \in DOMAIN f : f[i].kind \in {"boundary", "separator"}}
  <2>1. m \in dashes /\ dashes \subseteq Nat /\ \A i \in dashes : i <= m
    BY <1>1 DEF Table
  <2>2. WriterEnd(f) = Max(dashes)
    BY DEF WriterEnd
  <2> HIDE DEF dashes
  <2>3. PICK x : x = Max(dashes)
    OBVIOUS
  <2>4. x \in dashes /\ \A i \in dashes : x >= i
    BY <2>1, <2>3 DEF Max
  <2>5. x \in Nat /\ m \in Nat /\ x <= m /\ m <= x
    BY <2>1, <2>4
  <2> QED BY <2>2, <2>3, <2>5
<1> QED BY <1>2, <1>3, <1>4

\* The writer's end is the separator, or no line before the loader's end.
LEMMA WriterEndIs ==
    ASSUME NEW f, NEW s, NEW e, NEW m, Table(f, s, e, m)
    PROVE  /\ s \in Nat /\ e \in Nat /\ m \in Nat
           /\ (m = s /\ m < e) \/ (s < m /\ e <= m)
<1>1. Len(f) \in Nat /\ DOMAIN f = 1 .. Len(f) /\ s \in Nat /\ e \in Nat /\ m \in Nat
  BY DEF Table
<1>2. s <= m
  BY <1>1 DEF Table
<1>3. ASSUME s < m, m < e PROVE FALSE
  <2>1. f[m].kind = "boundary"
    BY <1>1, <1>3 DEF Table
  <2> QED BY <1>1, <1>3, <2>1 DEF Table
<1> QED BY <1>1, <1>2, <1>3 DEF Table

\* A log with a separator has a table in this sense.
LEMMA TableExists ==
    ASSUME NEW f, f \in Seq(ToSet(f)), IsLog(f)
    PROVE  \E s, e, m \in Nat : Table(f, s, e, m)
<1>1. PICK n : n = Len(f)
  OBVIOUS
<1>2. n \in Nat /\ DOMAIN f = 1 .. n
  BY <1>1
<1>3. PICK s \in DOMAIN f : /\ s > 1 /\ f[s - 1].kind = "header"
                            /\ \A i \in DOMAIN f : f[i].kind = "separator" <=> i = s
  BY DEF IsLog
<1>4. s \in Nat /\ s <= n
  BY <1>2
<1>5. PICK C : C = {i \in 1 .. n : i > s /\ f[i].kind \in {"boundary", "rule"}} \cup {n + 1}
  OBVIOUS
<1>6. PICK e \in C : \A i \in C : e <= i
  <2>1. C \subseteq Nat /\ C # {}
    BY <1>2, <1>5
  <2> QED BY <2>1, LeastExists
<1>7. /\ e \in 1 .. n + 1 /\ s < e
      /\ e \in DOMAIN f => f[e].kind \in {"boundary", "rule"}
      /\ \A i \in DOMAIN f : s < i /\ i < e => f[i].kind \notin {"boundary", "rule"}
  <2>1. e = n + 1 \/ (e \in 1 .. n /\ e > s /\ f[e].kind \in {"boundary", "rule"})
    BY <1>5
  <2>2. ASSUME NEW i \in DOMAIN f, s < i, i < e PROVE f[i].kind \notin {"boundary", "rule"}
    <3> SUFFICES ASSUME f[i].kind \in {"boundary", "rule"} PROVE FALSE
      OBVIOUS
    <3>1. i \in C
      BY <1>2, <1>5, <2>2
    <3>2. e <= i /\ i \in Nat /\ e \in Nat
      BY <1>2, <1>6, <2>1, <3>1
    <3> QED BY <2>2, <3>2
  <2> QED BY <1>2, <1>4, <2>1, <2>2
<1>8. PICK D : D = {i \in 1 .. n : f[i].kind \in {"boundary", "separator"}}
  OBVIOUS
<1>9. PICK m \in D : \A i \in D : i <= m
  <2>1. D \subseteq Nat /\ s \in D
    BY <1>2, <1>3, <1>8
  <2>2. Bounded(D)
    <3>1. \A i \in D : i <= n
      BY <1>2, <1>8
    <3> QED BY <1>2, <3>1 DEF Bounded
  <2>3. D # {}
    BY <2>1
  <2> QED BY <2>1, <2>2, <2>3, GreatestExists
<1>10. /\ m \in DOMAIN f /\ f[m].kind \in {"boundary", "separator"}
       /\ \A i \in DOMAIN f : m < i => f[i].kind \notin {"boundary", "separator"}
  <2>1. m \in 1 .. n /\ f[m].kind \in {"boundary", "separator"}
    BY <1>8
  <2>2. ASSUME NEW i \in DOMAIN f, m < i PROVE f[i].kind \notin {"boundary", "separator"}
    <3> SUFFICES ASSUME f[i].kind \in {"boundary", "separator"} PROVE FALSE
      OBVIOUS
    <3>1. i \in D
      BY <1>2, <1>8
    <3>2. i <= m /\ i \in Nat /\ m \in Nat
      BY <1>2, <1>9, <2>1, <3>1
    <3> QED BY <2>2, <3>2
  <2> QED BY <1>2, <2>1, <2>2
<1>11. Table(f, s, e, m)
  BY <1>1, <1>2, <1>3, <1>4, <1>7, <1>10 DEF Table
<1> QED BY <1>11, WriterEndIs

\* Finitely many numbers have a bound.
LEMMA FinitelyMany ==
    ASSUME NEW n \in Nat, NEW r \in [1 .. n -> Nat]
    PROVE  \E b \in Nat : \A i \in 1 .. n : r[i] <= b
<1> DEFINE T == {k \in 0 .. n : \A b \in Nat : \E i \in 1 .. k : r[i] > b}
<1>1. T \subseteq Nat /\ \A k \in 0 .. n : k \in T <=> \A b \in Nat : \E i \in 1 .. k : r[i] > b
  OBVIOUS
<1>5. \A k \in T : k \in 0 .. n
  OBVIOUS
<1> HIDE DEF T
<1>2. T = {}
  <2> SUFFICES ASSUME T # {} PROVE FALSE
    OBVIOUS
  <2>1. PICK k \in T : \A l \in T : k <= l
    BY <1>1, LeastExists
  <2>2. k \in 0 .. n /\ k # 0
    <3>1. 0 \in 0 .. n /\ 0 \notin T
      BY <1>1
    <3> QED BY <1>5, <3>1
  <2>3. k - 1 \in 0 .. n /\ k - 1 \notin T
    BY <2>1, <2>2
  <2>4. PICK b \in Nat : \A i \in 1 .. k - 1 : ~ (r[i] > b)
    BY <1>1, <2>3
  <2>5. k \in 1 .. n /\ r[k] \in Nat
    BY <2>2
  <2>6. b + r[k] \in Nat
    BY <2>5
  <2>7. PICK i \in 1 .. k : r[i] > b + r[k]
    BY <1>1, <2>2, <2>6
  <2>8. i = k \/ i \in 1 .. k - 1
    BY <2>2
  <2>9. r[i] \in Nat /\ (i = k \/ ~ (r[i] > b))
    BY <2>2, <2>4, <2>8
  <2> QED BY <2>5, <2>7, <2>9
<1>3. PICK b \in Nat : \A i \in 1 .. n : ~ (r[i] > b)
  <2>1. n \in 0 .. n /\ n \notin T
    BY <1>2
  <2> QED BY <1>1, <2>1
<1>4. \A i \in 1 .. n : r[i] \in Nat /\ r[i] <= b
  BY <1>3
<1> QED BY <1>4

\* The numbers of the rows of a log have a bound.
LEMMA RowsAreBounded ==
    ASSUME NEW X, NEW f \in Seq(X), \A i \in DOMAIN f : f[i].kind = "row" => f[i].row.id \in Nat
    PROVE  \E b \in Nat : Numbered(f, b)
<1>1. Len(f) \in Nat /\ DOMAIN f = 1 .. Len(f)
  OBVIOUS
<1>2. PICK r : r = [i \in 1 .. Len(f) |-> IF f[i].kind = "row" THEN f[i].row.id ELSE 0]
  OBVIOUS
<1>3. r \in [1 .. Len(f) -> Nat]
  BY <1>1, <1>2
<1>4. PICK b \in Nat : \A i \in 1 .. Len(f) : r[i] <= b
  BY <1>1, <1>3, FinitelyMany
<1> QED BY <1>1, <1>2, <1>4 DEF Numbered

\* A number that the pattern reads whole is that of no row.
LEMMA NextDecisionIsNew ==
    ASSUME NEW b \in Nat, Numbered(log, b), NextDecisionId <= MaxDecisions
    PROVE  /\ NextDecisionId \in Nat \ {0}
           /\ \A i \in DOMAIN log : log[i].kind = "row" => log[i].row.id # NextDecisionId
<1>1. PICK S : S = {log[i].row.id : i \in {j \in DOMAIN log : log[j].kind = "row"}}
  OBVIOUS
<1>2. S \subseteq Nat /\ \A n \in S : n <= b
  BY <1>1 DEF Numbered
<1>3. \A i \in DOMAIN log : log[i].kind = "row" => log[i].row.id \in S
  BY <1>1
<1>4. Bounded(S)
  BY <1>2 DEF Bounded
<1>5. PICK x : x = NextDecisionId
  OBVIOUS
<1>6. x = NextLogId(S)
  BY <1>1, <1>5 DEF NextDecisionId
<1>7. x \in Nat /\ \A n \in S : n < IdLimit => n < x
  BY <1>2, <1>4, <1>6, NextLogIdIsNew
<1>8. x # 0
  <2>1. PICK C : C = {Captured(n) : n \in S}
    OBVIOUS
  <2>2. C \subseteq Nat /\ \A n \in C : n <= b
    <3>1. \A n \in S : Captured(n) \in Nat /\ Captured(n) <= n
      BY <1>2, CapturedIsLess
    <3>2. ASSUME NEW c \in C PROVE c \in Nat /\ c <= b
      <4>1. PICK n \in S : c = Captured(n)
        BY <2>1
      <4>2. n \in Nat /\ n <= b
        BY <1>2
      <4> QED BY <3>1, <4>1, <4>2
    <3> QED BY <3>2
  <2>3. Bounded(C)
    BY <2>2 DEF Bounded
  <2>4. Highest(C) \in Nat
    BY <2>2, <2>3, HighestIsGreatest
  <2>5. x = Highest(C) + 1
    BY <1>6, <2>1 DEF NextLogId
  <2> QED BY <2>4, <2>5
<1>9. x < IdLimit
  <2>1. MaxDecisions \in Nat /\ MaxDecisions < IdLimit /\ IdLimit \in Nat
    BY ReviewAssumption, IdAssumption
  <2> QED BY <1>5, <1>7, <2>1
<1>10. ASSUME NEW i \in DOMAIN log, log[i].kind = "row" PROVE log[i].row.id # x
  <2>1. log[i].row.id \in S /\ log[i].row.id \in Nat
    BY <1>2, <1>3, <1>10
  <2> QED BY <1>7, <1>9, <2>1
<1> QED BY <1>5, <1>7, <1>8, <1>10

\* Where the lines of a table are when a row was put before line m.
SeparatorThen(s, m) == IF m = s THEN s + 1 ELSE s
EndThen(e, m)       == IF m <= e THEN e + 1 ELSE e

LEMMA TableGrows ==
    ASSUME NEW f, NEW s, NEW e, NEW m, Table(f, s, e, m),
           NEW x, x.kind = "row", NEW g, g = InsertAt(f, m, x)
    PROVE  Table(g, SeparatorThen(s, m), EndThen(e, m), m + 1)
<1>1. PICK n : n = Len(f)
  OBVIOUS
<1>2. /\ g \in Seq(ToSet(g)) /\ n \in Nat /\ DOMAIN f = 1 .. n /\ DOMAIN g = 1 .. n + 1
      /\ \A i \in 1 .. m - 1 : g[i] = f[i]
      /\ g[m] = x
      /\ \A i \in m + 1 .. n + 1 : g[i] = f[i - 1]
  <2>1. f \in Seq(ToSet(f)) /\ m \in DOMAIN f /\ g = InsertAt(f, m, x)
    BY DEF Table
  <2>2. Insertion(InsertAt(f, m, x), f, m, x)
    BY <2>1, Inserted, Zenon
  <2>3. Insertion(g, f, m, x)
    BY <2>1, <2>2, Zenon
  <2> QED BY <1>1, <2>3 DEF Insertion
<1>3. Len(g) = n + 1
  BY <1>2
<1>4. /\ s \in Nat /\ e \in Nat /\ m \in Nat
      /\ (m = s /\ m < e) \/ (s < m /\ e <= m)
  BY WriterEndIs
<1>5. s \in 1 .. n /\ 1 < s /\ e \in 1 .. n + 1 /\ s < e /\ m \in 1 .. n
  BY <1>1, <1>2 DEF Table
<1>6. ASSUME NEW i \in DOMAIN g
      PROVE  \/ i = m /\ g[i] = x
             \/ i < m /\ i \in DOMAIN f /\ g[i] = f[i]
             \/ i > m /\ i - 1 \in DOMAIN f /\ g[i] = f[i - 1]
  <2>1. i \in Nat /\ (i \in 1 .. m - 1 \/ i = m \/ i \in m + 1 .. n + 1)
    BY <1>2, <1>5
  <2> QED BY <1>2, <1>5, <2>1
<1>7. \A i \in DOMAIN g : i \in Nat
  BY <1>2
<1> DEFINE t == SeparatorThen(s, m)
           u == EndThen(e, m)
<1>8. t \in Nat /\ u \in Nat /\ t \in DOMAIN g /\ 1 < t /\ u \in 1 .. n + 2 /\ t < u
  BY <1>2, <1>4, <1>5 DEF SeparatorThen, EndThen
<1>9. ASSUME NEW i \in DOMAIN g PROVE g[i].kind = "separator" <=> i = t
  <2>1. CASE i = m
    BY <1>4, <1>6, <2>1 DEF SeparatorThen
  <2>2. CASE i < m /\ i \in DOMAIN f /\ g[i] = f[i]
    <3>1. g[i].kind = "separator" <=> i = s
      BY <2>2 DEF Table
    <3> QED BY <1>4, <1>7, <2>2, <3>1 DEF SeparatorThen
  <2>3. CASE i > m /\ i - 1 \in DOMAIN f /\ g[i] = f[i - 1]
    <3>1. g[i].kind = "separator" <=> i - 1 = s
      BY <2>3 DEF Table
    <3> QED BY <1>4, <1>7, <2>3, <3>1 DEF SeparatorThen
  <2> QED BY <1>6, <2>1, <2>2, <2>3
<1>10. ASSUME u \in DOMAIN g PROVE g[u].kind \in {"boundary", "rule"}
  <2>1. CASE m <= e
    <3>1. u = e + 1 /\ u - 1 = e /\ u > m
      BY <1>4, <2>1 DEF EndThen
    <3>2. e \in DOMAIN f /\ g[u] = f[e]
      BY <1>2, <1>5, <1>10, <3>1
    <3> QED BY <3>2 DEF Table
  <2>2. CASE ~ (m <= e)
    <3>1. u = e /\ e < m /\ e \in DOMAIN f
      BY <1>2, <1>4, <1>5, <2>2 DEF EndThen
    <3>2. g[u] = f[e]
      BY <1>2, <1>5, <3>1
    <3> QED BY <3>1, <3>2 DEF Table
  <2> QED BY <2>1, <2>2
<1>11. ASSUME NEW i \in DOMAIN g, t < i, i < u PROVE g[i].kind \notin {"boundary", "rule"}
  <2>1. CASE i = m
    BY <1>2, <2>1
  <2>2. CASE i < m /\ i \in DOMAIN f /\ g[i] = f[i]
    <3>1. s < i /\ i < e
      BY <1>4, <1>7, <1>11, <2>2 DEF SeparatorThen, EndThen
    <3> QED BY <2>2, <3>1 DEF Table
  <2>3. CASE i > m /\ i - 1 \in DOMAIN f /\ g[i] = f[i - 1]
    <3>1. s < i - 1 /\ i - 1 < e
      BY <1>4, <1>7, <1>11, <2>3 DEF SeparatorThen, EndThen
    <3> QED BY <2>3, <3>1 DEF Table
  <2> QED BY <1>6, <2>1, <2>2, <2>3
<1>12. m + 1 \in DOMAIN g /\ g[m + 1].kind \in {"boundary", "separator"}
  <2>1. m + 1 \in m + 1 .. n + 1 /\ (m + 1) - 1 = m
    BY <1>2, <1>5
  <2>2. g[m + 1] = f[m]
    BY <1>2, <2>1
  <2> QED BY <1>2, <1>5, <2>2 DEF Table
<1>13. ASSUME NEW i \in DOMAIN g, m + 1 < i PROVE g[i].kind \notin {"boundary", "separator"}
  <2>1. i > m /\ i # m /\ ~ (i < m) /\ i - 1 > m
    BY <1>4, <1>7, <1>13
  <2>2. i - 1 \in DOMAIN f /\ g[i] = f[i - 1]
    BY <1>6, <2>1
  <2> QED BY <2>1, <2>2 DEF Table
<1>14. ASSUME m + 1 = u PROVE g[t - 1].kind = "header"
  <2>1. m = e /\ t = s
    BY <1>4, <1>14 DEF SeparatorThen, EndThen
  <2>2. s - 1 \in 1 .. m - 1
    BY <1>4, <1>5, <2>1
  <2>3. g[t - 1] = f[s - 1]
    BY <1>2, <2>1, <2>2
  <2> QED BY <2>1, <2>3 DEF Table
<1> HIDE DEF t, u
<1>15. Table(g, t, u, m + 1)
  BY <1>2, <1>3, <1>8, <1>9, <1>10, <1>11, <1>12, <1>13, <1>14 DEF Table
<1> QED BY <1>15 DEF t, u

\* A decision with a new number lands, and what had landed stays where it is.
LEMMA LandedGrows ==
    ASSUME NEW f, NEW s, NEW e, NEW m, Table(f, s, e, m), NEW b \in Nat, Numbered(f, b),
           NEW d, d.id \in Nat \ {0},
           \A i \in DOMAIN f : f[i].kind = "row" => f[i].row.id # d.id,
           NEW g, g = InsertAt(f, m, Row(AsRow(d)))
    PROVE  /\ \E c \in Nat : Numbered(g, c)
           /\ Landed(g, SeparatorThen(s, m), EndThen(e, m), m + 1, d)
           /\ \A a : Landed(f, s, e, m, a)
                       => Landed(g, SeparatorThen(s, m), EndThen(e, m), m + 1, a)
<1>1. PICK x : x = Row(AsRow(d))
  OBVIOUS
<1>2. x.kind = "row" /\ x.row = AsRow(d) /\ x.row.id = d.id
  BY <1>1, RowIs DEF Row
<1>3. PICK n : n = Len(f)
  OBVIOUS
<1>4. /\ n \in Nat /\ DOMAIN f = 1 .. n /\ DOMAIN g = 1 .. n + 1
      /\ \A i \in 1 .. m - 1 : g[i] = f[i]
      /\ g[m] = x
      /\ \A i \in m + 1 .. n + 1 : g[i] = f[i - 1]
  <2>1. f \in Seq(ToSet(f)) /\ m \in DOMAIN f /\ g = InsertAt(f, m, x)
    BY <1>1 DEF Table
  <2>2. Insertion(InsertAt(f, m, x), f, m, x)
    BY <2>1, Inserted, Zenon
  <2>3. Insertion(g, f, m, x)
    BY <2>1, <2>2, Zenon
  <2> QED BY <1>3, <2>3 DEF Insertion
<1>5. /\ s \in Nat /\ e \in Nat /\ m \in Nat
      /\ (m = s /\ m < e) \/ (s < m /\ e <= m)
  BY WriterEndIs
<1>6. m \in 1 .. n
  BY <1>4 DEF Table
\* The line of f that a line of g other than the new one comes from.
<1> DEFINE from(i) == IF i < m THEN i ELSE i - 1
<1>7. ASSUME NEW i \in DOMAIN g, i # m
      PROVE  g[i] = f[from(i)] /\ from(i) \in DOMAIN f /\ i \in Nat /\ from(i) \in Nat
  <2>1. i \in Nat /\ (i \in 1 .. m - 1 \/ i \in m + 1 .. n + 1)
    BY <1>4, <1>6, <1>7
  <2> QED BY <1>4, <1>6, <2>1
<1>8. \A i, k \in DOMAIN g : i # m /\ k # m /\ from(i) = from(k) => i = k
  BY <1>4, <1>6
<1>9. ASSUME NEW k \in DOMAIN f
      PROVE  \E i \in DOMAIN g : i # m /\ g[i] = f[k] /\ i = IF k < m THEN k ELSE k + 1
  <2>1. k \in 1 .. n
    BY <1>4
  <2>2. CASE k < m
    BY <1>4, <1>6, <2>1, <2>2
  <2>3. CASE ~ (k < m)
    <3>1. k + 1 \in m + 1 .. n + 1 /\ (k + 1) - 1 = k
      <4>1. k \in Int /\ m \in Int /\ k <= n /\ m <= k
        BY <1>4, <1>6, <2>1, <2>3
      <4> QED BY <1>4, <4>1
    <3>2. g[k + 1] = f[k] /\ k + 1 \in DOMAIN g /\ k + 1 # m
      BY <1>4, <1>6, <3>1
    <3> QED BY <2>3, <3>2
  <2> QED BY <2>2, <2>3
<1> HIDE DEF from
<1> DEFINE t == SeparatorThen(s, m)
           u == EndThen(e, m)
<1>10. /\ t \in Nat /\ u \in Nat
       /\ IF m = e THEN m + 1 = u /\ t = s /\ t < m /\ m < u
                   ELSE m + 1 # u /\ (m < t \/ u <= m)
  BY <1>5 DEF SeparatorThen, EndThen
<1>11. ASSUME NEW k \in Nat, NEW i \in Nat, i = IF k < m THEN k ELSE k + 1,
              IF m = e THEN s < k /\ k < e ELSE k < s \/ e <= k
       PROVE  IF m + 1 = u THEN t < i /\ i < u ELSE i < t \/ u <= i
  BY <1>5, <1>11 DEF SeparatorThen, EndThen
<1> HIDE DEF t, u
<1>12. ASSUME NEW i \in DOMAIN g, i # m, g[i].kind = "row"
       PROVE  g[i].row.id \in Nat /\ g[i].row.id <= b /\ g[i].row.id # d.id
  BY <1>7, <1>12 DEF Numbered
<1>13. \E c \in Nat : Numbered(g, c)
  <2>1. PICK c \in Nat : b <= c /\ d.id <= c
    <3>1. b + d.id \in Nat /\ b <= b + d.id /\ d.id <= b + d.id
      OBVIOUS
    <3> QED BY <3>1
  <2>2. ASSUME NEW i \in DOMAIN g, g[i].kind = "row" PROVE g[i].row.id \in Nat /\ g[i].row.id <= c
    <3>1. CASE i = m
      BY <1>2, <1>4, <2>1, <3>1
    <3>2. CASE i # m
      <4>1. g[i].row.id \in Nat /\ g[i].row.id <= b
        BY <1>12, <2>2, <3>2
      <4> QED BY <2>1, <4>1
    <3> QED BY <3>1, <3>2
  <2> QED BY <2>2 DEF Numbered
<1>14. Landed(g, t, u, m + 1, d)
  <2>1. m \in DOMAIN g /\ g[m].kind = "row" /\ g[m].row = AsRow(d)
    BY <1>2, <1>4, <1>6
  <2>2. IF m + 1 = u THEN t < m /\ m < u ELSE m < t \/ u <= m
    BY <1>10
  <2>3. ASSUME NEW i \in DOMAIN g, g[i].kind = "row", g[i].row.id = d.id PROVE i = m
    BY <1>12, <2>3
  <2> QED BY <2>1, <2>2, <2>3 DEF Landed
<1>15. ASSUME NEW a, Landed(f, s, e, m, a) PROVE Landed(g, t, u, m + 1, a)
  <2>1. a.id \in Nat \ {0}
    BY <1>15 DEF Landed
  <2>2. PICK k \in DOMAIN f : /\ f[k].kind = "row" /\ f[k].row = AsRow(a)
                              /\ IF m = e THEN s < k /\ k < e ELSE k < s \/ e <= k
    BY <1>15 DEF Landed
  <2>3. PICK i \in DOMAIN g : i # m /\ g[i] = f[k] /\ i = IF k < m THEN k ELSE k + 1
    BY <1>9
  <2>4. k \in Nat /\ i \in Nat
    BY <1>4
  <2>5. IF m + 1 = u THEN t < i /\ i < u ELSE i < t \/ u <= i
    BY <1>11, <2>2, <2>3, <2>4
  <2>6. a.id # d.id
    BY <2>2, RowIs
  <2>7. ASSUME NEW j \in DOMAIN g, NEW l \in DOMAIN g,
               g[j].kind = "row", g[j].row.id = a.id, g[l].kind = "row", g[l].row.id = a.id
        PROVE  j = l
    <3>1. j # m /\ l # m
      BY <1>2, <1>4, <2>6, <2>7
    <3>2. /\ f[from(j)].kind = "row" /\ f[from(j)].row.id = a.id /\ from(j) \in DOMAIN f
          /\ f[from(l)].kind = "row" /\ f[from(l)].row.id = a.id /\ from(l) \in DOMAIN f
      BY <1>7, <2>7, <3>1
    <3>3. from(j) = from(l)
      BY <1>15, <3>2 DEF Landed
    <3> QED BY <1>8, <3>1, <3>3
  <2>8. g[i].kind = "row" /\ g[i].row = AsRow(a)
    BY <2>2, <2>3
  <2> QED BY <2>1, <2>5, <2>7, <2>8 DEF Landed
<1> QED BY <1>13, <1>14, <1>15 DEF t, u

LEMMA ReviewStarts == ReviewInit => ReviewInv
<1> SUFFICES ASSUME ReviewInit PROVE ReviewInv
  OBVIOUS
<1>1. log \in Seq(ToSet(log)) /\ IsLog(log) /\ answered = <<>> /\ acting = None
  BY ReviewAssumption DEF ReviewInit
<1>2. PICK s \in Nat, e \in Nat, m \in Nat : Table(log, s, e, m)
  BY <1>1, TableExists
<1>3. PICK b \in Nat : Numbered(log, b)
  BY <1>1, RowsAreBounded DEF IsLog
<1>4. answered \in Seq(ToSet(answered)) /\ DOMAIN answered = {}
  BY <1>1
<1> QED BY <1>1, <1>2, <1>3, <1>4 DEF ReviewInv, LogInv

\* act_on_recommendation: the row of the decision has landed once it is written.
LEMMA ActKeeps ==
    ASSUME ReviewInv, NEW rec, NEW action, NEW create, Act(rec, action, create)
    PROVE  ReviewInv'
<1>1. PICK d : /\ d.id = NextDecisionId
               /\ log' = Appended(d)
               /\ acting' # None => acting'.decision = d
               /\ answered' = answered
  <2>1. PICK r : LET d == [id |-> NextDecisionId, rec |-> rec, subject |-> r.subject,
                           status |-> Status(action)]
                 IN /\ log' = Appended(d)
                    /\ acting' = [decision |-> d, create |-> create /\ action = "approve"]
    BY DEF Act
  <2>2. answered' = answered
    BY DEF Act
  <2> QED BY <2>1, <2>2
<1>2. PICK s \in Nat, e \in Nat, m \in Nat, b \in Nat :
        /\ Table(log, s, e, m) /\ Numbered(log, b)
        /\ \A n \in DOMAIN answered : Landed(log, s, e, m, answered[n])
  BY DEF ReviewInv, LogInv
<1>3. NextDecisionId <= MaxDecisions
  BY DEF Act
<1>4. /\ d.id \in Nat \ {0}
      /\ \A i \in DOMAIN log : log[i].kind = "row" => log[i].row.id # d.id
  BY <1>1, <1>2, <1>3, NextDecisionIsNew
<1>5. log' = InsertAt(log, m, Row(AsRow(d)))
  <2>1. WriterEnd(log) = m
    BY <1>2, EndsAre
  <2> QED BY <1>1, <2>1 DEF Appended
<1>6. PICK t, u : t = SeparatorThen(s, m) /\ u = EndThen(e, m)
  OBVIOUS
<1>7. t \in Nat /\ u \in Nat /\ m + 1 \in Nat
  BY <1>6 DEF SeparatorThen, EndThen
<1>8. Table(log', t, u, m + 1)
  <2>1. PICK x : x = Row(AsRow(d))
    OBVIOUS
  <2>2. x.kind = "row" /\ log' = InsertAt(log, m, x)
    BY <1>5, <2>1 DEF Row
  <2> QED BY <1>2, <1>6, <2>2, TableGrows
<1>9. /\ \E c \in Nat : Numbered(log', c)
      /\ Landed(log', t, u, m + 1, d)
      /\ \A a : Landed(log, s, e, m, a) => Landed(log', t, u, m + 1, a)
  BY <1>2, <1>4, <1>5, <1>6, LandedGrows
<1>10. /\ \A n \in DOMAIN answered' : Landed(log', t, u, m + 1, answered'[n])
       /\ acting' # None => Landed(log', t, u, m + 1, acting'.decision)
  BY <1>1, <1>2, <1>9
<1>11. LogInv'
  BY <1>7, <1>8, <1>9, <1>10 DEF LogInv
<1>12. answered' \in Seq(ToSet(answered)')
  BY <1>1 DEF ReviewInv
<1> QED BY <1>11, <1>12 DEF ReviewInv

\* The decision in hand is answered for.
LEMMA AnswerKeeps ==
    ASSUME ReviewInv, Answer
    PROVE  ReviewInv'
<1>1. acting # None /\ answered' = Append(answered, acting.decision) /\ acting' = None /\ log' = log
  BY DEF Answer
<1>2. PICK s \in Nat, e \in Nat, m \in Nat, b \in Nat :
        /\ Table(log, s, e, m) /\ Numbered(log, b)
        /\ \A n \in DOMAIN answered : Landed(log, s, e, m, answered[n])
        /\ Landed(log, s, e, m, acting.decision)
  BY <1>1 DEF ReviewInv, LogInv
<1>3. PICK d : d = acting.decision
  OBVIOUS
<1>4. PICK X : X = ToSet(answered) \cup {d}
  OBVIOUS
<1>5. answered \in Seq(X) /\ answered' = Append(answered, d)
  BY <1>1, <1>3, <1>4 DEF ReviewInv
<1>6. /\ answered' \in Seq(X)
      /\ \A n \in DOMAIN answered' : answered'[n] = d \/ (n \in DOMAIN answered /\ answered'[n] = answered[n])
  BY <1>4, <1>5
<1>7. answered' \in Seq(ToSet(answered)')
  <2>1. \A n \in DOMAIN answered' : answered'[n] \in ToSet(answered)'
    BY DEF ToSet
  <2> QED BY <1>6, <2>1, OwnElements
<1>8. \A n \in DOMAIN answered' : Landed(log, s, e, m, answered'[n])
  BY <1>2, <1>3, <1>6
<1>9. LogInv'
  BY <1>1, <1>2, <1>8 DEF LogInv
<1> QED BY <1>7, <1>9 DEF ReviewInv

LEMMA ReviewSteps ==
    ASSUME ReviewInv, [ReviewNext]_reviewVars
    PROVE  ReviewInv'
<1>1. ASSUME log' = log, answered' = answered, acting' = acting \/ acting' = None
      PROVE  ReviewInv'
  BY <1>1 DEF ReviewInv, LogInv
<1>2. CASE \E rec \in Shown, r \in Requests : Act(rec, r[1], r[2])
  BY <1>2, ActKeeps
<1>3. CASE Answer
  BY <1>3, AnswerKeeps
<1>4. CASE ShowBrief \/ Crash
  BY <1>1, <1>4 DEF ShowBrief, Crash
<1>5. CASE AddRow \/ RewriteKpi \/ DropRow \/ Learn
  <2>1. Edit
    BY <1>5 DEF AddRow, RewriteKpi, DropRow, Learn
  <2> QED BY <1>1, <2>1 DEF Edit
<1>6. CASE UNCHANGED reviewVars \/ \E rec \in Shown : Refuse(rec)
  <2>1. UNCHANGED reviewVars
    BY <1>6 DEF Refuse
  <2> QED BY <1>1, <2>1 DEF reviewVars
<1> QED BY <1>2, <1>3, <1>4, <1>5, <1>6 DEF ReviewNext

\* For any tables, edits, crashes and rows, up to the number that the pattern of
\* the ids reads whole: a decision answered for is read back once by every later
\* review where the writer and the loader find the same end of the table, and by
\* none where they do not.
THEOREM DecisionsKept == ReviewSpec => []KeptWhereEndsMeet
<1>1. ReviewInv => KeptWhereEndsMeet
  <2> SUFFICES ASSUME ReviewInv, NEW n \in DOMAIN answered
               PROVE  ReadBack(answered[n]) = IF EndsMeet(log) THEN 1 ELSE 0
    BY DEF KeptWhereEndsMeet
  <2>1. PICK d : d = answered[n]
    OBVIOUS
  <2>2. PICK s \in Nat, e \in Nat, m \in Nat : Table(log, s, e, m) /\ Landed(log, s, e, m, d)
    BY <2>1 DEF ReviewInv, LogInv
  <2>3. Separator(log) = s /\ LoaderEnd(log) = e /\ WriterEnd(log) = m
    BY <2>2, EndsAre
  <2>4. PICK R : R = ReadRows(log)
    OBVIOUS
  <2>5. R = {j \in DOMAIN log :
               s < j /\ j < e /\ log[j].kind = "row" /\ log[s - 1].kind = "header"}
    BY <2>3, <2>4 DEF ReadRows
  <2>6. \A j \in R : j \in DOMAIN log /\ log[j].kind = "row" /\ s < j /\ j < e
    BY <2>5
  <2>7. PICK i \in DOMAIN log : /\ log[i].kind = "row" /\ log[i].row = AsRow(d)
                                /\ IF m = e THEN s < i /\ i < e ELSE i < s \/ e <= i
    BY <2>2 DEF Landed
  <2>8. i \in Nat /\ d.id \in Nat \ {0}
    BY <2>2 DEF Table, Landed
  <2>9. \A j \in DOMAIN log : log[j].kind = "row" /\ log[j].row.id = d.id => j = i
    BY <2>2, <2>7, RowIs DEF Landed
  <2>10. LoadedDecisions = {k \in R : /\ log[k].row.id # 0 /\ log[k].row.complete
                                      /\ \A j \in R : j < k => log[j].row.id # log[k].row.id}
    BY <2>4 DEF LoadedDecisions
  <2>11. \A k \in LoadedDecisions : log[k].row = AsRow(d) => k = i
    BY <2>6, <2>9, <2>10, RowIs
  <2>12. CASE m = e
    <3>1. i \in R
      <4>1. log[s - 1].kind = "header"
        BY <2>2, <2>12 DEF Table
      <4> QED BY <2>5, <2>7, <2>12, <4>1
    <3>2. log[i].row.id = d.id /\ log[i].row.id # 0 /\ log[i].row.complete
      BY <2>7, <2>8, RowIs
    <3>3. \A j \in R : j < i => log[j].row.id # log[i].row.id
      BY <2>6, <2>8, <2>9, <3>2
    <3>4. i \in LoadedDecisions
      BY <2>10, <3>1, <3>2, <3>3
    <3>5. {k \in LoadedDecisions : log[k].row = AsRow(d)} = {i}
      BY <2>7, <2>11, <3>4
    <3>6. Cardinality({i}) = 1
      BY FS_Singleton
    <3> QED BY <2>1, <2>3, <2>12, <3>5, <3>6 DEF ReadBack, EndsMeet
  <2>13. CASE m # e
    <3>1. i \notin R
      BY <2>6, <2>7, <2>8, <2>13
    <3>2. {k \in LoadedDecisions : log[k].row = AsRow(d)} = {}
      BY <2>10, <2>11, <3>1
    <3>3. Cardinality({}) = 0
      BY FS_EmptySet
    <3> QED BY <2>1, <2>3, <2>13, <3>2, <3>3 DEF ReadBack, EndsMeet
  <2> QED BY <2>12, <2>13
<1>2. ReviewInit => ReviewInv
  BY ReviewStarts
<1>3. ReviewInv /\ [ReviewNext]_reviewVars => ReviewInv'
  BY ReviewSteps
<1> QED BY <1>1, <1>2, <1>3, PTL DEF ReviewSpec

-----------------------------------------------------------------------------
(* What a review recommends *)

ReviewTyped ==
    /\ kpis \in Seq(KpiRows)
    /\ bottlenecks \in Seq(BottleneckRows) /\ opportunities \in Seq(OpportunityRows)
    /\ evidence \in Nat /\ lessons \in Seq({"experiment", "review"})
    /\ brief = None \/ brief.status \in {"failed", "completed", "completed_with_warnings"}
    /\ rowLost \in BOOLEAN /\ edits \in 0 .. MaxEdits

Complete(rows) == {i \in DOMAIN rows : rows[i].complete}

LEMMA LoadedKpisAre ==
    ASSUME ReviewTyped
    PROVE  /\ LoadedKpis = Only(kpis, Complete(kpis)) /\ LoadedKpis \in Seq(KpiRows)
           /\ Complete(kpis) \subseteq DOMAIN kpis
           /\ DOMAIN LoadedKpis = 1 .. Cardinality(Complete(kpis))
<1>1. LoadedKpis = Only(kpis, Complete(kpis))
  BY DEF LoadedKpis, Complete
<1>2. kpis \in Seq(KpiRows) /\ Complete(kpis) \subseteq DOMAIN kpis
  BY DEF ReviewTyped, Complete
<1>3. /\ Only(kpis, Complete(kpis)) \in Seq(KpiRows)
      /\ DOMAIN Only(kpis, Complete(kpis)) = 1 .. Cardinality(Complete(kpis))
  BY ONLY <1>2, OnlyIs
<1> QED BY <1>1, <1>2, <1>3

\* A filter keeps a list of rows a list of rows.
LEMMA LoadedIn ==
    ASSUME NEW X, NEW rows \in Seq(X)
    PROVE  Loaded(rows) \in Seq(X)
<1>1. PICK I : I = {i \in DOMAIN rows :
                      rows[i].complete /\ \A j \in 1 .. i - 1 : rows[j].id # rows[i].id}
  OBVIOUS
<1>2. I \subseteq DOMAIN rows /\ rows \in Seq(X)
  BY <1>1
<1>3. Only(rows, I) \in Seq(X)
  BY ONLY <1>2, OnlyIs
<1> QED BY <1>1, <1>3 DEF Loaded

LEMMA EvidenceRange ==
    ASSUME ReviewTyped, IsFiniteSet(DOMAIN log)
    PROVE  EvidenceScore \in 1 .. 5
<1>1. Len(LoadedKpis) \in Nat /\ evidence \in Nat
  BY LoadedKpisAre DEF ReviewTyped
<1>2. Cardinality(LoadedDecisions) \in Nat
  <2>1. LoadedDecisions \in SUBSET DOMAIN log
    BY DEF LoadedDecisions, ReadRows
  <2>2. IsFiniteSet(LoadedDecisions)
    BY ONLY <2>1, FS_Subset, IsFiniteSet(DOMAIN log)
  <2> QED BY ONLY <2>2, FS_CardinalityType
<1>3. PICK count : count = Len(LoadedKpis) + evidence + Cardinality(LoadedDecisions)
  OBVIOUS
<1>4. count \in Nat
  BY ONLY <1>1, <1>2, <1>3
<1>5. EvidenceScore = IF count >= 4 THEN 5 ELSE count + 1
  BY <1>3 DEF EvidenceScore
<1> QED BY ONLY <1>4, <1>5

LEMMA LessonRange ==
    ASSUME ReviewTyped, NEW topic
    PROVE  LessonScore(topic) \in 3 .. 5
<1>1. PICK S : S = {i \in DOMAIN lessons : lessons[i] = topic}
  OBVIOUS
<1>2. IsFiniteSet(DOMAIN lessons)
  <2>1. DOMAIN lessons = 1 .. Len(lessons) /\ Len(lessons) \in Nat
    BY DEF ReviewTyped
  <2>2. ASSUME NEW n \in Nat PROVE IsFiniteSet(1 .. n)
    BY FS_Interval
  <2> QED BY ONLY <2>1, <2>2
<1>3. S \in SUBSET DOMAIN lessons
  BY <1>1
<1>4. IsFiniteSet(S)
  BY ONLY <1>2, <1>3, FS_Subset
<1>5. Cardinality(S) \in Nat
  BY ONLY <1>4, FS_CardinalityType
<1>6. LessonScore(topic) = IF Cardinality(S) >= 2 THEN 5 ELSE 3 + Cardinality(S)
  BY <1>1 DEF LessonScore
<1> QED BY ONLY <1>5, <1>6

\* Six scores from 1 to 5 with weights that make up 100.
Score == 1 .. 5

\* What the id of a recommendation means: the row of that id, or the KPI of that
\* number among those that load.
Means(id, subject) ==
    IF id[1] = "kpi" THEN id[2] \in DOMAIN LoadedKpis /\ LoadedKpis[id[2]].id = subject
                     ELSE id[2] = subject

IsRecommendation(r) == r.priority \in 100 .. 500 /\ Means(r.id, r.subject)

LEMMA EachIsOne ==
    ASSUME ReviewTyped, IsFiniteSet(DOMAIN log)
    PROVE  /\ \A b : IsRecommendation(OfBottleneck(b))
           /\ \A o : IsRecommendation(OfOpportunity(o))
           /\ \A n \in DOMAIN LoadedKpis : IsRecommendation(OfKpi(LoadedKpis[n], n))
<1>1. /\ \A x : ImpactScore(x) \in Score /\ EffortScore(x) \in Score /\ UrgencyScore(x) \in Score
      /\ \A x : GapScore(x) \in Score /\ LinkScore(x) \in Score
  BY DEF Score, ImpactScore, EffortScore, UrgencyScore, GapScore, LinkScore
<1>2. /\ \A topic : LessonScore(topic) \in Score
      /\ 2 \in Score /\ 3 \in Score /\ 4 \in Score /\ 5 \in Score
  <2>1. \A topic : LessonScore(topic) \in 3 .. 5
    BY LessonRange
  <2> QED BY <2>1 DEF Score
<1>3. PICK v : v = EvidenceScore /\ v \in Score
  BY EvidenceRange DEF Score
<1>4. ASSUME NEW b PROVE IsRecommendation(OfBottleneck(b))
  <2>1. Priority(3, ImpactScore(b.impact), 3, 4, UrgencyScore(b.status), LessonScore(b.category))
           \in 100 .. 500
    <3>1. PICK i, u, h : /\ i = ImpactScore(b.impact) /\ u = UrgencyScore(b.status)
                         /\ h = LessonScore(b.category)
                         /\ i \in Score /\ u \in Score /\ h \in Score
      BY <1>1, <1>2
    <3>2. Priority(3, i, 3, 4, u, h) = 25 * 3 + 25 * i + 15 * 3 + 10 * 4 + 10 * u + 10 * v + 5 * h
      BY ONLY <1>3 DEF Priority
    <3>3. 25 * 3 + 25 * i + 15 * 3 + 10 * 4 + 10 * u + 10 * v + 5 * h \in 100 .. 500
      BY ONLY <1>3, <3>1 DEF Score
    <3> QED BY ONLY <3>1, <3>2, <3>3
  <2>2. /\ OfBottleneck(b).priority \in 100 .. 500
        /\ OfBottleneck(b).id = <<"bottleneck", b.id>> /\ OfBottleneck(b).subject = b.id
    BY <2>1 DEF OfBottleneck
  <2>3. OfBottleneck(b).id[1] # "kpi" /\ OfBottleneck(b).id[2] = b.id
    BY <2>2
  <2> QED BY <2>2, <2>3 DEF IsRecommendation, Means
<1>5. ASSUME NEW o PROVE IsRecommendation(OfOpportunity(o))
  <2>1. Priority(LinkScore(o.linked), ImpactScore(o.impact), EffortScore(o.effort), 3,
                 UrgencyScore(o.status), LessonScore("opportunity")) \in 100 .. 500
    <3>1. PICK s, i, e, u, h : /\ s = LinkScore(o.linked) /\ i = ImpactScore(o.impact)
                               /\ e = EffortScore(o.effort) /\ u = UrgencyScore(o.status)
                               /\ h = LessonScore("opportunity")
                               /\ s \in Score /\ i \in Score /\ e \in Score
                               /\ u \in Score /\ h \in Score
      BY <1>1, <1>2
    <3>2. Priority(s, i, e, 3, u, h) = 25 * s + 25 * i + 15 * e + 10 * 3 + 10 * u + 10 * v + 5 * h
      BY ONLY <1>3 DEF Priority
    <3>3. s \in 1 .. 5 /\ i \in 1 .. 5 /\ e \in 1 .. 5 /\ u \in 1 .. 5 /\ h \in 1 .. 5 /\ v \in 1 .. 5
      BY ONLY <1>3, <3>1 DEF Score
    <3>4. 25 * s + 25 * i + 15 * e + 10 * 3 + 10 * u + 10 * v + 5 * h \in 100 .. 500
      BY ONLY <3>3
    <3> QED BY ONLY <3>1, <3>2, <3>4
  <2>2. /\ OfOpportunity(o).priority \in 100 .. 500
        /\ OfOpportunity(o).id = <<"opportunity", o.id>> /\ OfOpportunity(o).subject = o.id
    BY <2>1 DEF OfOpportunity
  <2>3. OfOpportunity(o).id[1] # "kpi" /\ OfOpportunity(o).id[2] = o.id
    BY <2>2
  <2> QED BY <2>2, <2>3 DEF IsRecommendation, Means
<1>6. ASSUME NEW n \in DOMAIN LoadedKpis PROVE IsRecommendation(OfKpi(LoadedKpis[n], n))
  <2>1. PICK k : k = LoadedKpis[n]
    OBVIOUS
  <2>2. Priority(5, GapScore(k.gap), 3, 2, UrgencyScore(k.status), LessonScore("review")) \in 100 .. 500
    <3>1. PICK g, u, h : /\ g = GapScore(k.gap) /\ u = UrgencyScore(k.status)
                         /\ h = LessonScore("review")
                         /\ g \in Score /\ u \in Score /\ h \in Score
      BY <1>1, <1>2
    <3>2. Priority(5, g, 3, 2, u, h) = 25 * 5 + 25 * g + 15 * 3 + 10 * 2 + 10 * u + 10 * v + 5 * h
      BY ONLY <1>3 DEF Priority
    <3>3. 25 * 5 + 25 * g + 15 * 3 + 10 * 2 + 10 * u + 10 * v + 5 * h \in 100 .. 500
      BY ONLY <1>3, <3>1 DEF Score
    <3> QED BY ONLY <3>1, <3>2, <3>3
  <2>3. /\ OfKpi(k, n).priority \in 100 .. 500
        /\ OfKpi(k, n).id = <<"kpi", n>> /\ OfKpi(k, n).subject = k.id
    BY <2>2 DEF OfKpi
  <2>4. OfKpi(k, n).id[1] = "kpi" /\ OfKpi(k, n).id[2] = n
    BY <2>3
  <2> QED BY <2>1, <2>3, <2>4 DEF IsRecommendation, Means
<1> QED BY <1>4, <1>5, <1>6

\* The order of the brief: by priority, and ties as they stood.
Above(all, i, j) == \/ all[i].priority > all[j].priority
                    \/ all[i].priority = all[j].priority /\ i < j
Earlier(all, D)  == {p \in D \X D : Above(all, p[1], p[2])}

LEMMA EarlierIs ==
    ASSUME NEW all, NEW D, NEW j \in D, NEW k \in D
    PROVE  <<j, k>> \in Earlier(all, D) <=> Above(all, j, k)
<1>1. PICK p : p = <<j, k>>
  OBVIOUS
<1>2. p[1] = j /\ p[2] = k /\ p \in D \X D
  BY ONLY <1>1, j \in D, k \in D
<1>3. p \in Earlier(all, D) <=> Above(all, p[1], p[2])
  BY ONLY <1>2 DEF Earlier
<1> QED BY ONLY <1>1, <1>2, <1>3

LEMMA RanksAre ==
    ASSUME NEW R, \A r \in R : r.priority \in Int, NEW all \in Seq(R), NEW n \in DOMAIN all,
           NEW i,
           i = CHOOSE k \in DOMAIN all :
                  Cardinality({j \in DOMAIN all : <<j, k>> \in Earlier(all, DOMAIN all)}) = n - 1
    PROVE  i \in DOMAIN all
<1>1. DOMAIN all = 1 .. Len(all) /\ Len(all) \in Nat
  OBVIOUS
<1>2. IsFiniteSet(DOMAIN all) /\ Cardinality(DOMAIN all) = Len(all)
  <2>1. ASSUME NEW m \in Nat PROVE IsFiniteSet(1 .. m) /\ Cardinality(1 .. m) = m
    <3>1. (IF 1 > m THEN 0 ELSE m - 1 + 1) = m
      OBVIOUS
    <3> QED BY ONLY <3>1, 1 \in Int, m \in Int, FS_Interval
  <2> QED BY ONLY <1>1, <2>1
<1>3. \A k \in DOMAIN all : k \in Int /\ all[k].priority \in Int
  <2>1. \A k \in DOMAIN all : all[k] \in R
    OBVIOUS
  <2> QED BY <1>1, <2>1
<1>4. Ordered(Earlier(all, DOMAIN all), DOMAIN all)
  <2>0. \A j, k \in DOMAIN all : <<j, k>> \in Earlier(all, DOMAIN all) <=> Above(all, j, k)
    BY ONLY EarlierIs
  <2>1. \A j, k \in DOMAIN all : <<j, k>> \in Earlier(all, DOMAIN all)
           <=> \/ all[j].priority > all[k].priority
               \/ all[j].priority = all[k].priority /\ j < k
    BY ONLY <2>0 DEF Above
  <2>2. \A j \in DOMAIN all : <<j, j>> \notin Earlier(all, DOMAIN all)
    BY <1>3, <2>1
  <2>3. ASSUME NEW j \in DOMAIN all, NEW k \in DOMAIN all, NEW m \in DOMAIN all,
               <<j, k>> \in Earlier(all, DOMAIN all), <<k, m>> \in Earlier(all, DOMAIN all)
        PROVE  <<j, m>> \in Earlier(all, DOMAIN all)
    <3>1. PICK x, y, z : /\ x = all[j].priority /\ y = all[k].priority /\ z = all[m].priority
                         /\ x \in Int /\ y \in Int /\ z \in Int
                         /\ j \in Int /\ k \in Int /\ m \in Int
      BY <1>3
    <3>2. (x > y \/ (x = y /\ j < k)) /\ (y > z \/ (y = z /\ k < m))
      BY <2>1, <2>3, <3>1
    <3>3. x > z \/ (x = z /\ j < m)
      BY ONLY <3>1, <3>2
    <3> QED BY <2>1, <3>1, <3>3
  <2>4. \A j, k \in DOMAIN all :
           j = k \/ <<j, k>> \in Earlier(all, DOMAIN all) \/ <<k, j>> \in Earlier(all, DOMAIN all)
    <3> TAKE j, k \in DOMAIN all
    <3>1. PICK x, y : x = all[j].priority /\ y = all[k].priority /\ x \in Int /\ y \in Int
      BY <1>3
    <3>2. j = k \/ (x > y \/ (x = y /\ j < k)) \/ (y > x \/ (y = x /\ k < j))
      BY <1>3, <3>1
    <3> QED BY <2>1, <3>1, <3>2
  <2> QED BY ONLY <2>2, <2>3, <2>4 DEF Ordered
<1>5. PICK I, before, rank : /\ I = DOMAIN all /\ before = Earlier(all, DOMAIN all)
                             /\ rank = [k \in I |-> Cardinality({j \in I : <<j, k>> \in before})]
  OBVIOUS
<1>6. \A m \in 0 .. Cardinality(I) - 1 : \E k \in I : rank[k] = m
  <2>1. IsFiniteSet(I) /\ Ordered(before, I)
    BY <1>2, <1>4, <1>5
  <2>2. rank = [k \in I |-> Cardinality({j \in I : <<j, k>> \in before})]
    BY <1>5
  <2> QED BY ONLY <2>1, <2>2, RankedOnce
<1>7. n - 1 \in 0 .. Cardinality(I) - 1
  BY <1>1, <1>2, <1>5
<1>8. PICK k \in I : rank[k] = n - 1
  BY <1>6, <1>7
<1>9. Cardinality({j \in DOMAIN all : <<j, k>> \in Earlier(all, DOMAIN all)}) = n - 1 /\ k \in DOMAIN all
  BY ONLY <1>5, <1>8
<1> QED
  BY ONLY <1>9,
     i = CHOOSE m \in DOMAIN all :
            Cardinality({j \in DOMAIN all : <<j, m>> \in Earlier(all, DOMAIN all)}) = n - 1

\* Every entry of a brief is in the range of priorities, and its id means its
\* subject.
LEMMA RecommendationsAre ==
    ASSUME ReviewTyped, IsFiniteSet(DOMAIN log)
    PROVE  \A n \in DOMAIN Recommendations : IsRecommendation(Recommendations[n])
<1>1. PICK R : R = {OfBottleneck(b) : b \in BottleneckRows} \cup {OfOpportunity(o) : o \in OpportunityRows}
                     \cup {OfKpi(LoadedKpis[n], n) : n \in DOMAIN LoadedKpis}
  OBVIOUS
<1>2. \A r \in R : IsRecommendation(r)
  BY <1>1, EachIsOne
<1>3. PICK bs, os, ks : /\ bs = [i \in DOMAIN LoadedBottlenecks |-> OfBottleneck(LoadedBottlenecks[i])]
                        /\ os = [i \in DOMAIN LoadedOpportunities |-> OfOpportunity(LoadedOpportunities[i])]
                        /\ ks = KpiRecommendations
  OBVIOUS
<1>4. bs \in Seq(R)
  <2>1. LoadedBottlenecks \in Seq(BottleneckRows)
    BY LoadedIn DEF ReviewTyped, LoadedBottlenecks
  <2>2. PICK b : b = LoadedBottlenecks
    OBVIOUS
  <2>3. DOMAIN b = 1 .. Len(b) /\ Len(b) \in Nat /\ \A i \in DOMAIN b : b[i] \in BottleneckRows
    BY ONLY <2>1, <2>2
  <2>4. \A i \in DOMAIN b : OfBottleneck(b[i]) \in R
    BY ONLY <1>1, <2>3
  <2>5. bs = [i \in 1 .. Len(b) |-> OfBottleneck(b[i])]
    BY ONLY <1>3, <2>2, <2>3
  <2>6. bs \in [1 .. Len(b) -> R]
    BY ONLY <2>3, <2>4, <2>5
  <2> QED BY ONLY <2>3, <2>6
<1>5. os \in Seq(R)
  <2>1. LoadedOpportunities \in Seq(OpportunityRows)
    BY LoadedIn DEF ReviewTyped, LoadedOpportunities
  <2>2. PICK o : o = LoadedOpportunities
    OBVIOUS
  <2>3. DOMAIN o = 1 .. Len(o) /\ Len(o) \in Nat /\ \A i \in DOMAIN o : o[i] \in OpportunityRows
    BY ONLY <2>1, <2>2
  <2>4. \A i \in DOMAIN o : OfOpportunity(o[i]) \in R
    BY ONLY <1>1, <2>3
  <2>5. os = [i \in 1 .. Len(o) |-> OfOpportunity(o[i])]
    BY ONLY <1>3, <2>2, <2>3
  <2>6. os \in [1 .. Len(o) -> R]
    BY ONLY <2>3, <2>4, <2>5
  <2> QED BY ONLY <2>3, <2>6
<1>6. ks \in Seq(R)
  <2>1. PICK k : k = LoadedKpis
    OBVIOUS
  <2>2. DOMAIN k = 1 .. Len(k) /\ Len(k) \in Nat
    BY <2>1, LoadedKpisAre
  <2>3. PICK s : s = [n \in DOMAIN k |-> OfKpi(k[n], n)]
    OBVIOUS
  <2>4. PICK I : I = {n \in DOMAIN k : BelowTarget(k[n])}
    OBVIOUS
  <2>5. ks = Only(s, I)
    BY <1>3, <2>1, <2>3, <2>4 DEF KpiRecommendations
  <2>6. s \in [1 .. Len(k) -> R]
    BY ONLY <1>1, <2>1, <2>2, <2>3
  <2>7. s \in Seq(R) /\ I \subseteq DOMAIN s
    BY ONLY <2>2, <2>4, <2>6
  <2>8. Only(s, I) \in Seq(R)
    BY ONLY <2>7, OnlyIs
  <2> QED BY <2>5, <2>8
<1>7. PICK all : all = bs \o os \o ks /\ all \in Seq(R)
  <2>1. \A x, y \in Seq(R) : x \o y \in Seq(R)
    OBVIOUS
  <2> QED BY ONLY <1>4, <1>5, <1>6, <2>1
<1>8. Recommendations =
         [n \in DOMAIN all |->
            all[CHOOSE i \in DOMAIN all : Cardinality({j \in DOMAIN all : Above(all, j, i)}) = n - 1]]
  BY <1>3, <1>7 DEF Recommendations, Above
<1>9. \A i \in DOMAIN all : {j \in DOMAIN all : Above(all, j, i)}
                              = {j \in DOMAIN all : <<j, i>> \in Earlier(all, DOMAIN all)}
  <2>1. \A i, j \in DOMAIN all : <<j, i>> \in Earlier(all, DOMAIN all) <=> Above(all, j, i)
    BY ONLY EarlierIs
  <2> QED BY ONLY <2>1
<1>10. ASSUME NEW n \in DOMAIN all
       PROVE  (CHOOSE i \in DOMAIN all : Cardinality({j \in DOMAIN all : Above(all, j, i)}) = n - 1)
                 \in DOMAIN all
  <2>1. \A r \in R : r.priority \in Int
    BY <1>2 DEF IsRecommendation
  <2>2. PICK i : i = CHOOSE k \in DOMAIN all :
                        Cardinality({j \in DOMAIN all : <<j, k>> \in Earlier(all, DOMAIN all)}) = n - 1
    OBVIOUS
  <2>3. i \in DOMAIN all
    BY <1>7, <2>1, <2>2, RanksAre
  <2> QED BY <1>9, <2>2, <2>3
<1>11. \A i \in DOMAIN all : IsRecommendation(all[i])
  BY <1>2, <1>7
<1>12. \A n \in DOMAIN Recommendations : n \in DOMAIN all
  BY <1>8
<1> QED BY <1>8, <1>10, <1>11, <1>12

-----------------------------------------------------------------------------
(* What the founder saw is what he decides about *)

\* A table in which no row went or broke loads the rows it had under the numbers
\* they had.
LEMMA NumbersStay ==
    ASSUME NEW X, NEW rows \in Seq(X), NEW more \in Seq(X), Len(rows) <= Len(more),
           \A i \in DOMAIN rows : more[i].id = rows[i].id /\ more[i].complete = rows[i].complete
    PROVE  \A n \in DOMAIN Only(rows, Complete(rows)) :
              /\ n \in DOMAIN Only(more, Complete(more))
              /\ Only(more, Complete(more))[n].id = Only(rows, Complete(rows))[n].id
<1>1. PICK I, J : I = Complete(rows) /\ J = Complete(more)
  OBVIOUS
<1>2. /\ DOMAIN rows = 1 .. Len(rows) /\ DOMAIN more = 1 .. Len(more)
      /\ Len(rows) \in Nat /\ Len(more) \in Nat
  OBVIOUS
<1>3. I \subseteq DOMAIN rows /\ J \subseteq DOMAIN more /\ I \subseteq J
      /\ \A j \in J : j \in DOMAIN rows => j \in I
  BY <1>1, <1>2 DEF Complete
<1>4. IsFiniteSet(J) /\ J \subseteq Int
  <2>1. ASSUME NEW N \in Int PROVE IsFiniteSet(1 .. N)
    BY FS_Interval
  <2>2. IsFiniteSet(DOMAIN more) /\ J \in SUBSET DOMAIN more
    BY <1>2, <1>3, <2>1
  <2> QED BY <1>2, <1>3, <2>2, FS_Subset
<1>5. ASSUME NEW n \in DOMAIN Only(rows, I)
      PROVE  n \in DOMAIN Only(more, J) /\ Only(more, J)[n].id = Only(rows, I)[n].id
  <2>0. n \in 1 .. Cardinality(I) /\ IsFiniteSet(I) /\ I \subseteq Int
    <3>1. I \in SUBSET J /\ I \subseteq Int
      BY <1>3, <1>4
    <3>2. IsFiniteSet(I)
      BY ONLY <1>4, <3>1, FS_Subset
    <3>3. n \in 1 .. Cardinality(I)
      BY <1>5 DEF Only
    <3> QED BY ONLY <3>1, <3>2, <3>3
  <2>1. Nth(I, n) \in I /\ Ahead(I, Nth(I, n)) = n - 1
    BY ONLY <2>0, NthIs
  <2>2. n \in Int
    BY <2>0
  <2>3. PICK i : i = Nth(I, n) /\ i \in I /\ Ahead(I, i) = n - 1 /\ n \in Int
    BY ONLY <2>1, <2>2
  <2>4. {j \in J : j < i} = {j \in I : j < i}
    BY <1>2, <1>3, <2>3
  <2>5. Ahead(J, i) = n - 1 /\ i \in J
    BY <1>3, <2>3, <2>4 DEF Ahead
  <2>6. Nth(J, n) = i /\ n \in 1 .. Cardinality(J)
    <3>1. Nth(J, n) = i /\ Ahead(J, i) + 1 \in 1 .. Cardinality(J) /\ Ahead(J, i) \in Nat
      BY ONLY <1>4, <2>3, <2>5, NthIs
    <3>2. Ahead(J, i) + 1 = n
      BY ONLY <2>3, <2>5
    <3> QED BY ONLY <3>1, <3>2
  <2>7. /\ DOMAIN Only(more, J) = 1 .. Cardinality(J)
        /\ Only(more, J)[n] = more[i] /\ Only(rows, I)[n] = rows[i]
    BY <2>0, <2>3, <2>6 DEF Only
  <2> QED BY <1>3, <2>3, <2>6, <2>7
<1> QED BY <1>1, <1>5

\* Every entry of the brief shown still means what it meant, but for the KPIs
\* once a row of them went or broke.
ShownInv ==
    \A n \in DOMAIN shown :
        \/ rowLost /\ shown[n].id[1] = "kpi"
        \/ Means(shown[n].id, shown[n].subject)

BriefInv == ReviewTyped /\ ShownInv

LEMMA LogIsFinite == ReviewInv => IsFiniteSet(DOMAIN log)
<1> SUFFICES ASSUME ReviewInv PROVE IsFiniteSet(DOMAIN log)
  OBVIOUS
<1>1. log \in Seq(ToSet(log))
  BY DEF ReviewInv, LogInv, Table
<1>2. DOMAIN log = 1 .. Len(log) /\ Len(log) \in Nat
  BY <1>1
<1>3. ASSUME NEW n \in Nat PROVE IsFiniteSet(1 .. n)
  BY FS_Interval
<1> QED BY ONLY <1>2, <1>3

LEMMA BriefStarts == ReviewInit => BriefInv
<1> SUFFICES ASSUME ReviewInit PROVE BriefInv
  OBVIOUS
<1>1. PICK b \in Businesses : kpis = b.kpis /\ bottlenecks = b.bottlenecks /\ opportunities = b.opportunities
  BY DEF ReviewInit
<1>2. kpis \in Seq(KpiRows) /\ bottlenecks \in Seq(BottleneckRows) /\ opportunities \in Seq(OpportunityRows)
  BY <1>1, ReviewAssumption DEF IsBusiness
<1>3. /\ evidence = 0 /\ lessons = <<>> /\ brief = None /\ rowLost = FALSE /\ edits = 0 /\ shown = <<>>
  BY DEF ReviewInit
<1>4. lessons \in Seq({"experiment", "review"}) /\ evidence \in Nat
  BY ONLY <1>3
<1>5. edits \in 0 .. MaxEdits /\ rowLost \in BOOLEAN
  <2>1. MaxEdits \in Nat
    BY ReviewAssumption
  <2>2. edits \in 0 .. MaxEdits
    BY ONLY <1>3, <2>1
  <2>3. rowLost \in BOOLEAN
    BY ONLY <1>3
  <2> QED BY <2>2, <2>3
<1>6. ReviewTyped
  BY ONLY <1>2, <1>3, <1>4, <1>5 DEF ReviewTyped
<1>7. ShownInv
  BY ONLY <1>3 DEF ShownInv
<1> QED BY <1>6, <1>7 DEF BriefInv

\* get_brief: the tables stay as they are, and each entry means its subject.
LEMMA ShowKeeps ==
    ASSUME BriefInv, ReviewInv, ShowBrief
    PROVE  BriefInv'
<1>1. ReviewTyped /\ IsFiniteSet(DOMAIN log)
  BY LogIsFinite DEF BriefInv
<1>2. PICK fails \in BOOLEAN :
        /\ shown' = [n \in DOMAIN Review(fails) |->
                        [id |-> Review(fails)[n].id, subject |-> Review(fails)[n].subject]]
        /\ brief' = Outcome(fails)
  BY DEF ShowBrief
<1>3. UNCHANGED tables /\ rowLost' = FALSE /\ edits' = edits
  BY DEF ShowBrief
<1>4. brief'.status \in {"failed", "completed", "completed_with_warnings"}
  BY <1>2 DEF Outcome
<1>5. ReviewTyped'
  BY <1>1, <1>3, <1>4 DEF ReviewTyped, tables
<1>6. ASSUME NEW id, NEW subject, Means(id, subject) PROVE Means(id, subject)'
  BY <1>3, <1>6 DEF Means, LoadedKpis, tables
<1>7. ASSUME NEW n \in DOMAIN shown' PROVE Means(shown'[n].id, shown'[n].subject)
  <2>1. PICK r : r = Review(fails)[n]
    OBVIOUS
  <2>2. n \in DOMAIN Review(fails) /\ shown'[n] = [id |-> r.id, subject |-> r.subject]
    BY <1>2, <1>7, <2>1
  <2>3. Review(fails) = Recommendations
    BY <2>2 DEF Review
  <2>4. Means(r.id, r.subject)
    BY <1>1, <2>1, <2>2, <2>3, RecommendationsAre DEF IsRecommendation
  <2> QED BY <2>2, <2>4
<1>8. ShownInv'
  BY <1>6, <1>7 DEF ShownInv
<1> QED BY <1>5, <1>8 DEF BriefInv

\* An edit of the KPIs, of which the brief shown is told as much as the founder
\* knows: that a row went or broke.
LEMMA KpisEdited ==
    ASSUME BriefInv, shown' = shown, ReviewTyped', rowLost => rowLost',
           \/ rowLost'
           \/ /\ Len(kpis) <= Len(kpis')
              /\ \A i \in DOMAIN kpis : kpis'[i].id = kpis[i].id /\ kpis'[i].complete = kpis[i].complete
    PROVE  ShownInv'
<1>1. /\ LoadedKpis = Only(kpis, Complete(kpis)) /\ LoadedKpis' = Only(kpis', Complete(kpis'))
      /\ kpis \in Seq(KpiRows) /\ kpis' \in Seq(KpiRows)
  BY DEF LoadedKpis, Complete, BriefInv, ReviewTyped
<1>2. ASSUME ~rowLost', NEW n \in DOMAIN LoadedKpis
      PROVE  n \in DOMAIN LoadedKpis' /\ LoadedKpis'[n].id = LoadedKpis[n].id
  BY <1>1, <1>2, NumbersStay
<1>3. ASSUME NEW n \in DOMAIN shown
      PROVE  (rowLost' /\ shown[n].id[1] = "kpi") \/ Means(shown[n].id, shown[n].subject)'
  <2>1. (rowLost /\ shown[n].id[1] = "kpi") \/ Means(shown[n].id, shown[n].subject)
    BY DEF BriefInv, ShownInv
  <2>2. PICK id, subject : id = shown[n].id /\ subject = shown[n].subject
    OBVIOUS
  <2>3. CASE id[1] = "kpi" /\ ~rowLost'
    <3>1. id[2] \in DOMAIN LoadedKpis /\ LoadedKpis[id[2]].id = subject
      BY <2>1, <2>2, <2>3 DEF Means
    <3>2. id[2] \in DOMAIN LoadedKpis' /\ LoadedKpis'[id[2]].id = subject
      BY <1>2, <2>3, <3>1
    <3> QED BY <2>2, <2>3, <3>2 DEF Means
  <2>4. CASE id[1] # "kpi"
    BY <2>1, <2>2, <2>4 DEF Means
  <2> QED BY <2>2, <2>3, <2>4
<1> QED BY <1>3 DEF ShownInv

\* The founder's edits.
LEMMA EditKeeps ==
    ASSUME BriefInv, AddRow \/ RewriteKpi \/ DropRow \/ Learn
    PROVE  BriefInv'
<1>1. /\ kpis \in Seq(KpiRows) /\ bottlenecks \in Seq(BottleneckRows)
      /\ opportunities \in Seq(OpportunityRows)
      /\ evidence \in Nat /\ lessons \in Seq({"experiment", "review"})
      /\ rowLost \in BOOLEAN /\ edits \in 0 .. MaxEdits
      /\ brief = None \/ brief.status \in {"failed", "completed", "completed_with_warnings"}
  BY DEF BriefInv, ReviewTyped
<1>2. shown' = shown /\ brief' = brief /\ edits' \in 0 .. MaxEdits
  <2>1. Edit
    BY DEF AddRow, RewriteKpi, DropRow, Learn
  <2> QED BY <1>1, <2>1, ReviewAssumption DEF Edit
<1>3. brief' = None \/ brief'.status \in {"failed", "completed", "completed_with_warnings"}
  BY ONLY <1>1, <1>2
<1>4. ASSUME NEW X, NEW s \in Seq(X), NEW i \in DOMAIN s PROVE RemoveAt(s, i) \in Seq(X)
  <2>1. i \in Int /\ 1 <= i /\ i <= Len(s) /\ Len(s) \in Nat
    BY <1>4
  <2>2. SubSeq(s, 1, i - 1) \in Seq(X) /\ SubSeq(s, i + 1, Len(s)) \in Seq(X)
    BY <1>4, <2>1
  <2> QED BY <2>2 DEF RemoveAt
<1>5. CASE AddRow
  <2>1. rowLost' = rowLost /\ evidence' = evidence /\ lessons' = lessons
    BY <1>5 DEF AddRow
  <2>2. /\ \/ kpis' = kpis \/ \E r \in KpiRows : kpis' = Append(kpis, r)
        /\ bottlenecks' = bottlenecks \/ \E r \in BottleneckRows : bottlenecks' = Append(bottlenecks, r)
        /\ opportunities' = opportunities \/ \E r \in OpportunityRows : opportunities' = Append(opportunities, r)
    BY <1>5 DEF AddRow
  <2>3. ASSUME NEW X, NEW s \in Seq(X), NEW r \in X
        PROVE  /\ Append(s, r) \in Seq(X) /\ Len(s) <= Len(Append(s, r))
               /\ \A i \in DOMAIN s : Append(s, r)[i] = s[i]
    OBVIOUS
  <2>4. /\ kpis' \in Seq(KpiRows) /\ bottlenecks' \in Seq(BottleneckRows)
        /\ opportunities' \in Seq(OpportunityRows)
    <3>1. kpis' \in Seq(KpiRows)
      BY ONLY <1>1, <2>2, <2>3
    <3>2. bottlenecks' \in Seq(BottleneckRows)
      BY ONLY <1>1, <2>2, <2>3
    <3>3. opportunities' \in Seq(OpportunityRows)
      BY ONLY <1>1, <2>2, <2>3
    <3> QED BY ONLY <3>1, <3>2, <3>3
  <2>5. ReviewTyped'
    BY ONLY <1>1, <1>2, <1>3, <2>1, <2>4 DEF ReviewTyped
  <2>6. Len(kpis) <= Len(kpis') /\ \A i \in DOMAIN kpis : kpis'[i] = kpis[i]
    <3>1. CASE kpis' = kpis
      BY ONLY <1>1, <3>1
    <3>2. CASE \E r \in KpiRows : kpis' = Append(kpis, r)
      BY ONLY <1>1, <2>3, <3>2
    <3> QED BY <2>2, <3>1, <3>2
  <2>7. ShownInv'
    BY ONLY <1>2, <2>1, <2>5, <2>6, KpisEdited, BriefInv
  <2> QED BY <2>5, <2>7 DEF BriefInv
<1>6. CASE RewriteKpi
  <2>1. PICK i \in DOMAIN kpis, r \in KpiRows :
          /\ r.id = kpis[i].id /\ kpis' = [kpis EXCEPT ![i] = r]
          /\ rowLost' = (rowLost \/ r.complete # kpis[i].complete)
    BY <1>6 DEF RewriteKpi
  <2>2. /\ bottlenecks' = bottlenecks /\ opportunities' = opportunities
        /\ evidence' = evidence /\ lessons' = lessons
    BY <1>6 DEF RewriteKpi
  <2>3. /\ kpis' \in Seq(KpiRows) /\ Len(kpis') = Len(kpis) /\ Len(kpis) \in Nat
        /\ \A j \in DOMAIN kpis : kpis'[j] = IF j = i THEN r ELSE kpis[j]
    BY ONLY <1>1, <2>1
  <2>4. rowLost' \in BOOLEAN /\ (rowLost => rowLost') /\ (~rowLost' => r.complete = kpis[i].complete)
    BY ONLY <1>1, <2>1
  <2>5. ReviewTyped'
    BY ONLY <1>1, <1>2, <1>3, <2>2, <2>3, <2>4 DEF ReviewTyped
  <2>6. ~rowLost' => \A j \in DOMAIN kpis : kpis'[j].id = kpis[j].id /\ kpis'[j].complete = kpis[j].complete
    BY ONLY <2>1, <2>3, <2>4
  <2>7. Len(kpis) <= Len(kpis')
    BY ONLY <2>3
  <2>8. ShownInv'
    BY ONLY <1>2, <2>4, <2>5, <2>6, <2>7, KpisEdited, BriefInv
  <2> QED BY <2>5, <2>8 DEF BriefInv
<1>7. CASE DropRow
  <2>1. /\ opportunities' = opportunities /\ evidence' = evidence /\ lessons' = lessons
        /\ \/ rowLost' = TRUE /\ (\E i \in DOMAIN kpis : kpis' = RemoveAt(kpis, i)) /\ bottlenecks' = bottlenecks
           \/ /\ kpis' = kpis /\ rowLost' = rowLost
              /\ \E i \in DOMAIN bottlenecks : bottlenecks' = RemoveAt(bottlenecks, i)
    BY <1>7 DEF DropRow
  <2>2. kpis' \in Seq(KpiRows) /\ bottlenecks' \in Seq(BottleneckRows)
    BY ONLY <1>1, <1>4, <2>1
  <2>3. rowLost' \in BOOLEAN /\ (rowLost => rowLost') /\ (rowLost' \/ kpis' = kpis)
    BY ONLY <1>1, <2>1
  <2>4. ReviewTyped'
    BY ONLY <1>1, <1>2, <1>3, <2>1, <2>2, <2>3 DEF ReviewTyped
  <2>5. Len(kpis) \in Nat
    BY ONLY <1>1
  <2>6. rowLost' \/ (Len(kpis) <= Len(kpis') /\ \A j \in DOMAIN kpis : kpis'[j] = kpis[j])
    BY ONLY <2>3, <2>5
  <2>7. ShownInv'
    BY ONLY <1>2, <2>3, <2>4, <2>6, KpisEdited, BriefInv
  <2> QED BY <2>4, <2>7 DEF BriefInv
<1>8. CASE Learn
  <2>1. /\ kpis' = kpis /\ bottlenecks' = bottlenecks /\ opportunities' = opportunities
        /\ rowLost' = rowLost /\ evidence' = evidence + 1
        /\ \E source \in {"experiment", "review"} : lessons' = Append(lessons, source)
    BY <1>8 DEF Learn
  <2>2. evidence' \in Nat /\ lessons' \in Seq({"experiment", "review"})
    BY ONLY <1>1, <2>1
  <2>3. ReviewTyped'
    BY ONLY <1>1, <1>2, <1>3, <2>1, <2>2 DEF ReviewTyped
  <2>4. Len(kpis) <= Len(kpis') /\ \A j \in DOMAIN kpis : kpis'[j] = kpis[j]
    BY ONLY <1>1, <2>1
  <2>5. ShownInv'
    BY ONLY <1>2, <2>1, <2>3, <2>4, KpisEdited, BriefInv
  <2> QED BY <2>3, <2>5 DEF BriefInv
<1> QED BY <1>5, <1>6, <1>7, <1>8

LEMMA BriefSteps ==
    ASSUME BriefInv, ReviewInv, [ReviewNext]_reviewVars
    PROVE  BriefInv'
<1>1. ASSUME UNCHANGED <<tables, brief, rowLost, edits>>, shown' = shown PROVE BriefInv'
  BY <1>1 DEF BriefInv, ReviewTyped, ShownInv, Means, LoadedKpis, tables
<1>2. CASE \E rec \in Shown, r \in Requests : Act(rec, r[1], r[2])
  BY <1>1, <1>2 DEF Act
<1>3. CASE Answer
  BY <1>1, <1>3 DEF Answer
<1>4. CASE Crash
  <2>1. UNCHANGED tables /\ shown' = <<>> /\ brief' = None /\ rowLost' = FALSE /\ edits' = edits
    BY <1>4 DEF Crash
  <2>2. ReviewTyped'
    BY <2>1 DEF BriefInv, ReviewTyped, tables
  <2>3. ShownInv'
    BY ONLY <2>1 DEF ShownInv
  <2> QED BY <2>2, <2>3 DEF BriefInv
<1>5. CASE ShowBrief
  BY <1>5, ShowKeeps
<1>6. CASE AddRow \/ RewriteKpi \/ DropRow \/ Learn
  BY <1>6, EditKeeps
<1>7. CASE UNCHANGED reviewVars \/ \E rec \in Shown : Refuse(rec)
  <2>1. UNCHANGED reviewVars
    BY <1>7 DEF Refuse
  <2> QED BY <1>1, <2>1 DEF reviewVars
<1> QED BY <1>2, <1>3, <1>4, <1>5, <1>6, <1>7 DEF ReviewNext

LEMMA BriefInvHolds == ReviewSpec => [](ReviewInv /\ BriefInv)
<1>1. ReviewInit => ReviewInv /\ BriefInv
  BY ReviewStarts, BriefStarts
<1>2. ReviewInv /\ BriefInv /\ [ReviewNext]_reviewVars => (ReviewInv /\ BriefInv)'
  BY ReviewSteps, BriefSteps
<1> QED BY <1>1, <1>2, PTL DEF ReviewSpec

\* The tables hold rows, and every recommendation a review would make has a
\* priority from 100 to 500: the six scores run from 1 to 5 and their weights make
\* up 100.
THEOREM ReviewTypeHolds == ReviewSpec => []ReviewTypeOK
<1>1. ReviewInv /\ BriefInv => ReviewTypeOK
  <2> SUFFICES ASSUME ReviewInv, BriefInv PROVE ReviewTypeOK
    OBVIOUS
  <2>1. ReviewTyped /\ IsFiniteSet(DOMAIN log)
    BY LogIsFinite DEF BriefInv
  <2>2. \A r \in ToSet(Recommendations) : r.priority \in 100 .. 500
    BY <2>1, RecommendationsAre DEF ToSet, IsRecommendation
  <2>3. /\ kpis \in Seq(KpiRows) /\ bottlenecks \in Seq(BottleneckRows)
        /\ opportunities \in Seq(OpportunityRows)
    BY <2>1 DEF ReviewTyped
  <2>4. ToSet(kpis) \subseteq KpiRows /\ ToSet(bottlenecks) \subseteq BottleneckRows
        /\ ToSet(opportunities) \subseteq OpportunityRows
    BY ONLY <2>3 DEF ToSet
  <2> QED BY <2>1, <2>2, <2>4 DEF ReviewTyped, ReviewTypeOK
<1> QED BY <1>1, BriefInvHolds, PTL

\* act_on_recommendation takes only an id and reviews anew: the decision is about
\* what the brief showed under that id, for any tables, new rows, measurements,
\* lessons and priorities, as long as no KPI row went or broke since.
THEOREM DecidesHolds == ReviewSpec => DecidesWhatWasShown
<1>1. ASSUME ReviewInv, BriefInv, ReviewNext, NEW n \in DOMAIN shown,
             acting = None, acting' # None, acting'.decision.rec = shown[n].id, ~rowLost
      PROVE  acting'.decision.subject = shown[n].subject
  <2>1. PICK rec, action, create : Act(rec, action, create)
    BY <1>1 DEF ReviewNext, ShowBrief, Refuse, Answer, Crash, AddRow, RewriteKpi, DropRow, Learn,
                Edit, reviewVars
  <2>2. PICK r \in ToSet(Recommendations) :
          /\ r.id = rec
          /\ LET d == [id |-> NextDecisionId, rec |-> rec, subject |-> r.subject,
                       status |-> Status(action)]
             IN acting' = [decision |-> d, create |-> create /\ action = "approve"]
    BY <2>1 DEF Act
  <2>3. acting'.decision.rec = r.id /\ acting'.decision.subject = r.subject
    BY <2>2
  <2>4. Means(r.id, r.subject)
    BY <1>1, <2>2, LogIsFinite, RecommendationsAre DEF ToSet, IsRecommendation, BriefInv
  <2>5. Means(shown[n].id, shown[n].subject)
    BY <1>1 DEF BriefInv, ShownInv
  <2> QED BY <1>1, <2>3, <2>4, <2>5 DEF Means
<1>2. ReviewInv /\ BriefInv /\ [ReviewNext]_reviewVars
         => [\A n \in DOMAIN shown :
               acting = None /\ acting' # None /\ acting'.decision.rec = shown[n].id /\ ~rowLost
                 => acting'.decision.subject = shown[n].subject]_reviewVars
  BY <1>1
<1> QED BY <1>2, BriefInvHolds, PTL DEF ReviewSpec, DecidesWhatWasShown
=============================================================================
