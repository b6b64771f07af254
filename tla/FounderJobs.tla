----------------------------- MODULE FounderJobs ----------------------------
(***************************************************************************)
(* Jobs of one workspace on one day: the founder jobs the gateway runs and *)
(* streams, the jobs of "hermes job run" processes, and the decisions the  *)
(* Founder takes on them in the browser.  All of them rewrite whole YAML   *)
(* files of one directory, without locks:                                  *)
(*                                                                         *)
(*  - the event loop of the gateway runs one handler at a time;            *)
(*  - the token stream of a founder job runs in a thread and saves its     *)
(*    final record while handlers run;                                     *)
(*  - each CLI run is a process of its own.                                *)
(*                                                                         *)
(* A save opens the file (which empties it) and writes it; two saves of    *)
(* one file that overlap leave the text of one of them or garbage, and one *)
(* that a death or an error cuts short leaves a file that does not load.   *)
(***************************************************************************)
EXTENDS IdSequence

CONSTANTS
    Streams,   \* founder jobs submitted to the gateway
    Clis,      \* "hermes job run" processes
    Verdicts,  \* decisions the Founder may take
    MaxJobs,   \* bound: numbers of that day
    AnyClient  \* TRUE: the decision endpoint is called without the web page

NoVerdict == "no decision"
Desk      == "desk"    \* the job_decision handler
Runs      == Streams \cup Clis
Writers   == Runs \cup {Desk}
Ids       == 1 .. MaxJobs

ASSUME FounderJobsAssumption ==
    /\ MaxJobs \in Nat
    /\ Streams \cap Clis = {}
    /\ Desk \notin Runs
    /\ NoVerdict \notin Verdicts
    /\ AnyClient \in BOOLEAN

VARIABLES
    disk,   \* id -> its file: what it holds, and its last readable record
            \* ("cut" does not load either: a decision was cut short in it)
    w,      \* writer -> where it is, its job and the record in its memory
    pages   \* jobs a browser shows with decision buttons

vars == <<disk, w, pages>>

Finished == {"completed", "failed"}
Job   == [status : {"none", "running"} \cup Finished, verdict : Verdicts \cup {NoVerdict}]
NoJob == [status |-> "none", verdict |-> NoVerdict]
Fresh(s) == [status |-> s, verdict |-> NoVerdict]

Points == {"new", "picked", "creating", "working", "failing", "saving",
           "ended", "gone",           \* runs
           "idle", "loaded"}          \* the desk, with "saving"
Writer == [at : Points, id : Ids \cup {0}, job : Job,
           shared : BOOLEAN]          \* another save of the file overlaps

TypeOK ==
    /\ disk \in [Ids -> [text : {"absent", "torn", "cut", "saved"}, job : Job]]
    /\ w \in [Writers -> Writer]
    /\ pages \subseteq Ids

Init ==
    /\ disk = [i \in Ids |-> [text |-> "absent", job |-> NoJob]]
    /\ w = [p \in Writers |-> [at |-> IF p = Desk THEN "idle" ELSE "new",
                               id |-> 0, job |-> NoJob, shared |-> FALSE]]
    /\ pages = {}

-----------------------------------------------------------------------------
(* JobStore.save *)

Writing(p, i) == w[p].at \in {"creating", "saving"} /\ w[p].id = i

\* open(path, "w"): the file of i is empty, the record is in p's memory.
Open(p, i, job, at) ==
    LET others == {q \in Writers \ {p} : Writing(q, i)} IN
    /\ disk' = [disk EXCEPT ![i].text = "torn"]
    /\ w' = [q \in Writers |->
                CASE q = p         -> [at |-> at, id |-> i, job |-> job,
                                       shared |-> others # {}]
                  [] q \in others  -> [w[q] EXCEPT !.shared = TRUE]
                  [] OTHER         -> w[q]]
    /\ UNCHANGED pages

\* yaml.safe_dump and the closing of the file; p goes on at next.
Dump(p, next) ==
    LET i == w[p].id IN
    /\ \/ disk' = [disk EXCEPT ![i] = [text |-> "saved", job |-> w[p].job]]
       \/ w[p].shared /\ UNCHANGED disk
    /\ w' = [w EXCEPT ![p].at = next, ![p].shared = FALSE]
    /\ UNCHANGED pages

Go(p, at) == w' = [w EXCEPT ![p].at = at] /\ UNCHANGED <<disk, pages>>

\* A run cut short; a number it had not used yet is nobody's.
Gone(r) == [w[r] EXCEPT !.at = "gone", !.shared = FALSE,
                        !.id = IF w[r].at = "picked" THEN 0 ELSE @]

-----------------------------------------------------------------------------
(* Runs *)

\* No handler of the gateway is in progress.
LoopIsFree == /\ w[Desk].at = "idle"
              /\ \A r \in Streams : w[r].at \notin {"picked", "creating"}

\* Faulty variant: the numbers of the jobs that load.
NextJobLoaded == NextFileId({i \in Ids : disk[i].text = "saved"})

\* generate_job_id reads the names of the files.
NextJob == NextFileId({i \in Ids : disk[i].text # "absent"})

\* run_founder_job, or the CLI command, takes a number.
Submit(r) ==
    /\ w[r].at = "new"
    /\ r \in Streams => LoopIsFree
    /\ NextJob \in Ids
    /\ w' = [w EXCEPT ![r].at = "picked", ![r].id = NextJob]
    /\ UNCHANGED <<disk, pages>>

CreateOpen(r) ==
    /\ w[r].at = "picked"
    /\ Open(r, w[r].id, Fresh("running"), "creating")

CreateDump(r) ==
    /\ w[r].at = "creating"
    /\ Dump(r, "working")

\* Faulty variant: a run without output is not saved.
ReturnsUnsaved(r) ==
    /\ w[r].at = "working"
    /\ Go(r, "ended")

\* The last token has come: the completed record is saved.
Returns(r) ==
    /\ w[r].at = "working"
    /\ Open(r, w[r].id, Fresh("completed"), "saving")

\* The provider raises; a stream yields the error before it saves.
Raises(r) ==
    /\ w[r].at = "working"
    /\ Go(r, "failing")

\* Faulty variant: failures are recorded one at a time, all of them waiting.
FailOpenInTurn(r) ==
    /\ w[r].at = "failing"
    /\ \A q \in Runs \ {r} : w[q].at # "failing"
    /\ Open(r, w[r].id, Fresh("failed"), "saving")

FailOpen(r) ==
    /\ w[r].at = "failing"
    /\ Open(r, w[r].id, Fresh("failed"), "saving")

Finish(r) ==
    /\ w[r].at = "saving"
    /\ Dump(r, "ended")

\* Writing the file raises.  The save of a completed record is inside the
\* try of _sse_job_stream, so a stream then saves a failed one.
SaveRaises(r) ==
    /\ w[r].at \in {"creating", "saving"}
    /\ w' = [w EXCEPT ![r] = IF r \in Streams /\ w[r].job.status = "completed"
                             THEN [@ EXCEPT !.at = "failing", !.shared = FALSE]
                             ELSE Gone(r)]
    /\ UNCHANGED <<disk, pages>>

\* The browser goes away: GeneratorExit at a yield, which no handler catches.
Disconnect(r) ==
    /\ r \in Streams
    /\ w[r].at \in {"working", "failing"}
    /\ Go(r, "gone")

\* A CLI process is interrupted, or raises outside its try.
CliDies(r) ==
    /\ r \in Clis
    /\ w[r].at \in {"picked", "creating", "working", "failing", "saving"}
    /\ w' = [w EXCEPT ![r] = Gone(r)]
    /\ UNCHANGED <<disk, pages>>

-----------------------------------------------------------------------------
(* Decisions *)

\* openJob of the web page: the buttons of a completed, undecided job.
OpenJob(i) ==
    /\ LoopIsFree
    /\ disk[i].text = "saved"
    /\ disk[i].job = Fresh("completed")
    /\ pages' = pages \cup {i}
    /\ UNCHANGED <<disk, w>>

\* Faulty variant: the decision closes the job as failed.
DecisionClosesJob(i, v) ==
    /\ LoopIsFree
    /\ i \in pages \/ AnyClient
    /\ disk[i].text = "saved"
    /\ w' = [w EXCEPT ![Desk] = [at |-> "loaded", id |-> i, shared |-> FALSE,
                                 job |-> [status |-> "failed", verdict |-> v]]]
    /\ UNCHANGED <<disk, pages>>

\* job_decision: the record is loaded whatever its status; a file that does
\* not load answers 404.
JobDecision(i, v) ==
    /\ LoopIsFree
    /\ i \in pages \/ AnyClient
    /\ disk[i].text = "saved"
    /\ w' = [w EXCEPT ![Desk] = [at |-> "loaded", id |-> i, shared |-> FALSE,
                                 job |-> [disk[i].job EXCEPT !.verdict = v]]]
    /\ UNCHANGED <<disk, pages>>

DecisionOpen ==
    /\ w[Desk].at = "loaded"
    /\ Open(Desk, w[Desk].id, w[Desk].job, "saving")

DecisionDump ==
    /\ w[Desk].at = "saving"
    /\ Dump(Desk, "idle")

\* A decision that is being written goes no further: its file stays as it is.
CutDecision == disk' = IF w[Desk].at = "saving" THEN [disk EXCEPT ![w[Desk].id].text = "cut"]
                                                ELSE disk

\* Writing the decision raises: job_decision has no try around the save.
DecisionRaises ==
    /\ w[Desk].at = "saving"
    /\ CutDecision
    /\ w' = [w EXCEPT ![Desk].at = "idle", ![Desk].shared = FALSE]
    /\ UNCHANGED pages

\* The gateway dies with its handler and its streams, and starts again.
GatewayDies ==
    /\ CutDecision
    /\ w' = [p \in Writers |->
                CASE p \in Streams /\ w[p].at \notin {"new", "ended", "gone"} -> Gone(p)
                  [] p = Desk -> [w[p] EXCEPT !.at = "idle", !.shared = FALSE]
                  [] OTHER -> w[p]]
    /\ UNCHANGED pages

-----------------------------------------------------------------------------
Step(r) == \/ CreateOpen(r) \/ CreateDump(r) \/ Returns(r) \/ Raises(r)
           \/ FailOpen(r) \/ Finish(r)

Decide == DecisionOpen \/ DecisionDump

Next ==
    \/ \E r \in Runs : Submit(r) \/ Step(r) \/ SaveRaises(r) \/ Disconnect(r) \/ CliDies(r)
    \/ \E i \in Ids : OpenJob(i)
    \/ \E i \in Ids, v \in Verdicts : JobDecision(i, v)
    \/ Decide
    \/ DecisionRaises
    \/ GatewayDies

\* A thread or process that has started goes on, and a provider ends its
\* answer or raises (its client has a timeout); nobody has to submit or decide.
Fairness == (\A r \in Runs : WF_vars(Step(r))) /\ WF_vars(Decide)

Spec == Init /\ [][Next]_vars /\ Fairness

-----------------------------------------------------------------------------
(* Properties *)

\* No other run has the number of r.
Alone(r) == w[r].id # 0 /\ \A q \in Runs \ {r} : w[q].id # w[r].id

\* Founder jobs never share a number, even when saves are torn or the gateway
\* restarts: run_founder_job takes it and opens the file in one handler.
StreamIdsDistinct ==
    \A r, q \in Streams : r # q /\ w[r].id # 0 => w[r].id # w[q].id

\* A run that was not cut short has its end in its file: no handler, saving a
\* record it loaded earlier, turns its job back into a running one, and only a
\* decision takes the end out of the file, while it rewrites the record, or for
\* good when its save is cut short (JobStore.save empties the file first).
EndIsRecorded ==
    \A r \in Runs : w[r].at = "ended" /\ Alone(r) =>
        \/ disk[w[r].id].text = "saved" /\ disk[w[r].id].job.status \in Finished
        \/ disk[w[r].id].text = "torn" /\ Writing(Desk, w[r].id)
        \/ disk[w[r].id].text = "cut"

\* Every run that has started work ends, or is cut short by a disconnection, a
\* failed write or a death: no job is left running by waiting on another.
Ends == \A r \in Runs : w[r].at = "working" ~> w[r].at \in {"ended", "gone"}

\* Two runs have opened the file of i.
Contested(i) ==
    \E r, q \in Runs : /\ r # q
                       /\ \A p \in {r, q} : w[p].id = i /\ w[p].at # "picked"

\* The board as the readable records show it.
Board == INSTANCE JobBoard WITH
            Jobs    <- Ids,
            status  <- [i \in Ids |-> IF Contested(i) THEN "contested" ELSE disk[i].job.status],
            verdict <- [i \in Ids |-> IF Contested(i) THEN NoVerdict ELSE disk[i].job.verdict]

\* The readable records follow the promise of the board, for as long as one
\* run only has the number: a job appears, ends once, is decided on only when
\* it is completed (job_decision), and neither its end nor the decision is lost
\* to a save of a record loaded earlier.
ImplementsBoard == Board!Spec

-----------------------------------------------------------------------------
(* What the documentation says and the code does not do *)

\* generate_job_id "produces unique" ids: no two runs at work have one job.
IdsUnique == \A r, q \in Runs :
    w[r].at = "working" /\ w[q].at = "working" /\ r # q => w[r].id # w[q].id
=============================================================================
