--------------------------- MODULE EngineeringJobs --------------------------
(***************************************************************************)
(* Engineering jobs dispatched over the API: a record per job in a YAML    *)
(* file of its own, written by the handler that creates it and then by the *)
(* thread that runs it, while handlers of the event loop read it.          *)
(*                                                                         *)
(* The thread never reaches the engineering pipeline: it calls the         *)
(* coordinator without the snapshot its execute() requires, so the call    *)
(* raises and the branches of the code behind it do not happen.            *)
(*                                                                         *)
(* The specification's names begin with Api, so that EngineeringProof can  *)
(* extend this module beside Engineering.                                  *)
(***************************************************************************)
EXTENDS Naturals

CONSTANTS
    Jobs,        \* dispatched jobs; their uuids are distinct
    MaxRestarts  \* bound: deaths of the gateway

ASSUME EngineeringJobsAssumption == MaxRestarts \in Nat

VARIABLES
    file,      \* job -> "absent", "torn" (emptied, not yet written) or "saved"
    status,    \* job -> status of the record last written out
    t,         \* job -> its thread: where it is and the status in its memory
    sound,     \* job -> nothing but hermes itself keeps it from completing
    seen,      \* job -> the furthest status an answer of the API has shown
    stale,     \* jobs for which a later answer showed an earlier status
    cut,       \* jobs whose thread was cut short: a kill, or a save that raised
    restarts   \* deaths of the gateway so far

apiVars == <<file, status, t, sound, seen, stale, cut, restarts>>

Final    == {"completed", "failed"}
Statuses == {"none", "pending", "running"} \cup Final
Rank     == [s \in Statuses |-> CASE s = "none" -> 0 [] s = "pending" -> 1
                                  [] s = "running" -> 2 [] OTHER -> 3]

\* "creating" is the handler of the POST, the other points are the thread.
Points == {"unborn", "creating", "dispatched", "saving", "pipeline", "gone"}

ApiTypeOK ==
    /\ file \in [Jobs -> {"absent", "torn", "saved"}]
    /\ status \in [Jobs -> Statuses]
    /\ t \in [Jobs -> [at : Points, job : Statuses]]
    /\ sound \in [Jobs -> BOOLEAN]
    /\ seen \in [Jobs -> Statuses]
    /\ stale \subseteq Jobs
    /\ cut \subseteq Jobs
    /\ restarts \in 0 .. MaxRestarts

ApiInit ==
    /\ file = [j \in Jobs |-> "absent"]
    /\ status = [j \in Jobs |-> "none"]
    /\ t = [j \in Jobs |-> [at |-> "unborn", job |-> "none"]]
    /\ sound \in [Jobs -> BOOLEAN]
    /\ seen = [j \in Jobs |-> "none"]
    /\ stale = {}
    /\ cut = {}
    /\ restarts = 0

-----------------------------------------------------------------------------
(* EngineeringJobStore.save, in two steps *)

\* open(path, "w") empties the file of j; the record with status s follows.
Open(j, s, at) ==
    /\ file' = [file EXCEPT ![j] = "torn"]
    /\ t' = [t EXCEPT ![j] = [at |-> at, job |-> s]]

Written(j) ==
    /\ file' = [file EXCEPT ![j] = "saved"]
    /\ status' = [status EXCEPT ![j] = t[j].job]

\* A save that raises leaves the file as it was or empty.
SaveFails(j) ==
    /\ t[j].at \in {"creating", "saving"}
    /\ \E f \in {"torn", IF status[j] = "none" THEN "absent" ELSE "saved"} :
          file' = [file EXCEPT ![j] = f]
    /\ t' = [t EXCEPT ![j].at = "gone"]
    /\ cut' = cut \cup {j}
    /\ UNCHANGED <<status, sound, seen, stale, restarts>>

\* What an answer that shows j does to the client's picture of it.
Show(j, s) ==
    /\ seen' = IF Rank[s] > Rank[seen[j]] THEN [seen EXCEPT ![j] = s] ELSE seen
    /\ stale' = IF Rank[s] < Rank[seen[j]] THEN stale \cup {j} ELSE stale

-----------------------------------------------------------------------------
(* Handlers of the event loop.  No other handler runs during a POST. *)

Posting == \E j \in Jobs : t[j].at = "creating"

Create(j) ==
    /\ ~Posting
    /\ t[j].at = "unborn"
    /\ Open(j, "pending", "creating")
    /\ UNCHANGED <<status, sound, seen, stale, cut, restarts>>

\* Faulty variant: the answer goes out and the thread starts before the save.
DispatchUnsaved(j) ==
    /\ t[j].at = "creating"
    /\ t' = [t EXCEPT ![j].at = "dispatched"]
    /\ Show(j, "pending")
    /\ UNCHANGED <<file, status, sound, cut, restarts>>

\* The record is written, the thread is dispatched and the POST answered.
Dispatch(j) ==
    /\ t[j].at = "creating"
    /\ Written(j)
    /\ t' = [t EXCEPT ![j].at = "dispatched"]
    /\ Show(j, "pending")
    /\ UNCHANGED <<sound, cut, restarts>>

\* GET of one job, or of the list: a file found empty is an error, or left out.
Get(j) ==
    /\ ~Posting
    /\ file[j] = "saved"
    /\ Show(j, status[j])
    /\ UNCHANGED <<file, status, t, sound, cut, restarts>>

-----------------------------------------------------------------------------
(* EngineeringJobRunner.run, in a thread of its own per job *)

\* The record does not load: the thread ends and the job stays as it was.
LoadFails(j) ==
    /\ t[j].at = "dispatched"
    /\ t' = [t EXCEPT ![j].at = "gone"]
    /\ cut' = cut \cup {j}
    /\ UNCHANGED <<file, status, sound, seen, stale, restarts>>

StartRunning(j) ==
    /\ t[j].at = "dispatched"
    /\ file[j] = "saved"
    /\ Open(j, "running", "saving")
    /\ UNCHANGED <<status, sound, seen, stale, cut, restarts>>

SaveRunning(j) ==
    /\ t[j].at = "saving"
    /\ t[j].job = "running"
    /\ Written(j)
    /\ t' = [t EXCEPT ![j].at = "pipeline"]
    /\ UNCHANGED <<sound, seen, stale, cut, restarts>>

\* Faulty variant: an exception of the pipeline ends the thread.
PipelineUncaught(j) ==
    /\ t[j].at = "pipeline"
    /\ t' = [t EXCEPT ![j].at = "gone"]
    /\ UNCHANGED <<file, status, sound, seen, stale, cut, restarts>>

\* The scan or the provider configuration raises when the job is not sound;
\* execute(goal) without its snapshot raises when it is.
RunPipeline(j) ==
    /\ t[j].at = "pipeline"
    /\ Open(j, "failed", "saving")
    /\ UNCHANGED <<status, sound, seen, stale, cut, restarts>>

SaveFinal(j) ==
    /\ t[j].at = "saving"
    /\ t[j].job \in Final
    /\ Written(j)
    /\ t' = [t EXCEPT ![j].at = "gone"]
    /\ UNCHANGED <<sound, seen, stale, cut, restarts>>

\* Faulty variant: the next gateway queues again what was running.
RestartRequeues ==
    /\ restarts < MaxRestarts
    /\ restarts' = restarts + 1
    /\ status' = [j \in Jobs |-> IF status[j] = "running" THEN "pending" ELSE status[j]]
    /\ t' = [j \in Jobs |-> IF t[j].at = "unborn" THEN t[j] ELSE [t[j] EXCEPT !.at = "gone"]]
    /\ UNCHANGED <<file, sound, seen, stale, cut>>

\* The gateway dies; the next one dispatches nothing it finds on disk.
Restart ==
    /\ restarts < MaxRestarts
    /\ restarts' = restarts + 1
    /\ cut' = cut \cup {j \in Jobs : t[j].at \notin {"unborn", "gone"}}
    /\ t' = [j \in Jobs |-> IF t[j].at = "unborn" THEN t[j] ELSE [t[j] EXCEPT !.at = "gone"]]
    /\ UNCHANGED <<file, status, sound, seen, stale>>

RunThread(j) == StartRunning(j) \/ SaveRunning(j) \/ RunPipeline(j) \/ SaveFinal(j)

ApiNext ==
    \/ \E j \in Jobs : \/ Create(j) \/ Dispatch(j) \/ Get(j)
                       \/ RunThread(j) \/ LoadFails(j) \/ SaveFails(j)
    \/ Restart

\* A handler returns and a thread goes on; nothing else is owed.
ApiSpec == ApiInit /\ [][ApiNext]_apiVars /\ \A j \in Jobs : WF_apiVars(Dispatch(j)) /\ WF_apiVars(RunThread(j))

-----------------------------------------------------------------------------
(* Properties *)

\* The statuses a client is shown for a job never go back: pending, running
\* and then failed, although the file is rewritten by a thread while handlers
\* read it, and is found empty, not old, in the middle of a save
\* (engineering_job_runner.py:55, gateway/app.py:1113).
NeverShownEarlier == stale = {}

\* A job whose POST was answered can be read again, except while its thread is
\* saving it or after a save of it was cut short
\* (engineering_job_runner.py:60).
AnsweredIsReadable ==
    \A j \in Jobs : seen[j] # "none" =>
        file[j] = "saved" \/ t[j].at = "saving" \/ j \in cut

\* A dispatched job reaches a final record unless its thread was cut short by
\* a restart, a load or a save that raised; "Never raises" covers the rest
\* (engineering_job_runner.py:108).  A job cut short stays pending or running.
EveryJobEnds ==
    \A j \in Jobs : t[j].at = "dispatched" ~> (status[j] \in Final \/ j \in cut)

\* A job is recorded as failed only when something other than hermes failed:
\* the run of a sound job "transitions to completed"
\* (tests/test_engineering_job_runner.py:61).
FailsOnlyForACause == \A j \in Jobs : status[j] = "failed" => ~sound[j]
=============================================================================
