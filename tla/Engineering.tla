---------------------------- MODULE Engineering ----------------------------
(***************************************************************************)
(* Engineering runs ("hermes implement") on one git repository:            *)
(* EngineeringPlanner accepts a plan, EngineeringWorkflow resolves and     *)
(* checks it and takes its operations in Kahn's order, CorrectionEngine    *)
(* takes each one through generate, write, validate, run_tests and add     *)
(* with at most MaxFixes corrections, and one commit ends the run.         *)
(*                                                                         *)
(* A run is a process; nothing keeps two of them from working on one       *)
(* repository at a time.  A run that fails, or is killed, leaves the       *)
(* working tree and the index as they are.                                 *)
(*                                                                         *)
(* A file's content is a model value; what python -m py_compile accepts is *)
(* the set Parses and the trees the test command accepts are the set Green *)
(* (every tree, where no test command was detected).  The __pycache__      *)
(* directories that py_compile and the tests leave are no planned files    *)
(* and are not modelled.                                                   *)
(***************************************************************************)
EXTENDS Naturals, Sequences

CONSTANTS
    Runs,        \* "hermes implement" processes
    Files,       \* paths of the repository
    Code,        \* contents a file may have
    None,        \* there is no such file
    Parses,      \* contents the syntax gate accepts
    Green,       \* trees the test suite accepts
    Plans,       \* plans the LLM may answer: sequences of operations
    OpIds,       \* operation ids it may use
    StartTree,   \* the tree the runs start from
    MaxFixes,    \* WorkflowConfig.max_corrections
    RootIsCwd    \* TRUE: the process was started in the workspace root

Content == Code \cup {None}
Trees   == [Files -> Content]
Op      == [id : OpIds, file : Files, deps : SUBSET OpIds]

ASSUME EngineeringAssumption ==
    /\ None \notin Code
    /\ Parses \subseteq Code
    /\ Green \subseteq Trees
    /\ Plans \subseteq Seq(Op)
    /\ StartTree \in Trees
    /\ MaxFixes \in Nat
    /\ RootIsCwd \in BOOLEAN

VARIABLES
    tree,    \* the working tree
    index,   \* what is staged
    head,    \* what is committed
    w,       \* run -> where it is and what it holds
    met      \* pairs of runs that have been at work at one time

vars == <<tree, index, head, w, met>>

Working == {"planned", "resolved", "ready", "reading", "generating", "writing",
            "validating", "testing", "correcting", "adding", "committing", "landing"}
Ended   == {"done", "failed", "dead"}

Run == [at    : {"new"} \cup Working \cup Ended,
        plan  : Seq(Op),
        mods  : SUBSET Nat,      \* operations whose intent is "modify"
        done  : SUBSET OpIds,    \* operations CorrectionEngine has completed
        cur   : Nat,             \* operation in hand, 0 if none
        fixes : 0 .. MaxFixes,   \* corrections of it
        made  : Content,         \* what the LLM generated for it
        shown : Content]         \* the file as its correction prompt shows it

NewRun == [at |-> "new", plan |-> << >>, mods |-> {}, done |-> {}, cur |-> 0,
           fixes |-> 0, made |-> None, shown |-> None]

TypeOK ==
    /\ tree \in Trees
    /\ index \in Trees
    /\ head \in Trees
    /\ w \in [Runs -> Run]
    /\ met \subseteq SUBSET Runs

Init ==
    /\ tree = StartTree
    /\ index = StartTree
    /\ head = StartTree
    /\ w = [r \in Runs |-> NewRun]
    /\ met = {}

-----------------------------------------------------------------------------
(* Plans *)

\* Operation ids of a plan.
IdsOf(p) == {p[k].id : k \in DOMAIN p}

\* op_by_id, op_map and graph are dicts: of operations with one id the last
\* one stays.
Last(p, i) == CHOOSE k \in DOMAIN p :
                 p[k].id = i /\ \A j \in DOMAIN p : p[j].id = i => j <= k

\* detect_cycle: some operations all depend on one another.
HasCycle(p) ==
    \E S \in (SUBSET IdsOf(p)) \ {{}} :
        \A i \in S : p[Last(p, i)].deps \cap S # {}

\* What in_degree counts down for i: dependencies of every operation with
\* that id; ids outside the plan are ignored.
Prerequisites(p, i) ==
    IdsOf(p) \cap UNION {p[k].deps : k \in {j \in DOMAIN p : p[j].id = i}}

\* Kahn's algorithm: operations whose prerequisites are done.
ReadyIds(p, done) ==
    {i \in IdsOf(p) \ done : Prerequisites(p, i) \subseteq done}

\* Ties are broken by sequence_index.
FirstReady(p, done) ==
    CHOOSE k \in DOMAIN p :
        /\ p[k].id \in ReadyIds(p, done) /\ k = Last(p, p[k].id)
        /\ \A i \in ReadyIds(p, done) : k <= Last(p, i)

\* RepositoryManipulation.plan on a plan of creates and modifies: a target
\* named twice, a create of a file that is there, a modify of one that is not.
Conflict(p, mods) ==
    \/ \E j, k \in DOMAIN p : j # k /\ p[j].file = p[k].file /\ (j \in mods <=> k \in mods)
    \/ \E k \in DOMAIN p : (k \in mods) # (tree[p[k].file] # None)

-----------------------------------------------------------------------------
Repository == <<tree, index, head>>

\* Run r's record becomes new; in most steps that is all.
Sets(r, new)    == w' = [w EXCEPT ![r] = new] /\ UNCHANGED met
Becomes(r, new) == Sets(r, new) /\ UNCHANGED Repository
Moves(r, at)    == Becomes(r, [w[r] EXCEPT !.at = at])

File(r) == w[r].plan[w[r].cur].file

\* The operation in hand creates its file: corrections always modify.
Creates(r) == w[r].cur \notin w[r].mods /\ w[r].fixes = 0

-----------------------------------------------------------------------------
(* EngineeringPlanner and EngineeringCoordinator *)

\* The answer is a plan with high confidence, and without cycles.  It may be
\* empty, and ids may occur twice.
PlanAccepted(r) ==
    /\ w[r].at = "new"
    /\ \E p \in Plans :
          /\ ~HasCycle(p)
          /\ w' = [w EXCEPT ![r] = [@ EXCEPT !.at = "planned", !.plan = p]]
    /\ met' = met \cup {{q, r} : q \in {o \in Runs : w[o].at \in Working}}
    /\ UNCHANGED Repository

\* The LLM fails, its answer does not parse, is ambiguous or has a cycle.
PlanRefused(r) ==
    /\ w[r].at = "new"
    /\ Moves(r, "failed")

-----------------------------------------------------------------------------
(* EngineeringWorkflow, before the operations *)

\* Intents follow the files that are there.
Resolve(r) ==
    /\ w[r].at = "planned"
    /\ Becomes(r, [w[r] EXCEPT !.at = "resolved",
                      !.mods = {k \in DOMAIN w[r].plan : tree[w[r].plan[k].file] # None}])

CheckPasses(r) ==
    /\ w[r].at = "resolved"
    /\ ~Conflict(w[r].plan, w[r].mods)
    /\ Moves(r, "ready")

\* A conflict; or a path that is malformed, outside the workspace or in a
\* directory that is not there.
CheckFails(r) ==
    /\ w[r].at = "resolved"
    /\ Moves(r, "failed")

\* The next operation, if there is one, goes to CorrectionEngine.
NextOp(r) ==
    /\ w[r].at = "ready"
    /\ ReadyIds(w[r].plan, w[r].done) # {}
    /\ LET k == FirstReady(w[r].plan, w[r].done) IN
       Becomes(r, [w[r] EXCEPT !.cur = k, !.fixes = 0,
                      !.at = IF k \in w[r].mods THEN "reading" ELSE "generating"])

\* Faulty variant: the commit does not wait for the last operation.
AllDoneEarly(r) ==
    /\ w[r].at = "ready"
    /\ w[r].done # {} \/ w[r].plan = << >>
    /\ Moves(r, "committing")

\* The order is exhausted.
AllDone(r) ==
    /\ w[r].at = "ready"
    /\ ReadyIds(w[r].plan, w[r].done) = {}
    /\ Moves(r, "committing")

-----------------------------------------------------------------------------
(* CorrectionEngine.execute_operation *)

Read(r) ==
    /\ w[r].at = "reading"
    /\ Moves(r, IF tree[File(r)] # None THEN "generating" ELSE "failed")

\* The LLM answers the task, or the correction prompt.
Generate(r) ==
    /\ w[r].at = "generating"
    /\ \E c \in Code :
          Becomes(r, [w[r] EXCEPT !.at = "writing", !.made = c, !.shown = None])

\* create_file wants no file, modify_file wants one.
Write(r) ==
    /\ w[r].at = "writing"
    /\ Creates(r) <=> tree[File(r)] = None
    /\ tree' = [tree EXCEPT ![File(r)] = w[r].made]
    /\ Sets(r, [w[r] EXCEPT !.at = "validating", !.made = None])
    /\ UNCHANGED <<index, head>>

WriteRefused(r) ==
    /\ w[r].at = "writing"
    /\ ~(Creates(r) <=> tree[File(r)] = None)
    /\ Moves(r, "failed")

\* The write fails half-way, or the process is killed in it.
WriteBreaks(r, at) ==
    /\ w[r].at = "writing"
    /\ Creates(r) <=> tree[File(r)] = None
    /\ \E c \in Code : tree' = [tree EXCEPT ![File(r)] = c]
    /\ Sets(r, [w[r] EXCEPT !.at = at, !.made = None])
    /\ UNCHANGED <<index, head>>

\* Faulty variant: a file that does not parse is staged for the tests to judge.
ValidateLenient(r) ==
    /\ w[r].at = "validating"
    /\ Moves(r, IF tree[File(r)] \in Parses THEN "testing" ELSE "adding")

Validate(r) ==
    /\ w[r].at = "validating"
    /\ Moves(r, IF tree[File(r)] \in Parses THEN "testing" ELSE "correcting")

\* Faulty variant: after a correction only the syntax gate is repeated.
TestOnce(r) ==
    /\ w[r].at = "testing"
    /\ Moves(r, IF tree \in Green \/ w[r].fixes > 0 THEN "adding" ELSE "correcting")

Test(r) ==
    /\ w[r].at = "testing"
    /\ Moves(r, IF tree \in Green THEN "adding" ELSE "correcting")

\* A gate gives no verdict (the test command takes more than 120 s): that is
\* a failure like any other.
GateFails(r) ==
    /\ w[r].at \in {"validating", "testing"}
    /\ Moves(r, "correcting")

\* Faulty variant: a correction does not count.
CorrectForFree(r) ==
    /\ w[r].at = "correcting"
    /\ MaxFixes > 0
    /\ Becomes(r, [w[r] EXCEPT !.at = "generating", !.fixes = 1])

\* The correction prompt reads output_path relative to the process.
Correct(r) ==
    /\ w[r].at = "correcting"
    /\ w[r].fixes < MaxFixes
    /\ Becomes(r, [w[r] EXCEPT !.at = "generating", !.fixes = @ + 1,
                      !.shown = IF RootIsCwd THEN tree[File(r)] ELSE None])

\* Faulty variant: an operation that cannot be repaired is skipped.
GiveUpSkips(r) ==
    /\ w[r].at = "correcting"
    /\ w[r].fixes = MaxFixes
    /\ Becomes(r, [w[r] EXCEPT !.at = "ready", !.cur = 0, !.fixes = 0,
                      !.done = @ \cup {w[r].plan[w[r].cur].id}])

\* repair_limit_exceeded
GiveUp(r) ==
    /\ w[r].at = "correcting"
    /\ w[r].fixes = MaxFixes
    /\ Moves(r, "failed")

\* git add -- file
Add(r) ==
    /\ w[r].at = "adding"
    /\ index' = [index EXCEPT ![File(r)] = tree[File(r)]]
    /\ Sets(r, [w[r] EXCEPT !.at = "ready", !.cur = 0, !.fixes = 0,
                   !.done = @ \cup {w[r].plan[w[r].cur].id}])
    /\ UNCHANGED <<tree, head>>

-----------------------------------------------------------------------------
(* The commit *)

\* git diff --cached --quiet: nothing staged is a success.
CommitCheck(r) ==
    /\ w[r].at = "committing"
    /\ Moves(r, IF index = head THEN "done" ELSE "landing")

\* git commit; it fails where another run has committed everything.
Commit(r) ==
    /\ w[r].at = "landing"
    /\ head' = index
    /\ Sets(r, [w[r] EXCEPT !.at = IF index = head THEN "failed" ELSE "done"])
    /\ UNCHANGED <<tree, index>>

\* The commit is made, but a hook after it exceeds 30 s, or the process is
\* killed before it learns.
CommitUnheard(r, at) ==
    /\ w[r].at = "landing"
    /\ head' = index
    /\ Sets(r, [w[r] EXCEPT !.at = at])
    /\ UNCHANGED <<tree, index>>

\* The gateway does not dispatch, or the adapter reports an error.
Errs(r) ==
    /\ w[r].at \in {"reading", "generating", "writing", "adding", "committing", "landing"}
    /\ Moves(r, "failed")

\* The process is killed.
Dies(r) ==
    /\ w[r].at \in Working
    /\ Moves(r, "dead")

-----------------------------------------------------------------------------
Step(r) ==
    \/ Resolve(r) \/ CheckPasses(r) \/ CheckFails(r) \/ NextOp(r) \/ AllDone(r)
    \/ Read(r) \/ Generate(r) \/ Write(r) \/ WriteRefused(r) \/ Validate(r) \/ Test(r)
    \/ Correct(r) \/ GiveUp(r) \/ Add(r) \/ CommitCheck(r) \/ Commit(r)

Trouble(r) ==
    \/ GateFails(r) \/ Errs(r) \/ Dies(r)
    \/ \E at \in {"failed", "dead"} : WriteBreaks(r, at) \/ CommitUnheard(r, at)

Next == \E r \in Runs : PlanAccepted(r) \/ PlanRefused(r) \/ Step(r) \/ Trouble(r)

\* A process that runs takes its next step; the LLM, the tests and git have
\* timeouts.
Fairness == \A r \in Runs : WF_vars(Step(r))

Spec == Init /\ [][Next]_vars /\ Fairness

-----------------------------------------------------------------------------
(* Properties *)

\* Operations k of a plan whose id another one has.
SharesId(p, k) == \E j \in DOMAIN p : j # k /\ p[j].id = p[k].id

\* A run that succeeds has executed its plan: whenever something of it was
\* left out, so was an id that two operations share.
EveryOperationRuns ==
    \A r \in Runs : w[r].at = "done" =>
        LET p == w[r].plan
            leftOut == {k \in DOMAIN p : p[k].id \notin w[r].done}
        IN  leftOut # {} => \E k \in leftOut : SharesId(p, k)

Names(r, f) == \E k \in DOMAIN w[r].plan : w[r].plan[k].file = f

\* Another run that was at work together with r has file f in its plan too.
Contended(r, f) ==
    \E q \in Runs : q # r /\ {q, r} \in met /\ Names(q, f) /\ Names(r, f)

\* "The git.add step is only executed after all validation gates pass": what
\* is staged has passed the syntax gate, whatever runs failed or were killed
\* before, unless two runs worked on that file at one time.
GatesBeforeStaging ==
    \A f \in Files : \/ index[f] = StartTree[f]
                     \/ index[f] \in Parses
                     \/ \E r \in Runs : Contended(r, f)

\* The operations of run r that were executed: the last one of each id.
Executed(r) == {k \in DOMAIN w[r].plan : /\ w[r].plan[k].id \in w[r].done
                                         /\ k = Last(w[r].plan, w[r].plan[k].id)}

\* What run r commits is what it tested and wrote, but for what runs at work
\* at the same time change.
LandsItsWork(r) ==
    /\ Executed(r) # {} /\ (\A q \in Runs : q # r => {q, r} \notin met) => tree \in Green
    /\ \A k \in Executed(r) : \/ Contended(r, w[r].plan[k].file)
                             \/ head'[w[r].plan[k].file] = tree[w[r].plan[k].file]

\* The tests accept the tree a commit is made of, no correction or later
\* operation has changed it since they passed, if the run was alone and has
\* executed something; and the commit holds every file it wrote as it is in
\* the working tree, if no other run worked on that file.
CommitsWhatWasTested ==
    [][\A r \in Runs : w[r].at = "landing" /\ w'[r].at = "done" => LandsItsWork(r)]_vars

\* As long as every run has succeeded, nothing is left behind uncommitted.
CleanAfterSuccess ==
    (\A r \in Runs : w[r].at \in {"new", "done"}) => tree = index /\ index = head

\* A run ends: corrections do not go on for ever.
Ends == \A r \in Runs : w[r].at = "planned" ~> w[r].at \in Ended

-----------------------------------------------------------------------------
(* What the documentation says and the code does not do *)

\* CorrectionEngine is called "exactly once per PlannedOperation" (I-4).
EachExecuted ==
    \A r \in Runs : w[r].at = "done" => Executed(r) = DOMAIN w[r].plan

\* The correction prompt shows "the failed attempt".
CorrectionSeesAttempt ==
    \A r \in Runs : w[r].at = "generating" /\ w[r].fixes > 0
                        => w[r].shown = tree[File(r)]
=============================================================================
