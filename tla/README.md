# Verification of Hermes OS

Hermes OS (`src/src/hermes`) is a Python program with which one person, the
Founder, runs businesses: a gateway (FastAPI, one process) serves a web page and
an API, a service layer keeps operations and jobs as YAML files and appends to
the business's Markdown tables, and engineering runs let an LLM change a git
repository behind syntax and test gates. There is no database and there are no
locks: what makes it correct is the order in which files are read and rewritten.
That is what these modules are about.

Contents: [inventory](#inventory) · [hard behaviours](#what-is-hard) ·
[modules](#modules) · [runs](#runs) · [proofs](#proofs) ·
[disagreements found](#where-the-code-and-its-documentation-disagree) ·
[limits](#what-is-not-modelled) · [plan](#plan)

## Inventory

| Part | State it keeps | Operations | Correct when |
|---|---|---|---|
| **Operations** (`service.py`, `kernel/operation_*.py`) | `operations/*.yaml`, one file per operation | create from chat, generate, approve, reject, complete, fail, link SOP, complete step | statuses follow `VALID_TRANSITIONS`; a closed operation stays closed; a completed one has an outcome or a Job; numbers are not reused |
| **Operation and decision logs** (`operation_writer`, `decision_writer`, `*_id*.py`) | `Operations.md`, `Decisions.md` | append a row; act on a recommendation | one row per closed operation, agreeing with its file; no id twice; a spawned operation cites an approved decision |
| **Founder jobs** (`gateway/app.py`, `job_store`, `cli/commands/job/run.py`) | `jobs/*.yaml` | submit, stream, fail, finish, decide | numbers are distinct; a job ends; its end and the decision on it are not lost |
| **Engineering runs** (`engineering_planner/coordinator/workflow`, `correction_engine`) | working tree, index and branch of a repository | plan, resolve intents, check, execute operations with corrections, commit | gates before staging; every operation executed; a commit holds what was tested |
| **Repository manipulation** | none (simulates a tree) | validate a plan of creates, modifies, deletes, moves, directory operations | a plan it accepts can be carried out, but for moves, which no adapter has; it loses nothing nobody named |
| **Adapters** (filesystem, git, validation, LLM, Docker) and **execution gateway** | none of their own | one action per request | never raise; an adapter runs only after a dispatch |
| **Operation, job, workflow and swarm engines** | none | validate, detect cycles, order, readiness | a cycle is found exactly when there is one; orders are complete; what can run does |
| **Engineering jobs** (`engineering_job_runner`) | `engineering-jobs/*.yaml` | create, dispatch a thread, get, list | a job reaches completed or failed; an answer is never taken back |
| **Heartbeats, notifications, acknowledgements** | `heartbeats/*.yaml`, `notifications_ack.yaml` | append, find stale, generate, acknowledge | an alert is shown until it is acknowledged; silence is noticed |
| **Founder job router, capability registry and workflows, CEO chat** | index of skills, built once | match, run a workflow, review, stream | what ran and what was shown is what is recorded |
| **Decision engine, CEO review, decision log** | `Decisions.md` | load tables, recommend, brief, act on a recommendation | a decision is about what was shown and is read back |
| **Readiness, impact, risk, context graph** | registries indexed once | gather, traverse, score | the same answer from either end, in any order |
| **Model router, conductor of `kernel/`, prompt compression** | none | choose a model, pack a prompt | pure |
| **Repository intelligence, workspace, knowledge, registries** | none | read and summarise files | pure |
| **Infrastructure runtimes** (Docker, n8n, NocoDB, GitHub, LLM) | none | ask a service, convert its answer | read-only; an outage is not an empty service |

How they interact. The page and other clients call the **gateway**. Its handlers
are `async` functions without an `await`, so the event loop runs one at a time;
each translates the request to one call of **HermesService** or of a store. Two
things run beside the handlers: the token stream of a founder job, which
Starlette pulls in a pool thread and which saves the job's final record there,
and the thread of an engineering job. Beside the gateway there are CLI processes,
`hermes job run` and `hermes implement`, on the same directories. HermesService
calls OperationStore and JobStore, then the two writers of the Markdown tables.
A founder job's stream comes from FounderJobRouter and the Conductor. An
engineering run goes EngineeringCoordinator → EngineeringPlanner (LLM) →
EngineeringWorkflow → RepositoryManipulation, OperationEngine → CorrectionEngine
→ ExecutionGateway → adapters → git. The executive pages ask services that read
everything afresh: NotificationRuntime and the CEO review read the business's
files, ReadinessEngine, ImpactEngine and RiskEngine the context graph, which is
read off registries that are indexed once and runtimes that ask other services.

### What is hard

The hazards, each at its line, are listed in `PROJECT.json`. In short:

- **A save is not atomic.** Every store does `open(path, "w")`, which empties the
  file, and then dumps. A crash between the two, or a reader or second writer in
  that window, sees an empty or mixed file. Of a Markdown table a crash may leave
  a beginning that the writers go on with.
- **A handler writes several files** (an operation, a job, a table). It may raise
  or die between any two.
- **Records are held across long calls.** A stream holds a job while handlers may
  rewrite it; the desk holds a job's record between load and save; an
  engineering run decides create or modify long before it writes.
- **Numbers come from scanning** names or text, with three-digit patterns, and
  two processes may scan before either writes.
- **Corrections repeat** a part of the pipeline, and a failed run cleans up
  nothing.
- **Timeouts after the fact**: `git commit` may be made and still time out.
- **Decided twice**: a recommendation is numbered by position on each request; the
  end of the decision table is found by its writer in one way and by its reader in
  another; the executive graph derives each relation from either end,
  and judges an object by two tables.
- **Iteration of sets**: what an impact report lists must not depend on the order
  in which a process iterates a `frozenset`.

## Modules

### Operations

| Module | Models |
|---|---|
| `IdSequence` | the two ways of taking the next number: from file names (`generate_operation_id`, `generate_job_id`) and from the text of a table (`generate_bk_operation_id`, `generate_decision_id`), with the digits their pattern reads |
| `OperationRuntime` | SOP progress: which step is current and which may be completed |
| `Operations` | the handlers of HermesService on operations, the two-step saves, the two tables, crashes |
| `OperationLedger` | the promise: an operation moves along its life cycle, is closed once, and its log entry agrees |

`file` and `ops` are the YAML files (what state each is in; the record last
written out whole), `opsLog` and `decLog` the Markdown tables, `jobs` the saved
Jobs, and `h` the handler in progress: where it is, the record in its memory,
and where it goes when the file is written. Each save is two steps, opening
(`Save`, `OpenLog`, ...) and `FinishSave`/`WriteLog`, and `Crash` may come
between. A handler that has several writes takes them in the order of the code.
Handlers do not interleave, because the event loop does not; that is checked
against the code, where none of these handlers awaits. `Escalate` is external:
no code sets `awaiting_escalation`, a person editing the YAML does. `generate`
records an operation only in a service with stores; the CLI builds one without,
and no endpoint calls it, so its part of the model is about the method as its
tests use it.

A table is its rows, whether the writers can use it (`state`), whether a crash
ever cut it (`cut`), and how many rows stand above the last line of dashes, where
the next row goes (`next`). While it is rewritten its file is empty. `AfterCrash`
is what a kill may leave of the new text: nothing the writers accept, all of it,
or its first rows, the last one whole or with its number only, below the lines of
dashes that stand above them. The writers ask for a heading and a
line of dashes and no more, so they append to such a part and number from it.

An outcome text may cite a row's number (`CitedIn`): the generator takes the
maximum over the whole document. Numbers have `IdBase`/`IdLimit`: `Captured`
is what a pattern of fixed width reads of a number that has outgrown it.

### Founder jobs

`FounderJobs` has the job files (`disk`), the writers (`w`: streams, CLI
processes and the `job_decision` handler, each with its place, its number and
the record in its memory) and the jobs a browser shows (`pages`). Overlapping
saves of one file leave one of the texts or garbage (`shared`). A decision's save
that raises (`DecisionRaises`) or is killed leaves the file `cut`: what it recorded,
an end among it, is gone for good. `Submit` takes
the number and `CreateOpen` opens the file in one handler (`LoopIsFree`), which
is why streams never share a number and CLI processes may. `JobBoard` is the
promise: a job is listed, runs, ends once; a decision comes after the end.

### Engineering runs

`Engineering` has the working tree, the index, the committed tree and, for each
run, where it is, its plan, the operation in hand, its corrections and what the
correction prompt showed. Contents are model values; `Parses` is what the syntax
gate accepts and `Green` the trees the test command accepts. `Resolve` and
`CheckPasses` are steps 0 and 1 of `EngineeringWorkflow.execute`, `NextOp` and
`AllDone` its loop over the execution order, `Read` to `Add` the pipeline of
`CorrectionEngine.execute_operation`, `Correct` and `GiveUp` its loop,
`CommitCheck` and `Commit` the two git commands of `GitAdapter._commit`. Failing:
`Errs` (no dispatch, or an adapter's error), `GateFails` (a timeout of a gate),
`WriteBreaks` (half a file), `CommitUnheard` (committed, but timed out or
killed), `Dies`. `met` holds the pairs of runs that have been at work at one time,
and `Contended(r, f)` says that a run which was so together with `r` plans to write
`f` too: nothing locks the repository, and of such a file nothing is promised.
What `py_compile` writes into `__pycache__` is left out: no plan names it, and
`git add` is given the planned file only.

Kahn's loop is modelled as what it chooses: the operation with the least
`sequence_index` of those whose prerequisites are done. `detect_cycle` is
modelled as what it decides: some operations all depend on one another.

### Work around the core

| Module | Models |
|---|---|
| `Notifications` | heartbeat files, the notifications derived from operations, heartbeats and the review on each request, the acknowledgement file |
| `EngineeringJobs` | the record of a job dispatched over the API, its thread, and the handlers that read the file |
| `DependencyEngines` | cycle search, Kahn's order and readiness in the operation, swarm and job engines |
| `RepositoryManipulation` | the planner's checks on a simulated tree, and the filesystem adapter on the real one |
| `Answering` | an objective from its match to its record: registry, both workflows with their web pages, the CEO's review or answer, the events of the stream |
| `Review` | the tables of a business, the rules of the decision engine, the brief, acting on a recommendation, the decision log |
| `ContextGraph`, `ExecutiveView` | all relations between the objects of a business; gathering, impact analysis, risk and readiness |
| `Positions` | what filtering a list leaves of it, for `Review` and `ExecutiveView` |

*Notifications.* `beat` and `acks` are the files, `h` the handler in progress
(again two steps, with `Crash` between), ages are counted to the threshold.
`told` and `given` are what clients were answered, kept beside the files to say
what should be there. *EngineeringJobs.* `t` is the thread with the record in its
memory, `file` and `status` the YAML file, `seen` the furthest status a client
was shown. *DependencyEngines* takes one set of items through search, ordering
and the caller's loop; a stack and a queue are state, one action per iteration
of a loop. *RepositoryManipulation* first plans, then `Apply` carries out one
operation after another; names are spellings and `Path` says what they resolve
to. The planner simulates renames and moves, but `FilesystemOperation` has
neither, so `Apply` refuses them. *Answering*: `index` is the capability registry, built at the first request
and never again; `label` is what the handler matched, `chosen` what the stream
did. *Review*: the log is the sequence of its lines, because the writer and the
loader look for dash lines each in its own way: the writer for the last line of
ten dashes and more in the section (`WriterEnd`), the loader for the first line of
one group of four and more behind the separator (`LoaderEnd`). `AsRow` is what a
decision becomes on its way into the table and back: no column names its
recommendation, and a word of the title that is longer than its column comes back
in pieces (`LongTitles`). *ExecutiveView*: `order` is the
order in which this process iterates sets, `data` what a request gathered from
an `index` built once and from runtimes that may be down.

How they compose: `Notifications` uses `IdSequence` for heartbeats and the
statuses of `Operations`; `EngineeringJobs` has the place of `Engineering` in its
thread, which never gets there; `Answering` ends where `FounderJobs` saves;
`Engineering` takes `DependencyEngines`' order as what it chooses; `Review`'s
decisions are the rows of `Operations`' decision log; `ExecutiveView` EXTENDS
`ContextGraph`. `Review` and `ExecutiveView` EXTEND `Positions`: a filter there is the set of the
positions it keeps, in place of the recursion of `SelectSeq`, so that proofs can
be about what it leaves. The ranking of the brief is stated the same way, by how
many recommendations come before one.

Each module has faulty variants of some definitions (`ResumesX`, `XUnsaved`,
...), placed before the originals. They are what a plausible mistake would
make of the code; the mutants of `PROJECT.json` put them in the place of the
originals and the property named there is then violated.

## Runs

| Run | Question | Bounds and why they suffice |
|---|---|---|
| `operations` | Do the files and tables stay consistent, and is `OperationLedger` implemented, through every interleaving of writes with a crash and exceptions? | two operations, two decisions on two recommendations, a crash: one operation can be torn while another is closed, and a handler after the crash appends to any beginning of a table that it left; outcomes that cite other rows. More crashes and decisions are covered by the proofs |
| `operations_sop` | Are SOP steps completed in order, also after relinking? | two operations, two SOPs that share a step id, which is second in one and first in the other; a crash |
| `founder_jobs` | Does every founder job end, with its end and the decision on it on record, with a CLI run beside the gateway? | two streams, a CLI run, three numbers: the CLI run can share with either or neither; restarts at any time; one verdict, since a second one is only written over the first |
| `engineering` | Gates, completeness, tested commits, termination, after every failure and with another run beside it | two files and two runs, one after the other or at once: the second meets every tree and index the first may leave; one correction: the count is reached and passed; plans in and against the order of their list, an empty one, a file twice, an id twice, a cycle, a cycle that `detect_cycle` does not see, a foreign dependency |
| `notifications` | Are the notifications those of the latest report, acknowledged one by one, and is silence noticed? | an operation, three heartbeats, two acknowledgements, a crash, a KPI at risk or off track; ages up to one step past a threshold of one: older records are not told apart |
| `engineering_jobs` | Does an API job end, and does an answer stay? | two jobs in threads of their own, two restarts |
| `dependency_engines` | Do search, order and loop agree with a definition by closure? | every graph on three items with an id outside the set, two index orders, failures: cycles of one, two and three items, chains, forks and joins, and a cycle with an item behind it |
| `repository_manipulation` | Does the disk end as the planner simulated? | every plan of up to three operations over a directory, a subdirectory, a file in it, a file beside them with two spellings and a path outside. Longer plans and other trees are covered by the proofs |
| `executive_view` | Impact, risk and readiness on one business | at least one object of every kind, six worlds (ownership, heartbeats), nine statuses that may come about, six outages, both orders of iteration, a change between requests |
| `review` | Are decisions about what was shown, and read back? | tables of up to two rows, two edits of the founder, decisions numbered up to four; complete and incomplete rows; three logs: closed by the last line of dashes (`businesses/AVANZIA`), with a rule behind it (`businesses/AKosmicAnimals`), and closed by nothing; one title that is broken |
| `answering` | Do record, run and screen agree? | four skills directories, one edit between or during requests, two pages a site, two alternative domains, two tokens, failures and disconnections anywhere |
| `job_cause` | counterexample, see [below](#where-the-code-and-its-documentation-disagree) | one job, undisturbed |

What the properties say:

- `HistoryAgrees`, `ImplementsLedger`: the log never has two rows for an
  operation or contradicts its file; files and tables move as the ledger allows.
- `RecordedUnlessInterrupted`: undisturbed, each closed operation has its row.
- `LogIdsDistinct`: no two rows of a table have one number, also where rows were
  added to what a crash left.
- `CitesApprovedDecision`: of a decision log that no crash has cut. In one that was
  cut the number of a lost row is given again, although an operation names it
  (`CitedNumberStands`, [below](#where-the-code-and-its-documentation-disagree)).
- `CompletedHasEvidence`, `NumbersNotReused`, `TerminalStays`, `StepsInOrder`: see
  the comments.
- `StreamIdsDistinct`, `EndIsRecorded`, `ImplementsBoard`, `Ends`
  (FounderJobs). The board promises nothing any more once two runs have opened
  one file (`Contest`). `EndIsRecorded` is about the file as it is on disk: the end of
  a run is in it unless a decision is rewriting it or its save was cut short.
- `GatesBeforeStaging`: whatever failed before, nothing is staged that the
  syntax gate has not accepted, but for contended files.
- `CommitsWhatWasTested`: the commit holds, for every operation that was executed
  and every file that is not contended, what is in the working tree; and if the
  run was alone and has executed something, the tests accepted that tree: later
  operations and corrections have not invalidated it. A run of an empty plan
  commits what an earlier run left staged, untested.
- `EveryOperationRuns`: what a successful run leaves out has an operation among it
  whose id is another's too.
- `CleanAfterSuccess`, `Ends` (Engineering).
- `LatestReportCounts`, `AcknowledgedExactly`, `SilenceIsNoticed`: torn
  heartbeats and acknowledgement files neither hide nor invent an alert.
- `NeverShownEarlier`, `AnsweredIsReadable`, `EveryJobEnds` (EngineeringJobs).
- `CyclesAreFound`, `OrderIsRight`, `RunsWhatCanRun`: against definitions
  without a stack or a queue.
- `ValidPlansApply`, `NothingLostUnasked` (RepositoryManipulation). The first
  leaves out plans with moves, and plans that use one path as a file and as a directory, or under two
  spellings: the planner does not see those. The second is about plans that spell
  paths as the scan does (`Plain`): under another spelling the planner's own check
  of an empty directory does not see what is in it, see
  [below](#where-the-code-and-its-documentation-disagree).
- `KeptWhereEndsMeet`: a decision that was answered for is read back once if the
  writer and the loader end the table at the same line, and never if they do not.
- `DecidesWhatWasShown` (Review) holds as long as no KPI row above went or broke
  since the brief.
- `ReachExactly`, `SafeMeansQuiet`, `ReadyHasNoCritical`, `EdgesAnswerEachOther`
  (ExecutiveView): in every order of iteration, with any outage.
- `RunsWhatIsRecorded`, `CompletedAsShown`, `OneSiteReported` (Answering).

The `TypeOK` of modules other than `Operations` is in no run: the actions keep
it by their shape. It is proved for all modules.

Where the code tests conditions in order and they overlap, the modules have
`IF ... THEN ... ELSE`: the arms of a TLA+ `CASE` have no order.

**Fairness.** `FounderJobs`: weak fairness of each run's own steps and of the
decision handler: a thread that has started goes on, and providers have a
client timeout, so a stream returns or raises. Nobody is assumed to submit,
open a page or decide. `Engineering`: weak fairness of `Step(r)`, the process's
next step, because the LLM (120 s), the tests (120 s) and git (30 s) all have
timeouts; `Trouble` (errors, kills) and the start of a run are not fair.
`EngineeringJobs`: weak fairness of a job's thread; nobody has to ask.
`DependencyEngines`: weak fairness of `Next`, a sequential loop.
`Notifications`: weak fairness of the handler in progress and strong fairness of
the clock, which is placed between handlers and does not stop for them. The
other modules state no liveness: their handlers have no loop.

`CHECK_DEADLOCK FALSE` where the model stops when all bounded work is done
(every number used, every run or job ended, every plan carried out), as the
program waits for its users: `operations`, `operations_sop`, `founder_jobs`,
`engineering`, `engineering_jobs`, `dependency_engines`,
`repository_manipulation` and `job_cause`. The other runs check for deadlock.

**Bounds.** `MaxOps`, `MaxDecisions`, `MaxCrashes` (Operations), `MaxJobs`
(FounderJobs), `MaxBeats`, `MaxAcks`, `MaxCrashes` (Notifications),
`MaxRestarts` (EngineeringJobs), `MaxOps` (RepositoryManipulation), `MaxRows`,
`MaxEdits`, `MaxDecisions` (Review), `MaxChanges` (ExecutiveView), `MaxTokens`,
`MaxEdits` (Answering): guards of the actions that would exceed them. `MaxFixes`
is not a bound but `WorkflowConfig.max_corrections` (3 by default).

## Proofs

| Module | Theorems |
|---|---|
| `IdSequenceProof` | lemmas: sets of naturals have a least element, bounded ones a greatest; the next file number is new; the next log number is greater than all, below the limit; in a finite set that is ordered each rank has one element, so a filter leaves each element it keeps once and in order (`NthIs`, `OnlyIs`); any number of steps can be made, so that what is defined by iteration exists (`IterationExists`) |
| `OperationsProof` | `Inv` is inductive (`InitInv`, one lemma per action, `NextInv`); `TypeCorrect`, `HistoryHolds`, `CitesHolds`, `IdsDistinct`, `EvidenceHolds`, `RecordedHolds`, `TerminalHolds`, `NumbersHold`, `StepsHold`; `Refinement`: `Operations` implements `OperationLedger` |
| `FounderJobsProof` | `JobsTypeCorrect`, `StreamIdsDistinctHolds`, `EndIsRecordedHolds`; `BoardRefinement`: `FounderJobs` implements `JobBoard`; of `Review`: `DecisionsKept`, `DecidesHolds`, `ReviewTypeHolds` |
| `EngineeringProof` | `EngineeringTypeCorrect`, `EveryOperationRunsHolds`, `CleanAfterSuccessHolds`, `GatesHold`, `CommittedWasTested`; of `EngineeringJobs`: `JobsTypeCorrect`, `NeverShownHolds`, `AnsweredHolds` |
| `NotificationsProof` | `TypeCorrect`, `LatestReportHolds`, `AcknowledgedHolds`; of `ExecutiveView`: `EdgesAnswerHolds`, `ReadyHolds`, `ReachHolds`, `SafeHolds`, `ViewTypeHolds` |
| `RepositoryManipulationProof` | `TypeCorrect`, `ValidPlansHold`, `NothingLostHolds` |
| `DependencyEnginesProof` | `TypeCorrect`, `CyclesFound`, `OrderHolds` |
| `AnsweringProof` | `TypeCorrect`, `RunsRecordedHolds`, `CompletedHolds`, `OneSiteHolds` |

All for every number of operations, decisions, crashes, jobs, runs, items and
files, and every outcome, recommendation, SOP, plan, graph, business and test
suite, from the named assumptions of the modules and what a theorem itself
assumes. Each module states its assumptions where it declares its constants
(`EngineeringJobsAssumption`, `ContextGraphAssumption`, `ExecutiveViewAssumption`
and the like), and TLC evaluates them on every run of it: in `ExecutiveView` that
every object has a status, that fields refer to objects of their kind or to none
(`IsWorld`) and that an order of iteration lists each object once (`IsListing`);
in `Review` that a business starts with tables of rows, and that a decision log has
a table, a header and below it one separator, and numbered rows (`IsLog`): in one
without a line of dashes the writer raises and no decision is made.
The only hypothesis of a theorem beside these is `~AnyClient`, of the two about
decisions in `FounderJobs`.

Three proof modules extend two components: `EngineeringJobs`, `Review` and
`ExecutiveView` therefore name their specifications `ApiSpec`, `ReviewSpec` and
`ViewSpec`, and what belongs to them alike.

*Operations.* `HistoryAgrees` and the others are not inductive: in the middle of
a handler they hold because of what that handler knows. `IInv` adds it:
`SavingInv` (the record being saved continues the one last written),
`HoldingInv` (between saves the record in memory is the one in the file, and an
operation about to be logged has no row), `DecidingInv` (a decision in progress
is newer than the table), `TablesInv` (a table is open only while its writer is
at work, and the place of the next row is inside it), `CitingInv`, `RecordingInv`.
A crash during the rewrite may leave any beginning: such a part still has rows of
the operations they were written for, and numbers that are distinct, which is why
`HistoryAgrees` and `LogIdsDistinct` survive it; that the numbers grow from row to
row, and that cited rows are there, only holds of a table that was never cut. The step for `RecordingInv` is the
argument of the code's authors: the closed record is saved before the row is
appended, so without a crash either the row is there or the handler is on its
way. Action properties and the refinement follow from the invariant and one
lemma per kind of step: only `FinishSave` changes a record and only `WriteLog`
the table.

*FounderJobs.* The invariant says that every number in use by a stream has a
file or belongs to the handler in progress; `NextJobIsFree` (from `IdSequence`)
then gives distinctness. For the board, `KeptInv` says of every file that one run
only has opened what its record is, from where that run stands (`Fits`), and that
the desk has it in hand only when it is completed, after which its owner writes no
more: so no two saves of it overlap, and a save of a record loaded earlier undoes
nothing. `EndInv` says that the file of a run that has ended loads (`Whole`), but
for a decision in the middle of rewriting it or cut short there. `QuietKeeps` disposes of every step at the files it does not touch;
`StepAt` maps the step at the file it writes to a step of the board. Both
theorems assume `~AnyClient`: through the page a decision follows the completed
record, while the endpoint itself takes one at any time.

*Engineering.* `NothingReadyAllDone` is the completeness of Kahn's algorithm: if
nothing of a plan is ready and something is not done, what is not done depends
on itself, which `detect_cycle` has refused. `detect_cycle` keeps one operation of
each id, so what is left out of a plan that has passed it includes an operation
whose id is shared (`DoneInv`); `MCSameId.cfg` is an instance. `StepCases` reduces
`Next` to a few kinds of step; the other theorems follow from it, for any number of
runs at once and any plans. `MetInv` says that two runs at work have met, so what
another run changes is contended for good (`InHandContended`, `OthersLeave`): what
is in hand has passed the gate (`ParsedInv`) unless it is contended.
`CommittedWasTested` rests on `TestedInv`: the operations that are done are staged
as they stand in the tree, and the tests accept the tree if the run was alone. A
write of the next operation does not disturb it because no file is named twice in a
plan that passed the check.

*EngineeringJobs.* The record in the thread's memory is one step ahead of the
file: `JobInv` says which statuses the two have at each place of the thread, and
that no client was shown more than the file has. So a handler that reads the file
shows what was written last or fails, and nothing earlier.

*Notifications.* `WritingInv`: the heartbeat being written has a number above all
others, because `NextFileId` counts torn files too. It is therefore the latest at
the moment it becomes readable and does not count before, which is `TellsInv`.
`GivenInv` says where the acknowledgements that were answered are: in the file,
or, while it is empty, in the memory of the handler.

*Review.* `Table` names the three lines that matter in a log: the separator, where
the loader ends the table and where the writer puts its row (`EndsAre`,
`WriterEndIs`). A row put there moves them in a way that keeps the ends apart or
together (`TableGrows`), and has a number above all others (`NextDecisionIsNew`). So
every decision that was answered for has one row, between the separator and the
loader's end where the ends meet and outside of it where they do not (`Landed`,
`LandedGrows`).

`DecidesWhatWasShown` compares two reviews, the one the founder saw and the one
that acting makes. `Means` says what an id stands for in the tables as they are:
a row of that id, or the KPI of that number among those that load. Whatever a
review recommends, its id means its subject (`RecommendationsAre`, through every
rule and the ranking), so it is enough that the ids shown keep their meaning
(`ShownInv`). The founder's edits are the steps that could break it: a row that is
added comes behind the others and a row that is measured again keeps its place,
so each KPI keeps its number (`NumbersStay`); a row that goes or breaks does not,
which is what `rowLost` records. The same lemmas give `ReviewTypeHolds`: six
scores from 1 to 5 with weights that make up 100 leave every priority between 100
and 500.

*ExecutiveView.* For the edges, `ResourceOf` and `BusinessOf` reduce the eleven
lists of edges to one condition, a capability that both objects share; what is
left are the fields that name an object directly, and the sides agree on those
(`Holds`, `GoalHas`, ..., `CapabilityHas`). The invariant is that fields refer to
objects of their kind, or to none (`IsWorld`); a change of status keeps it. For
readiness the invariant is where the objects come from: one at critical risk is
one that its category checks, and a category that is skipped because its runtime
is not configured has no objects (`CriticalBlocks`).

For the reach, the walk of `impact_engine.py` is compared with rings: `N[n]` is
what *n* relations or fewer reach from the source (`Rings`, which `Near` is). The
invariant (`Walk`) says of the beginning of every level that the source and what
is listed make up the ring before, that the frontier adds what the next ring
adds, and what is visited: the source, the frontier and what is listed below the
first level. The first level is listed without being visited, so its objects may
be found again, and then they are listed a second time, at a greater depth; that
happens once, because the second time they are visited (`Once`), and the first
entry is still at the distance (`AtDistance`). `WalkBegins`, `WalkGoesOn` and
`WalkEnds` are the three kinds of step; a frontier that adds nothing ends the
rings too (`RingsStop`), in whatever order the relations were iterated.

For the verdict: `_propagate_inherited_risk` gives an object the highest risk found
through it, less one. So an object that is raised to high or critical owes that to
one further out that is more at risk; the last of such a row is so on its own
account (`InheritedNeverDecides`, by the deepest entry that could be an
exception). The order of iteration, which decides who inherits from whom, does not
reach the verdict.

The rings and the inherited risk are functions defined by recursion. The prover
accepts their equation only where such a function exists, which `IterationExists`
gives: any number of steps can be made from any start.

*RepositoryManipulation.* The planner's two sets and a tree agree (`Agree`) for as
long as no entry is simulated as two things. So there is a sequence of trees, one
after each planned change, that the adapter leaves one after another
(`PlanInv`), and carrying out walks along it. Without such an entry it leads to
the simulated tree, which is `ValidPlansApply`; with one, the first change that
made it is refused by the adapter, so nothing after it is lost either, which is
the case `NothingLostUnasked` has and the other leaves out. The assumptions say
that directories nest (`Above`) and that the scan spells what is above a path.

*DependencyEngines.* `OnCycle` is a closure: every set that holds what the item
needs, and what that needs, holds the item. The stack is a path of the graph, so
an item met again on it lies on a cycle; while nothing is reported the items that
were left are closed under the edges, so none of them lies on one. For the
order, the degree of an item counts what it needs and is not placed yet; when the
queue is empty, what is left over needs something left over.

*Answering.* `RecordInv`: from the moment the handler writes the record the index
exists and is never rebuilt, so the stream's second match finds the same.
`SentInv` and `CompletedAsShown` say what was sent at each place of the request,
`PagesInv` which pages were asked for at each. The proofs do not look into the
matching: `FindExecutable` is any function of the index and the words.

Proof attempts changed the models: `NothingLostUnasked` was false for plans with
other spellings, which the requests of the run did not include; definitions with
overlapping `CASE` arms could not be reasoned about, nor lists defined by the
recursion of `SelectSeq` and `SortSeq`; and `ExecutiveView` had not said that every
object has a status and that an order of iteration lists each object once, without
which the walk leaves objects out.

*Only model-checked*: liveness (both `Ends`, `EveryJobEnds`, `RunsWhatCanRun`,
`SilenceIsNoticed`), which is out of the prover's reach as `ENABLED` is. Every
invariant and every action property of the passing runs is a theorem.

## Where the code and its documentation disagree

One is a run of the project:

| Run | Disagreement |
|---|---|
| `job_cause` | `EngineeringJobRunner._run_pipeline` calls `coordinator.execute(goal)` without the `snapshot` the method requires (`kernel/engineering_job_runner.py:225`), so every engineering job of the API ends failed; `tests/test_engineering_job_runner.py:61` says "test_run_success_transitions_to_completed", of a mocked coordinator |

The others are instances to run by hand, `tlc -config <cfg> <module>`; each ends
with a counterexample to the property it names:

| cfg, module | Property | Disagreement |
|---|---|---|
| `MCApprove.cfg`, `MCOperations` | `ApprovesOnlyEscalated` | `approve_operation` accepts an operation that was only created; its docstring (`service.py:347`) says "Raises InvalidTransitionError if not in awaiting_escalation state." |
| `MCOutcome.cfg`, `MCOperations` | `OutcomeRecorded` | completed while `Operations.md` is missing, an operation has no row and completing it again raises; `service.py:379` says "then appends a historical record to the business's Operations.md file" |
| `MCLogIds.cfg`, `MCOperations` | `NextIdIsSequential` | `OPS-(\d{3})` reads 100 of `OPS-1000`, so after row 1000 the number repeats; `kernel/operation_id_bk.py:4` says it "returns the next sequential ID". Three decimal digits are scaled down to one binary digit: what matters is that the number outgrows the pattern |
| `MCJobIds.cfg`, `MCFounderJobs` | `IdsUnique` | the gateway and `hermes job run` can take one number; `kernel/job_id.py:3` says "Produces unique, human-readable IDs" |
| `MCSameId.cfg`, `MCEngineering` | `EachExecuted` | of two operations with one id in an LLM's plan the first is silently skipped and the run succeeds; `docs/bootstrap/BOOTSTRAP.md:178` says "exactly once per `PlannedOperation`" |
| `MCPromptCwd.cfg`, `MCEngineering` | `CorrectionSeesAttempt` | the correction prompt reads the failed file relative to the process's directory (`kernel/correction_engine.py:519`); its docstring says "Current implementation (read from disk — the failed attempt)." |
| `MCDecisionLog.cfg`, `MCReview` | `DecisionsAreKept` | in `businesses/AKosmicAnimals/Decisions.md` the table is closed on line 37 and a rule of dashes follows on line 39, in the same section: `DecisionWriter` puts the row above the last, `_parse_table` stops at the first, so a decision that was answered for is never read back; `kernel/decision_writer.py:133` says "Insert the new row before the closing boundary" |
| `MCCutLog.cfg`, `MCOperations` | `CitedNumberStands` | a crash while `Decisions.md` is rewritten may take the last rows; the number of one that an operation cites is then given to another decision; `businesses/AKosmicAnimals/Decisions.md:7` says "is the permanent log of strategic decisions" |
| `MCRenamed.cfg`, `MCReview` | `RecommendationsAreImmutable` | KPI recommendations are numbered by position, so after a row above is removed an id names another subject; `service.py` says "Recommendations are immutable" |
| `MCMoves.cfg`, `MCRepositoryManipulation` | `PlanIsEnough` | a plan with a rename or move is valid, but `FilesystemOperation` (`models/filesystem_adapter.py:59`) has no such action and the adapter refuses it; `kernel/repository_manipulation.py:31` says the plan has what the adapter "needs to execute the change set" |
| `MCDeleteNotEmpty.cfg`, `MCRepositoryManipulation` | `NotEmptyIsAConflict` | `_normalise_path` keeps a leading `./` and `has_contents` compares prefixes as they are spelled (`kernel/repository_manipulation.py:436`): after `create_directory ./d` the plan may delete `./d` without `recursive` although `d` holds a file; `models/repository_manipulation.py:70` says "DIRECTORY_NOT_EMPTY → delete_directory target is not empty and recursive=False" |

Also seen while modelling:

- Jobs. `job_decision` accepts a job that still runs (`AnyClient = TRUE` makes
  `ImplementsBoard` fail). A workflow that raises is recorded as a completed job
  whose output is the line that says so. The router's "Never raises" does not
  cover provider errors. When an executor does not load, the record names the
  capability although the CEO answered alone. A truncated or empty answer is
  recorded as completed; the chat stream of a provider that times out ends
  without `[DONE]`.
- Engineering. Nothing locks the repository: of a file that two runs at once plan to
  write, one may stage what only the other's gates saw. What a failed run has staged
  is committed by the next one, by an empty plan without any test.
- Review. A crash between `Decisions.md` and the operation leaves an approved
  decision without its operation. Acting twice on one recommendation makes two
  decisions. An incomplete first row shadows a later complete one of its id.
  `Decision.goal_id` is never set; the sources of lessons never equal a
  bottleneck's category; a goal at risk or blocked gives an "unknown status"
  warning.
- Executive view. A Docker, n8n or NocoDB that cannot be reached comes back as an
  empty list, and its category as ready; exited containers neither warn nor
  block. Registries are indexed once and `reload` has no caller. Databases,
  tables, providers and models are asked for twice in a request, and the two
  answers may differ. An object of depth one is listed twice
  (`tests/test_impact_engine.py:719` expects it). The inherited score depends on
  the order of a `frozenset`, although
  `docs/architecture/hermes-os-v3.0-baseline.md:1051` promises "identical
  results". The edges of operations, and between models and tables, are not
  symmetric, although `impact_engine` says "edges are already symmetric".

## What is not modelled

The wording of prompts, rows and pages, logging, HTTP. The model router, the
conductor of `kernel/` and prompt compression: pure choices on one call, and the
conductor has no caller. Repository intelligence, workspace reading, most
registries and the format of requests to other services: functions of files or
of a remote answer, without state; their results are inputs of the modules above.
The Docker adapter and the actions of the git adapter other than add and commit,
which have no caller in the program. The command line, but for `job run` and
`implement`. Several workspaces: each has its own directory and nothing is shared.
More than one day: the numbers of files restart each day under a new date.
Several gateway processes: the deployment starts one.

## Plan

The order: what can corrupt the Founder's records first, then what changes
repositories, then background work, then what is computed from the files.

1. `IdSequence`, `OperationRuntime`, `Operations`, `OperationLedger`: done,
   checked, proved.
2. `FounderJobs`, `JobBoard`: done, checked; safety proved.
3. `Engineering`: done, checked; safety proved.
4. `RepositoryManipulation`, `EngineeringJobs`, `Notifications`,
   `DependencyEngines`: done, checked; safety proved.
5. `Answering`, `Review`, `ContextGraph`, `ExecutiveView`: done, checked; safety
   proved.

Left:

6. Model routing: the approval of an expensive model is not bound to the decision
   it was asked for, `LOCAL_ONLY` and `CLOUD_ONLY` fall back, and the truncation
   marker may exceed the budget it is meant to keep. Pure functions, one call
   each: reference definitions over bounded inputs.
7. `ValidPlansApply` for the order in which `Engineering` carries operations out
   (Kahn's, not the plan's), once the program executes deletes and moves.
