------------------------------ MODULE Answering ------------------------------
(***************************************************************************)
(* How a founder's objective is answered: run_founder_job and the chat     *)
(* endpoint of the gateway, the match of capabilities by keyword, the      *)
(* workflow of the matched capability (web research and a report), the     *)
(* CEO profile that reviews the report or answers alone, and the record    *)
(* that is left.                                                           *)
(*                                                                         *)
(* The handler matches once, for the record of the job.  The stream is a   *)
(* generator that a pool thread pulls later: it matches again, and what it *)
(* decides then is what runs.  One request is in progress at a time here;  *)
(* streams share nothing but the index of capabilities.  How the record    *)
(* reaches its file is the subject of FounderJobs.                         *)
(***************************************************************************)
EXTENDS Integers, SequencesExt

CONSTANTS
    None,
    Folders,      \* what the skills directory may hold: manifests in path order
    Objectives,   \* [kind, words, com]: a job or a chat, the keywords in it, and
                  \* whether the domain inferred for the company ends in .com
    Loadable,     \* workflow executors that import and are callable
    LeadResearch, \* the executor of the lead research workflow
    Home,         \* the home page of a site
    Paths,        \* the pages a workflow asks a site for, the home page included
    Tlds,         \* number of alternative domains
    MaxTokens,    \* bound: tokens of an answer
    MaxEdits      \* bound: changes of the skills directory

ASSUME AnsweringAssumption ==
    /\ Home \in Paths
    /\ LeadResearch \in Loadable
    /\ \A o \in Objectives : o.kind \in {"job", "chat"} /\ o.com \in BOOLEAN
    /\ {Tlds, MaxTokens, MaxEdits} \subseteq Nat

VARIABLES
    folder,   \* the skills directory
    index,    \* the capabilities in memory, None before the first use
    edits,    \* changes of the directory so far
    at,       \* where the request is
    ask,      \* the objective
    label,    \* the capability the handler wrote into the record, None for "ceo"
    chosen,   \* the capability the stream decided on, None for the CEO alone
    pages,    \* pages fetched, of which site and whether they answered
    probed,   \* alternative domains asked
    report,   \* what became of the workflow
    sent,     \* what the browser has received
    job       \* the record of the job

vars == <<folder, index, edits, at, ask, label, chosen, pages, probed, report, sent, job>>

Points == {"idle", "opened", "site", "probe", "wiki", "report",
           "ceo", "noted", "failing", "closed"}
NoJob == [status |-> "none", output |-> <<>>]
Wiki  == [site |-> Tlds + 1, path |-> Home]  \* the article of Wikipedia

-----------------------------------------------------------------------------
(* CapabilityRegistry *)

\* _build_index: every capability of every manifest; the first manifest that
\* declares a capability has it.
Entries(f) == FlattenSeq([m \in DOMAIN f |->
                 [c \in DOMAIN f[m].caps |->
                    [id |-> f[m].caps[c], keywords |-> f[m].keywords,
                     executor |-> f[m].executor]]])
BuildIndex(f) ==
    LET all == Entries(f)
        first == SetToSortSeq({i \in DOMAIN all : \A j \in 1 .. i - 1 : all[j].id # all[i].id}, <)
    IN [k \in DOMAIN first |-> all[first[k]]]

\* None stands for the registry before its first use.
ASSUME NoneIsNoIndex == \A f \in Folders : BuildIndex(f) # None

\* Faulty variant: every use rebuilds the index.
EnsureReloaded == BuildIndex(folder)

\* _ensure_built
EnsureBuilt == IF index = None THEN BuildIndex(folder) ELSE index

\* match: by keyword, the kernel capability when there is none.
Match(caps, words) ==
    LET hit(c) == c.keywords \cap words # {}
        kernel(c) == c.id = "kernel"
    IN IF \E i \in DOMAIN caps : hit(caps[i]) THEN SelectSeq(caps, hit)
                                              ELSE SelectSeq(caps, kernel)

\* find_executable_capability: the first match with a workflow.
FindExecutable(caps, words) ==
    LET able(c) == c.executor # None
        some == SelectSeq(Match(caps, words), able)
    IN IF some = <<>> THEN None ELSE Head(some)

-----------------------------------------------------------------------------
TypeOK ==
    /\ folder \in Folders
    /\ index \in {None} \cup {BuildIndex(f) : f \in Folders}
    /\ edits \in 0 .. MaxEdits
    /\ at \in Points
    /\ ask \in Objectives \cup {None}
    /\ pages \subseteq [site : 0 .. Tlds + 1, path : Paths, ok : BOOLEAN]
    /\ probed \in 0 .. Tlds
    /\ report \in {"none", "written", "raised"}
    /\ sent \in Seq({"ceo", "note"})
    /\ job.status \in {"none", "running", "completed", "failed"}

Init ==
    /\ folder \in Folders
    /\ index = None
    /\ edits = 0
    /\ at = "idle"
    /\ ask = None /\ label = None /\ chosen = None
    /\ pages = {} /\ probed = 0 /\ report = "none"
    /\ sent = <<>>
    /\ job = NoJob

\* A person edits the skills; nothing tells the registry.
EditSkills(f) ==
    /\ edits < MaxEdits
    /\ f # folder
    /\ folder' = f
    /\ edits' = edits + 1
    /\ UNCHANGED <<index, at, ask, label, chosen, pages, probed, report, sent, job>>

-----------------------------------------------------------------------------
(* The request *)

\* run_founder_job saves the record and returns the stream; chat routes only
\* what some workflow can answer and asks the CEO directly otherwise.
Accept(o) ==
    /\ at \in {"idle", "closed"}
    /\ index' = EnsureBuilt
    /\ ask' = o
    /\ LET found == FindExecutable(index', o.words) IN
       /\ label' = found
       /\ at' = IF o.kind = "chat" /\ found = None THEN "ceo" ELSE "opened"
    /\ chosen' = None /\ pages' = {} /\ probed' = 0 /\ report' = "none" /\ sent' = <<>>
    /\ job' = IF o.kind = "job" THEN [NoJob EXCEPT !.status = "running"] ELSE NoJob
    /\ UNCHANGED <<folder, edits>>

\* route, when the first token is asked for.  An executor that does not load
\* leaves the objective to the CEO.
Route ==
    /\ at = "opened"
    /\ index' = EnsureBuilt
    /\ LET found == FindExecutable(index', ask.words) IN
       /\ chosen' = found
       /\ at' = IF found # None /\ found.executor \in Loadable THEN "site" ELSE "ceo"
    /\ UNCHANGED <<folder, edits, ask, label, pages, probed, report, sent, job>>

-----------------------------------------------------------------------------
(* The workflows; a fetch answers or not, it never raises *)

PagesOf(s, asked, up) == {[site |-> s, path |-> p, ok |-> p \in up] : p \in asked}
Wrote(next) == at' = next /\ UNCHANGED <<folder, index, edits, ask, label, chosen, report, sent, job>>

\* _fetch_domain_pages and fetch_competitor_profile, of the guessed domain.
FetchSite(up) ==
    /\ at = "site"
    /\ pages' = PagesOf(0, Paths, up)
    /\ UNCHANGED probed
    /\ Wrote(IF chosen.executor # LeadResearch THEN "report"
             ELSE IF up = {} /\ ask.com /\ Tlds > 0 THEN "probe" ELSE "wiki")

\* Faulty variant: the pages of the alternative are added to the failed ones.
ProbeAdds(up) ==
    /\ at = "probe"
    /\ probed' = probed + 1
    /\ pages' = pages \cup PagesOf(probed', Paths, {Home} \cup up)
    /\ Wrote("wiki")

\* The first alternative whose home page answers takes the place of the site.
Probe(up) ==
    /\ at = "probe"
    /\ probed' = probed + 1
    /\ pages' = PagesOf(probed', Paths, {Home} \cup up)
    /\ Wrote("wiki")

ProbeFails ==
    /\ at = "probe"
    /\ probed' = probed + 1
    /\ UNCHANGED pages
    /\ Wrote(IF probed' = Tlds THEN "wiki" ELSE "probe")

FetchWiki(ok) ==
    /\ at = "wiki"
    /\ pages' = pages \cup {[site |-> Wiki.site, path |-> Wiki.path, ok |-> ok]}
    /\ UNCHANGED probed
    /\ Wrote("report")

\* The profile of the workflow writes the report; the CEO will review it.
Report ==
    /\ at = "report"
    /\ report' = "written"
    /\ at' = "ceo"
    /\ UNCHANGED <<folder, index, edits, ask, label, chosen, pages, probed, sent, job>>

\* Faulty variant: the CEO answers, as for an executor that does not load.
WorkflowFallsBack ==
    /\ at = "report"
    /\ report' = "raised"
    /\ at' = "ceo"
    /\ UNCHANGED <<folder, index, edits, ask, label, chosen, pages, probed, sent, job>>

\* The profile is missing, or the provider raises or times out: the router
\* yields a line that says so, and its stream ends.
WorkflowRaises ==
    /\ at = "report"
    /\ report' = "raised"
    /\ at' = "noted"
    /\ sent' = Append(sent, "note")
    /\ UNCHANGED <<folder, index, edits, ask, label, chosen, pages, probed, job>>

-----------------------------------------------------------------------------
(* The answer *)

Token ==
    /\ at = "ceo"
    /\ Len(sent) < MaxTokens
    /\ sent' = Append(sent, "ceo")
    /\ UNCHANGED <<folder, index, edits, at, ask, label, chosen, pages, probed, report, job>>

Close(record) ==
    /\ at' = "closed"
    /\ job' = record
    /\ UNCHANGED <<folder, index, edits, ask, label, chosen, pages, probed, report, sent>>

\* The provider's answer is over, or its connection was closed early: the job
\* is completed with what has been sent.
Complete ==
    /\ at \in {"ceo", "noted"}
    /\ Close(IF ask.kind = "job" THEN [status |-> "completed", output |-> sent] ELSE job)

\* The provider raises, or the record cannot be saved.
Raise ==
    /\ \/ at = "ceo"
       \/ at = "noted" /\ ask.kind = "job"
    /\ at' = "failing"
    /\ UNCHANGED <<folder, index, edits, ask, label, chosen, pages, probed, report, sent, job>>

\* _sse_job_stream sends the error and saves a failed record without output;
\* _sse_stream sends it, or lets an exception it does not know through.
Fail ==
    /\ at = "failing"
    /\ Close(IF ask.kind = "job" THEN [status |-> "failed", output |-> <<>>] ELSE job)

\* The browser goes away while the stream waits at a token, the save of a
\* failed record raises, or the gateway dies.
CutShort ==
    /\ at = "failing" \/ at = "opened" \/ sent # <<>>
    /\ at # "closed"
    /\ Close(job)

Restart ==
    /\ at # "idle"
    /\ at' = "closed"
    /\ index' = None
    /\ UNCHANGED <<folder, edits, ask, label, chosen, pages, probed, report, sent, job>>

-----------------------------------------------------------------------------
Step ==
    \/ Route
    \/ \E up \in SUBSET Paths : FetchSite(up) \/ Probe(up)
    \/ ProbeFails
    \/ \E ok \in BOOLEAN : FetchWiki(ok)
    \/ Report \/ WorkflowRaises
    \/ Complete \/ Raise \/ Fail

Next ==
    \/ \E f \in Folders : EditSkills(f)
    \/ \E o \in Objectives : Accept(o)
    \/ Step
    \/ Token
    \/ CutShort \/ Restart

Spec == Init /\ [][Next]_vars

-----------------------------------------------------------------------------
(* Properties *)

\* The capability the record of a job names is the one the stream ran, or
\* tried to: the two matches see one index, however the skills change between
\* them (CapabilityRegistry is built once; run_founder_job, route).
RunsWhatIsRecorded ==
    ask # None /\ ask.kind = "job" /\ at \notin {"opened", "closed"} => chosen = label

\* A completed job holds exactly what the browser has seen: the words of the
\* CEO, or, when the workflow raised, the line that says so and nothing else.
\* A report is not shown before the CEO has reviewed it, and no answer of the
\* CEO hides that the workflow failed (FounderJobRouter.route).
CompletedAsShown ==
    job.status = "completed" =>
        /\ job.output = sent
        /\ IF report = "raised" THEN sent = <<"note">>
                                ELSE \A i \in DOMAIN sent : sent[i] = "ceo"

Site(s) == {p \in pages : p.site = s}
Answered(s) == \E p \in Site(s) : p.ok

\* A report is written from the pages of one site of the company, all that
\* are asked for: the guessed domain, or the first alternative that answers,
\* which is asked for only when nothing of the guessed domain did; a report on
\* nothing means that every alternative was tried (_fetch_company_profile).
OneSiteReported ==
    at = "report" =>
        \E s \in 0 .. Tlds :
            /\ {p.path : p \in Site(s)} = Paths
            /\ pages \ Site(s) \subseteq Site(Wiki.site)
            /\ s > 0 => s = probed /\ Answered(s)
            /\ ask.com /\ ~ Answered(s) /\ chosen.executor = LeadResearch => probed = Tlds
=============================================================================
