--------------------------- MODULE AnsweringProof ----------------------------
(***************************************************************************)
(* What runs is what the record says, what is recorded is what was shown,  *)
(* and a report is on one site, for any skills, any objectives, any number *)
(* of alternative domains and any number of changes of the skills.         *)
(***************************************************************************)
EXTENDS Answering, TLAPS

USE AnsweringAssumption, NoneIsNoIndex

\* The index has been built when the handler writes the record, and what it
\* finds is what the stream finds.
RecordInv ==
    /\ at = "opened" => index # None /\ label = FindExecutable(index, ask.words)
    /\ at \notin {"opened", "closed"} => chosen = label

\* What has been sent, by where the request is.
SentInv ==
    /\ at \in {"opened", "site", "probe", "wiki", "report"} => sent = <<>> /\ report = "none"
    /\ at = "noted" => report = "raised" /\ sent = <<"note">>
    /\ at = "ceo" => report # "raised" /\ \A i \in DOMAIN sent : sent[i] = "ceo"
    /\ at # "closed" => job.status # "completed"

\* P are all the pages asked of site s, of which up answered.
SitePages(P, s, up) ==
    /\ up \subseteq Paths
    /\ \A p \in P : p.site = s /\ (p.ok <=> p.path \in up)
    /\ {p.path : p \in P} = Paths

\* P is what is fetched of the company; the alternatives were tried if need be.
Company(P) ==
    \E s \in 0 .. Tlds, up \in SUBSET Paths :
        /\ SitePages(P, s, up)
        /\ s > 0 => s = probed /\ Home \in up
        /\ s = 0 /\ up = {} /\ ask.com /\ chosen.executor = LeadResearch => probed = Tlds

PagesInv ==
    /\ at \in {"opened", "site"} => probed = 0
    /\ at \in {"opened", "site", "probe", "wiki", "report"} => ask \in Objectives
    /\ at = "probe" => /\ probed < Tlds /\ ask.com /\ chosen.executor = LeadResearch
                       /\ SitePages(pages, 0, {})
    /\ at = "wiki" => Company(pages)
    /\ at = "report" => Company(pages \ Site(Wiki.site))

Inv == TypeOK /\ RecordInv /\ SentInv /\ PagesInv /\ CompletedAsShown

-----------------------------------------------------------------------------
(* Pages *)

LEMMA PagesOfSite ==
    ASSUME NEW s \in 0 .. Tlds, NEW up \in SUBSET Paths
    PROVE  /\ SitePages(PagesOf(s, Paths, up), s, up)
           /\ PagesOf(s, Paths, up) \subseteq [site : 0 .. Tlds + 1, path : Paths, ok : BOOLEAN]
<1> DEFINE page(p) == [site |-> s, path |-> p, ok |-> p \in up]
<1>1. ASSUME NEW p \in Paths
      PROVE  /\ page(p).site = s /\ page(p).path = p /\ (page(p).ok <=> p \in up)
             /\ page(p) \in [site : 0 .. Tlds + 1, path : Paths, ok : BOOLEAN]
  <2>1. (p \in up) \in BOOLEAN
    OBVIOUS
  <2>2. PICK b \in BOOLEAN : b = (p \in up)
    BY <2>1, Zenon
  <2>3. page(p) = [site |-> s, path |-> p, ok |-> b]
    BY <2>2, Zenon
  <2>4. /\ [site |-> s, path |-> p, ok |-> b] \in [site : 0 .. Tlds + 1, path : Paths, ok : BOOLEAN]
        /\ [site |-> s, path |-> p, ok |-> b].ok = b
        /\ [site |-> s, path |-> p, ok |-> b].path = p
        /\ [site |-> s, path |-> p, ok |-> b].site = s
    OBVIOUS
  <2> QED BY <2>2, <2>3, <2>4, Zenon
<1>2. PagesOf(s, Paths, up) = {page(p) : p \in Paths}
  BY DEF PagesOf
<1> HIDE DEF page
<1>3. \A q \in PagesOf(s, Paths, up) : q.site = s /\ (q.ok <=> q.path \in up)
  BY <1>1, <1>2
<1>4. {q.path : q \in PagesOf(s, Paths, up)} = Paths
  BY <1>1, <1>2
<1>5. PagesOf(s, Paths, up) \subseteq [site : 0 .. Tlds + 1, path : Paths, ok : BOOLEAN]
  BY <1>1, <1>2
<1> QED BY <1>3, <1>4, <1>5 DEF SitePages

\* The pages of a site of the company are none of Wikipedia's.
LEMMA NotWiki ==
    ASSUME NEW s \in 0 .. Tlds, NEW up, NEW P, SitePages(P, s, up)
    PROVE  \A p \in P : p.site # Wiki.site
BY DEF SitePages, Wiki

-----------------------------------------------------------------------------
(* The invariant *)

LEMMA InitInv == Init => Inv
<1> SUFFICES ASSUME Init PROVE Inv
  OBVIOUS
<1> USE DEF Init
<1>1. TypeOK
  BY DEF TypeOK, Points, NoJob
<1>2. RecordInv /\ SentInv /\ PagesInv /\ CompletedAsShown
  BY DEF RecordInv, SentInv, PagesInv, CompletedAsShown, NoJob
<1> QED BY <1>1, <1>2 DEF Inv

LEMMA EditKeeps ==
    ASSUME Inv, NEW f \in Folders, EditSkills(f) PROVE Inv'
<1> USE DEF EditSkills, Inv
<1>1. TypeOK'
  BY DEF TypeOK
<1>2. RecordInv' /\ SentInv' /\ CompletedAsShown'
  BY DEF RecordInv, SentInv, CompletedAsShown
<1>3. PagesInv'
  BY DEF PagesInv, Company, Site
<1> QED BY <1>1, <1>2, <1>3

LEMMA EnsureBuiltIs ==
    ASSUME TypeOK
    PROVE  EnsureBuilt \in {BuildIndex(f) : f \in Folders} /\ EnsureBuilt # None
           /\ (index # None => EnsureBuilt = index)
BY DEF TypeOK, EnsureBuilt

LEMMA AcceptKeeps ==
    ASSUME Inv, NEW o \in Objectives, Accept(o) PROVE Inv'
<1> USE DEF Inv
<1>1. PICK found : found = FindExecutable(index', o.words)
  OBVIOUS
<1>2. /\ index' = EnsureBuilt /\ ask' = o /\ label' = found
      /\ at' = IF o.kind = "chat" /\ found = None THEN "ceo" ELSE "opened"
      /\ chosen' = None /\ pages' = {} /\ probed' = 0 /\ report' = "none" /\ sent' = <<>>
      /\ job' = IF o.kind = "job" THEN [NoJob EXCEPT !.status = "running"] ELSE NoJob
      /\ UNCHANGED <<folder, edits>>
  BY <1>1 DEF Accept
<1>3. job'.status \in {"none", "running"}
  BY <1>2 DEF NoJob
<1>4. TypeOK'
  BY <1>2, <1>3, EnsureBuiltIs DEF TypeOK, Points
<1>5. RecordInv'
  BY <1>1, <1>2, EnsureBuiltIs DEF RecordInv
<1>6. SentInv' /\ CompletedAsShown'
  BY <1>2, <1>3 DEF SentInv, CompletedAsShown
<1>7. PagesInv'
  BY <1>2 DEF PagesInv
<1> QED BY <1>4, <1>5, <1>6, <1>7

LEMMA RouteKeeps ==
    ASSUME Inv, Route PROVE Inv'
<1> USE DEF Inv
<1>1. PICK found : found = FindExecutable(index', ask.words)
  OBVIOUS
<1>2. /\ at = "opened" /\ index' = EnsureBuilt /\ chosen' = found
      /\ at' = IF found # None /\ found.executor \in Loadable THEN "site" ELSE "ceo"
      /\ UNCHANGED <<folder, edits, ask, label, pages, probed, report, sent, job>>
  BY <1>1 DEF Route
<1>3. TypeOK'
  BY <1>2, EnsureBuiltIs DEF TypeOK, Points
<1>4. RecordInv'
  BY <1>1, <1>2, EnsureBuiltIs DEF RecordInv
<1>5. SentInv' /\ CompletedAsShown' /\ PagesInv'
  BY <1>2 DEF SentInv, CompletedAsShown, PagesInv
<1> QED BY <1>3, <1>4, <1>5

\* A step that fetches pages.
LEMMA FetchKeeps ==
    ASSUME Inv, NEW next \in Points \ {"idle", "opened", "closed", "noted", "ceo"}, Wrote(next),
           at \in {"site", "probe", "wiki"}
    PROVE  RecordInv' /\ SentInv' /\ CompletedAsShown'
           /\ folder' \in Folders /\ index' \in {None} \cup {BuildIndex(f) : f \in Folders}
           /\ edits' \in 0 .. MaxEdits /\ at' \in Points /\ ask' \in Objectives \cup {None}
           /\ report' \in {"none", "written", "raised"} /\ sent' \in Seq({"ceo", "note"})
           /\ job'.status \in {"none", "running", "completed", "failed"}
<1> USE DEF Inv, Wrote
<1>1. RecordInv'
  BY DEF RecordInv
<1>2. SentInv' /\ CompletedAsShown'
  BY DEF SentInv, CompletedAsShown
<1> QED BY <1>1, <1>2 DEF TypeOK

LEMMA FetchSiteKeeps ==
    ASSUME Inv, NEW up \in SUBSET Paths, FetchSite(up) PROVE Inv'
<1>1. PICK next : /\ Wrote(next)
                  /\ next = IF chosen.executor # LeadResearch THEN "report"
                            ELSE IF up = {} /\ ask.com /\ Tlds > 0 THEN "probe" ELSE "wiki"
  BY DEF FetchSite
<1>2. /\ at = "site" /\ pages' = PagesOf(0, Paths, up) /\ probed' = probed
      /\ probed = 0 /\ ask \in Objectives /\ ask' = ask /\ chosen' = chosen /\ at' = next
  BY <1>1 DEF FetchSite, Wrote, Inv, PagesInv
<1>3. next \in {"report", "probe", "wiki"}
  BY <1>1
<1>4. 0 \in 0 .. Tlds /\ Tlds \in Nat
  OBVIOUS
<1>5. /\ SitePages(pages', 0, up)
      /\ pages' \subseteq [site : 0 .. Tlds + 1, path : Paths, ok : BOOLEAN]
  BY <1>2, <1>4, PagesOfSite
<1>6. /\ RecordInv' /\ SentInv' /\ CompletedAsShown'
      /\ TypeOK'
  BY <1>1, <1>2, <1>3, <1>4, <1>5, FetchKeeps DEF TypeOK, Points
<1>7. PagesInv'
  <2>1. CASE next = "report"
    <3>1. chosen.executor # LeadResearch
      BY <1>1, <2>1
    <3>2. Company(pages)'
      BY <1>2, <1>4, <1>5, <3>1 DEF Company
    <3>3. pages' \ Site(Wiki.site)' = pages'
      BY <1>4, <1>5, NotWiki DEF Site
    <3> QED BY <1>2, <2>1, <3>2, <3>3 DEF PagesInv
  <2>2. CASE next = "probe"
    <3>1. chosen.executor = LeadResearch /\ up = {} /\ ask.com /\ Tlds > 0
      BY <1>1, <2>2
    <3> QED BY <1>2, <1>4, <1>5, <2>2, <3>1 DEF PagesInv
  <2>3. CASE next = "wiki"
    <3>1. up = {} /\ ask.com => Tlds = 0
      BY <1>1, <1>2, <1>4, <2>3
    <3>2. Company(pages)'
      BY <1>2, <1>4, <1>5, <3>1 DEF Company
    <3> QED BY <1>2, <2>3, <3>2 DEF PagesInv
  <2> QED BY <1>3, <2>1, <2>2, <2>3
<1> QED BY <1>6, <1>7 DEF Inv

LEMMA ProbeKeeps ==
    ASSUME Inv, NEW up \in SUBSET Paths, Probe(up) PROVE Inv'
<1>1. /\ Wrote("wiki") /\ at = "probe" /\ at' = "wiki" /\ probed' = probed + 1
      /\ pages' = PagesOf(probed', Paths, {Home} \cup up)
      /\ ask' = ask /\ ask \in Objectives /\ probed < Tlds
  BY DEF Probe, Wrote, Inv, PagesInv
<1>2. probed' \in 0 .. Tlds /\ probed' > 0
  BY <1>1 DEF Inv, TypeOK
<1>3. {Home} \cup up \in SUBSET Paths
  OBVIOUS
<1>4. /\ SitePages(pages', probed', {Home} \cup up)
      /\ pages' \subseteq [site : 0 .. Tlds + 1, path : Paths, ok : BOOLEAN]
  BY <1>1, <1>2, <1>3, PagesOfSite
<1>5. RecordInv' /\ SentInv' /\ CompletedAsShown' /\ TypeOK'
  BY <1>1, <1>2, <1>4, FetchKeeps DEF TypeOK, Points
<1>6. Company(pages)'
  <2>1. \E t \in SUBSET Paths : t = {Home} \cup up
    BY <1>3
  <2> QED BY <1>2, <1>4, <2>1 DEF Company
<1>7. PagesInv'
  BY <1>1, <1>6 DEF PagesInv
<1> QED BY <1>5, <1>7 DEF Inv

LEMMA ProbeFailsKeeps ==
    ASSUME Inv, ProbeFails PROVE Inv'
<1>1. PICK next : next = (IF probed' = Tlds THEN "wiki" ELSE "probe") /\ Wrote(next)
  BY DEF ProbeFails
<1>2. /\ at = "probe" /\ at' = next /\ probed' = probed + 1 /\ pages' = pages
      /\ ask' = ask /\ ask \in Objectives /\ chosen' = chosen /\ probed < Tlds
      /\ ask.com /\ chosen.executor = LeadResearch /\ SitePages(pages, 0, {})
  BY <1>1 DEF ProbeFails, Wrote, Inv, PagesInv
<1>3. probed' \in 0 .. Tlds
  BY <1>2 DEF Inv, TypeOK
<1>4. RecordInv' /\ SentInv' /\ CompletedAsShown' /\ TypeOK'
  BY <1>1, <1>2, <1>3, FetchKeeps DEF Inv, TypeOK, Points
<1>5. CASE probed' = Tlds
  <2>1. Company(pages)'
    BY <1>2, <1>3, <1>5 DEF Company
  <2> QED BY <1>1, <1>2, <1>4, <1>5, <2>1 DEF PagesInv, Inv
<1>6. CASE probed' # Tlds
  BY <1>1, <1>2, <1>3, <1>4, <1>6 DEF PagesInv, Inv
<1> QED BY <1>5, <1>6

LEMMA FetchWikiKeeps ==
    ASSUME Inv, NEW ok \in BOOLEAN, FetchWiki(ok) PROVE Inv'
<1>1. /\ Wrote("report") /\ at = "wiki" /\ at' = "report" /\ probed' = probed /\ ask' = ask
      /\ pages' = pages \cup {[site |-> Wiki.site, path |-> Wiki.path, ok |-> ok]}
      /\ ask \in Objectives /\ chosen' = chosen /\ Company(pages)
  BY DEF FetchWiki, Wrote, Inv, PagesInv
<1>2. [site |-> Wiki.site, path |-> Wiki.path, ok |-> ok] \in
        [site : 0 .. Tlds + 1, path : Paths, ok : BOOLEAN]
  BY DEF Wiki
<1>3. RecordInv' /\ SentInv' /\ CompletedAsShown' /\ TypeOK'
  BY <1>1, <1>2, FetchKeeps DEF Inv, TypeOK, Points
<1>4. PICK s \in 0 .. Tlds, up \in SUBSET Paths :
        /\ SitePages(pages, s, up)
        /\ s > 0 => s = probed /\ Home \in up
        /\ s = 0 /\ up = {} /\ ask.com /\ chosen.executor = LeadResearch => probed = Tlds
  BY <1>1 DEF Company
<1>5. pages' \ Site(Wiki.site)' = pages
  BY <1>1, <1>4, NotWiki DEF Site
<1>6. SitePages(pages' \ Site(Wiki.site)', s, up)
  BY <1>4, <1>5
<1>7. Company(pages \ Site(Wiki.site))'
  BY <1>1, <1>4, <1>6 DEF Company
<1> QED BY <1>1, <1>3, <1>7 DEF PagesInv, Inv

LEMMA ReportKeeps ==
    ASSUME Inv, Report PROVE Inv'
BY DEF Report, Inv, TypeOK, Points, RecordInv, SentInv, PagesInv, CompletedAsShown

LEMMA WorkflowRaisesKeeps ==
    ASSUME Inv, WorkflowRaises PROVE Inv'
<1>1. sent' = <<"note">>
  BY DEF WorkflowRaises, Inv, SentInv
<1> QED BY <1>1 DEF WorkflowRaises, Inv, TypeOK, Points, RecordInv, SentInv, PagesInv, CompletedAsShown

LEMMA TokenKeeps ==
    ASSUME Inv, Token PROVE Inv'
<1>1. /\ sent \in Seq({"ceo", "note"}) /\ sent' = Append(sent, "ceo")
      /\ \A i \in DOMAIN sent : sent[i] = "ceo"
  BY DEF Token, Inv, TypeOK, SentInv
<1>2. sent' \in Seq({"ceo", "note"}) /\ \A i \in DOMAIN sent' : sent'[i] = "ceo"
  BY <1>1
<1> QED BY <1>2 DEF Token, Inv, TypeOK, Points, RecordInv, SentInv, PagesInv, CompletedAsShown

\* A record of these is left as it was, or a failed one without output.
LEMMA CloseKeeps ==
    ASSUME Inv, NEW record, Close(record),
           record.status \in {"none", "running", "completed", "failed"},
           record.status = "completed" =>
               /\ record.output = sent
               /\ IF report = "raised" THEN sent = <<"note">>
                                       ELSE \A i \in DOMAIN sent : sent[i] = "ceo"
    PROVE  Inv'
BY DEF Close, Inv, TypeOK, Points, RecordInv, SentInv, PagesInv, CompletedAsShown

LEMMA CompleteKeeps ==
    ASSUME Inv, Complete PROVE Inv'
<1>1. PICK record : /\ record = IF ask.kind = "job" THEN [status |-> "completed", output |-> sent]
                                                  ELSE job
                    /\ Close(record)
  BY DEF Complete
<1>2. at \in {"ceo", "noted"}
  BY DEF Complete
<1>3. IF report = "raised" THEN sent = <<"note">> ELSE \A i \in DOMAIN sent : sent[i] = "ceo"
  BY <1>2 DEF Inv, SentInv
<1>4. job.status # "completed" /\ job.status \in {"none", "running", "completed", "failed"}
  BY <1>2 DEF Inv, SentInv, TypeOK
<1> QED BY <1>1, <1>3, <1>4, CloseKeeps

LEMMA FailKeeps ==
    ASSUME Inv, Fail PROVE Inv'
<1>1. PICK record : /\ record = IF ask.kind = "job" THEN [status |-> "failed", output |-> <<>>]
                                                  ELSE job
                    /\ Close(record)
  BY DEF Fail
<1>2. job.status # "completed" /\ job.status \in {"none", "running", "completed", "failed"}
  BY DEF Fail, Inv, SentInv, TypeOK
<1> QED BY <1>1, <1>2, CloseKeeps

LEMMA CutShortKeeps ==
    ASSUME Inv, CutShort PROVE Inv'
<1>1. Close(job) /\ job.status # "completed" /\ job.status \in {"none", "running", "completed", "failed"}
  BY DEF CutShort, Inv, SentInv, TypeOK
<1> QED BY <1>1, CloseKeeps

LEMMA RaiseKeeps ==
    ASSUME Inv, Raise PROVE Inv'
BY DEF Raise, Inv, TypeOK, Points, RecordInv, SentInv, PagesInv, CompletedAsShown

LEMMA RestartKeeps ==
    ASSUME Inv, Restart PROVE Inv'
BY DEF Restart, Inv, TypeOK, Points, RecordInv, SentInv, PagesInv, CompletedAsShown

LEMMA StutterKeeps ==
    ASSUME Inv, UNCHANGED vars PROVE Inv'
<1> USE DEF vars, Inv
<1>1. TypeOK' /\ RecordInv' /\ SentInv' /\ CompletedAsShown'
  BY DEF TypeOK, RecordInv, SentInv, CompletedAsShown
<1>2. PagesInv'
  BY DEF PagesInv, Company, Site
<1> QED BY <1>1, <1>2

LEMMA NextKeeps == Inv /\ [Next]_vars => Inv'
<1> SUFFICES ASSUME Inv, [Next]_vars PROVE Inv'
  OBVIOUS
<1>1. CASE \E f \in Folders : EditSkills(f)
  BY <1>1, EditKeeps
<1>2. CASE \E o \in Objectives : Accept(o)
  BY <1>2, AcceptKeeps
<1>3. CASE Step
  <2>1. CASE Route
    BY <2>1, RouteKeeps
  <2>2. CASE \E up \in SUBSET Paths : FetchSite(up) \/ Probe(up)
    BY <2>2, FetchSiteKeeps, ProbeKeeps
  <2>3. CASE ProbeFails
    BY <2>3, ProbeFailsKeeps
  <2>4. CASE \E ok \in BOOLEAN : FetchWiki(ok)
    BY <2>4, FetchWikiKeeps
  <2>5. CASE Report \/ WorkflowRaises
    BY <2>5, ReportKeeps, WorkflowRaisesKeeps
  <2>6. CASE Complete \/ Raise \/ Fail
    BY <2>6, CompleteKeeps, RaiseKeeps, FailKeeps
  <2> QED BY <1>3, <2>1, <2>2, <2>3, <2>4, <2>5, <2>6 DEF Step
<1>4. CASE Token \/ CutShort \/ Restart
  BY <1>4, TokenKeeps, CutShortKeeps, RestartKeeps
<1>5. CASE UNCHANGED vars
  BY <1>5, StutterKeeps
<1> QED BY <1>1, <1>2, <1>3, <1>4, <1>5 DEF Next

LEMMA InvHolds == Spec => []Inv
BY InitInv, NextKeeps, PTL DEF Spec

-----------------------------------------------------------------------------
(* What the runs check *)

\* Every variable of the request keeps its type, whatever the skills hold.
THEOREM TypeCorrect == Spec => []TypeOK
<1>1. Inv => TypeOK
  BY DEF Inv
<1> QED BY <1>1, InvHolds, PTL

\* The capability named in the record of a job is the one the stream ran: the
\* index is built once, before the handler's match, and a restart, which
\* forgets it, ends the request.
THEOREM RunsRecordedHolds == Spec => []RunsWhatIsRecorded
<1>1. Inv => RunsWhatIsRecorded
  BY DEF Inv, RecordInv, RunsWhatIsRecorded
<1> QED BY <1>1, InvHolds, PTL

\* A completed job holds exactly what the browser has seen, and no answer of
\* the CEO hides a workflow that raised.
THEOREM CompletedHolds == Spec => []CompletedAsShown
<1>1. Inv => CompletedAsShown
  BY DEF Inv
<1> QED BY <1>1, InvHolds, PTL

\* A report is written from all the pages of one site, the guessed domain or
\* the first alternative that answered, and on nothing only after every
\* alternative was tried.
THEOREM OneSiteHolds == Spec => []OneSiteReported
<1>1. Inv => OneSiteReported
  <2> SUFFICES ASSUME Inv, at = "report" PROVE OneSiteReported
    BY DEF OneSiteReported
  <2>1. PICK s \in 0 .. Tlds, up \in SUBSET Paths :
          /\ SitePages(pages \ Site(Wiki.site), s, up)
          /\ s > 0 => s = probed /\ Home \in up
          /\ s = 0 /\ up = {} /\ ask.com /\ chosen.executor = LeadResearch => probed = Tlds
    BY DEF Inv, PagesInv, Company
  <2>2. Site(s) = pages \ Site(Wiki.site)
    BY <2>1 DEF SitePages, Site, Wiki
  <2>3. {p.path : p \in Site(s)} = Paths
    BY <2>1, <2>2 DEF SitePages
  <2>4. pages \ Site(s) \subseteq Site(Wiki.site)
    BY <2>2
  <2>5. Answered(s) <=> up # {}
    <3>1. up \subseteq Paths /\ \A p \in Site(s) : p.ok <=> p.path \in up
      BY <2>1, <2>2 DEF SitePages
    <3> QED BY <2>3, <3>1 DEF Answered
  <2>6. s > 0 => s = probed /\ Answered(s)
    BY <2>1, <2>5
  <2>7. ask.com /\ ~ Answered(s) /\ chosen.executor = LeadResearch => probed = Tlds
    BY <2>1, <2>5
  <2> QED BY <2>3, <2>4, <2>6, <2>7 DEF OneSiteReported
<1> QED BY <1>1, InvHolds, PTL
=============================================================================
