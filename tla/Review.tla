-------------------------------- MODULE Review --------------------------------
(***************************************************************************)
(* The CEO review and what follows from it.  The founder keeps the         *)
(* business in Markdown tables; a review loads them, scores every          *)
(* bottleneck, opportunity and KPI below target, and ranks the             *)
(* recommendations into a brief.  Nothing of a review is stored: acting on *)
(* a recommendation reviews again, looks the id up, and writes a decision  *)
(* into the log that the next review reads.                                *)
(*                                                                         *)
(* A table is the sequence of its rows, the decision log the sequence of   *)
(* its lines, since the writer and the loader each look for dash lines of  *)
(* their own: a "boundary" has ten dashes and more in one group, the       *)
(* "separator" below the header several groups, a "rule" four to nine.     *)
(*                                                                         *)
(* The specification's names begin with Review, so that FounderJobsProof   *)
(* can extend this module beside FounderJobs.                              *)
(***************************************************************************)
EXTENDS IdSequence, Positions, SequencesExt

CONSTANTS
    KpiRows, BottleneckRows, OpportunityRows,   \* the rows the founder may write
    Businesses,   \* the tables a workspace may start with
    Formats,      \* the decision logs a workspace may start with
    LongTitles,   \* the subjects with a word that the column of the titles is too narrow for
    Requests,     \* the pairs <<action, create_operation>> that are asked for
    MaxRows,      \* bound on the rows of a table
    MaxEdits,     \* bound on the founder's edits
    MaxDecisions, \* bound on the number of the last decision
    None

\* The tables of a business.
IsBusiness(b) ==
    /\ b.kpis \in Seq(KpiRows)
    /\ b.bottlenecks \in Seq(BottleneckRows) /\ b.opportunities \in Seq(OpportunityRows)

\* A decision log holds one table, and numbered rows, wherever they stand.
IsLog(f) ==
    /\ \E s \in DOMAIN f : /\ s > 1 /\ f[s - 1].kind = "header"
                           /\ \A i \in DOMAIN f : f[i].kind = "separator" <=> i = s
    /\ \A i \in DOMAIN f : f[i].kind = "row" => f[i].row.id \in Nat

ASSUME ReviewAssumption ==
    /\ \A b \in Businesses : IsBusiness(b)
    /\ \A f \in Formats : f \in Seq(ToSet(f)) /\ IsLog(f)
    /\ MaxEdits \in Nat
    /\ MaxDecisions \in Nat /\ MaxDecisions < IdLimit

VARIABLES
    kpis, bottlenecks, opportunities,   \* the tables
    evidence,     \* the experiments that have an outcome
    lessons,      \* the sources of the lessons learned, a sequence
    log,          \* the lines of the decision log
    operations,   \* the operations created for decisions
    shown,        \* the recommendations of the brief the founder has before him
    brief,        \* how that review went
    acting,       \* the decision written whose request is not answered yet; or None
    answered,     \* the decisions that have been answered for
    rowLost,      \* a KPI row went or broke since the brief was shown
    edits

tables     == <<kpis, bottlenecks, opportunities, evidence, lessons>>
reviewVars == <<tables, log, operations, shown, brief, acting, answered, rowLost, edits>>

Line(kind) == [kind |-> kind, row |-> None]
Row(d)     == [kind |-> "row", row |-> d]

\* A title is wrapped into its column and its lines are joined with blanks: a
\* word that is too long comes back in pieces.
Wrapped(subject) == IF subject \in LongTitles THEN <<"broken", subject>> ELSE subject

\* _format_row, and what the loader makes of it: no column names the recommendation.
AsRow(d) == [id |-> d.id, title |-> Wrapped(d.subject), status |-> d.status, complete |-> TRUE]

\* _ACTION_TO_STATUS
Status(a) == CASE a = "approve" -> "approved"
               [] a = "reject"  -> "closed"
               [] OTHER         -> "proposed"

-----------------------------------------------------------------------------
(* BusinessDataLoader *)

\* The rows of a table that are loaded.  An id counts as seen before the columns
\* of its row are checked: the first row of an id decides for all of them.
Loaded(rows) ==
    Only(rows, {i \in DOMAIN rows :
                  rows[i].complete /\ \A j \in 1 .. i - 1 : rows[j].id # rows[i].id})

LoadedBottlenecks   == Loaded(bottlenecks)
LoadedOpportunities == Loaded(opportunities)

\* KPIs have no id of their own: they are numbered as they are loaded.
LoadedKpis == Only(kpis, {i \in DOMAIN kpis : kpis[i].complete})

Separator(f) == CHOOSE i \in DOMAIN f : f[i].kind = "separator"

\* _parse_table: the first line of one group of dashes ends the table.
LoaderEnd(f) ==
    LET s == Separator(f) IN
    Min({i \in DOMAIN f : i > s /\ f[i].kind \in {"boundary", "rule"}} \cup {Len(f) + 1})

\* The lines of log f that are read as rows; the line above the separator names
\* the columns, and no row has an ID column when that line is not the header.
ReadRows(f) ==
    LET s == Separator(f)
        e == LoaderEnd(f)
    IN {i \in DOMAIN f : s < i /\ i < e /\ f[i].kind = "row" /\ f[s - 1].kind = "header"}

\* _load_decisions: the rows loaded, by their lines.  0 stands for no ID; an ID
\* counts as seen before the columns of its row are checked.
LoadedDecisions ==
    LET rows == ReadRows(log) IN
    {i \in rows : /\ log[i].row.id # 0 /\ log[i].row.complete
                  /\ \A j \in rows : j < i => log[j].row.id # log[i].row.id}

Skipped ==
    \/ Len(LoadedKpis) < Len(kpis)
    \/ Len(LoadedBottlenecks) < Len(bottlenecks)
    \/ Len(LoadedOpportunities) < Len(opportunities)

-----------------------------------------------------------------------------
(* DecisionEngine: scores from 1 to 5, weighted in hundredths *)

ImpactScore(level)   == CASE level = "high" -> 5 [] level = "low" -> 2 [] OTHER -> 3
EffortScore(level)   == CASE level = "low" -> 5 [] level = "high" -> 2 [] OTHER -> 3
UrgencyScore(status) ==
    CASE status \in {"open", "active"} -> 5
      [] status = "in_progress"        -> 4
      [] status = "backlog"            -> 2
      [] OTHER                         -> 3
GapScore(gap)        == CASE gap = "over half" -> 5 [] gap = "over a quarter" -> 3 [] OTHER -> 2
LinkScore(linked)    == IF linked THEN 5 ELSE 3

\* _count_evidence and _evidence_to_score: the same for every recommendation.
EvidenceScore ==
    LET count == Len(LoadedKpis) + evidence + Cardinality(LoadedDecisions) IN
    IF count >= 4 THEN 5 ELSE count + 1

LessonScore(topic) ==
    LET count == Cardinality({i \in DOMAIN lessons : lessons[i] = topic}) IN
    IF count >= 2 THEN 5 ELSE 3 + count

Confidence ==
    IF EvidenceScore >= 4 THEN "high" ELSE IF EvidenceScore >= 2 THEN "medium" ELSE "low"
SuggestedAction ==
    CASE Confidence = "high" -> "decide" [] Confidence = "medium" -> "experiment" [] OTHER -> "monitor"

Priority(strategic, impact, effort, risk, urgency, history) ==
    25 * strategic + 25 * impact + 15 * effort + 10 * risk + 10 * urgency
        + 10 * EvidenceScore + 5 * history

OfBottleneck(b) ==
    [id |-> <<"bottleneck", b.id>>, subject |-> b.id,
     priority |-> Priority(3, ImpactScore(b.impact), 3, 4, UrgencyScore(b.status),
                           LessonScore(b.category))]
OfOpportunity(o) ==
    [id |-> <<"opportunity", o.id>>, subject |-> o.id,
     priority |-> Priority(LinkScore(o.linked), ImpactScore(o.impact), EffortScore(o.effort), 3,
                           UrgencyScore(o.status), LessonScore("opportunity"))]
OfKpi(k, n) ==
    [id |-> <<"kpi", n>>, subject |-> k.id,
     priority |-> Priority(5, GapScore(k.gap), 3, 2, UrgencyScore(k.status), LessonScore("review"))]

BelowTarget(k) == k.gap # "none"

\* Faulty variant: only the KPIs below target are numbered.
KpiRecommendationsRenumbered ==
    LET all   == LoadedKpis
        below == Only(all, {n \in DOMAIN all : BelowTarget(all[n])})
    IN [n \in DOMAIN below |-> OfKpi(below[n], n)]

\* _evaluate_kpis
KpiRecommendations ==
    LET all == LoadedKpis IN
    Only([n \in DOMAIN all |-> OfKpi(all[n], n)], {n \in DOMAIN all : BelowTarget(all[n])})

\* evaluate: in the order of the tables, then by priority, ties as they stood.
Recommendations ==
    LET b      == LoadedBottlenecks
        o      == LoadedOpportunities
        all    == [i \in DOMAIN b |-> OfBottleneck(b[i])] \o [i \in DOMAIN o |-> OfOpportunity(o[i])]
                    \o KpiRecommendations
        Before(i, j) == \/ all[i].priority > all[j].priority
                        \/ all[i].priority = all[j].priority /\ i < j
        Ranked(n) == CHOOSE i \in DOMAIN all : Cardinality({j \in DOMAIN all : Before(j, i)}) = n - 1
    IN [n \in DOMAIN all |-> all[Ranked(n)]]

-----------------------------------------------------------------------------
(* CEOLoop: ten steps *)

\* Steps 3 and 5 are skipped always, 8 to 10 when the execution fails.
Steps(fails) ==
    [n \in 1 .. 10 |-> CASE n \in {3, 5}     -> "skipped"
                         [] n = 7 /\ fails   -> "failed"
                         [] n >= 8 /\ fails  -> "skipped"
                         [] OTHER            -> "completed"]

\* The engine warns of every bottleneck and KPI and of unlinked opportunities, the
\* generator of low confidence and of an empty list.
Warned ==
    \/ Skipped
    \/ LoadedBottlenecks # <<>> \/ KpiRecommendations # <<>>
    \/ \E i \in DOMAIN LoadedOpportunities : ~LoadedOpportunities[i].linked
    \/ Recommendations = <<>> \/ Confidence = "low"

Outcome(fails) ==
    [steps      |-> Steps(fails),
     status     |-> IF fails THEN "failed" ELSE IF Warned THEN "completed_with_warnings" ELSE "completed",
     priorities |-> IF fails THEN <<>>
                    ELSE SubSeq(Recommendations, 1, Min({5, Len(Recommendations)})),
     confidence |-> IF fails \/ Recommendations = <<>> THEN "insufficient_data" ELSE Confidence,
     action     |-> SuggestedAction,
     escalate   |-> ~fails /\ (Recommendations = <<>> \/ Confidence = "low")]

\* A failed execution is reported with no recommendations.
Review(fails) == IF fails THEN <<>> ELSE Recommendations

-----------------------------------------------------------------------------
(* Handlers *)

\* get_brief
ShowBrief ==
    /\ acting = None
    /\ \E fails \in BOOLEAN :
          /\ shown' = LET recs == Review(fails) IN
                      [n \in DOMAIN recs |-> [id |-> recs[n].id, subject |-> recs[n].subject]]
          /\ brief' = Outcome(fails)
    /\ rowLost' = FALSE
    /\ UNCHANGED <<tables, log, operations, acting, answered, edits>>

\* generate_decision_id on the numbers of the rows, wherever they stand in the file.
NextDecisionId == NextLogId({log[i].row.id : i \in {j \in DOMAIN log : log[j].kind = "row"}})

\* The last line of the section with ten dashes and more, the separator included.
WriterEnd(f) == Max({i \in DOMAIN f : f[i].kind \in {"boundary", "separator"}})

\* Faulty variant: the row goes behind the closing line.
AppendedBehind(d) == InsertAt(log, WriterEnd(log) + 1, Row(AsRow(d)))

\* DecisionWriter.append_decision
Appended(d) == InsertAt(log, WriterEnd(log), Row(AsRow(d)))

\* act_on_recommendation: the id comes from the brief, the recommendation from a
\* review of the tables as they are now.
Act(rec, action, create) ==
    /\ acting = None /\ NextDecisionId <= MaxDecisions
    /\ \E r \in ToSet(Recommendations) :
          /\ r.id = rec
          /\ LET d == [id |-> NextDecisionId, rec |-> rec, subject |-> r.subject,
                       status |-> Status(action)]
             IN /\ log' = Appended(d)
                /\ acting' = [decision |-> d, create |-> create /\ action = "approve"]
    /\ UNCHANGED <<tables, operations, shown, brief, answered, rowLost, edits>>

\* RecommendationNotFoundError: nothing is written.
Refuse(rec) ==
    /\ acting = None
    /\ rec \notin {r.id : r \in ToSet(Recommendations)}
    /\ UNCHANGED reviewVars

\* The operation is saved behind the decision, and the request answered.
Answer ==
    /\ acting # None
    /\ operations' = IF acting.create THEN operations \cup {acting.decision.id} ELSE operations
    /\ answered' = Append(answered, acting.decision)
    /\ acting' = None
    /\ UNCHANGED <<tables, log, shown, brief, rowLost, edits>>

\* The process dies between the two files.  (What a kill leaves of a file that is
\* being written is the subject of Operations.)
Crash ==
    /\ acting # None
    /\ acting' = None
    /\ shown' = <<>> /\ brief' = None /\ rowLost' = FALSE
    /\ UNCHANGED <<tables, log, operations, answered, edits>>

-----------------------------------------------------------------------------
(* The founder edits the tables by hand, also while a brief is open *)

Edit ==
    /\ edits < MaxEdits
    /\ edits' = edits + 1
    /\ UNCHANGED <<log, operations, shown, brief, acting, answered>>

AddRow ==
    /\ Edit
    /\ \/ /\ Len(kpis) < MaxRows
          /\ \E r \in KpiRows : kpis' = Append(kpis, r)
          /\ UNCHANGED <<bottlenecks, opportunities>>
       \/ /\ Len(bottlenecks) < MaxRows
          /\ \E r \in BottleneckRows : bottlenecks' = Append(bottlenecks, r)
          /\ UNCHANGED <<kpis, opportunities>>
       \/ /\ Len(opportunities) < MaxRows
          /\ \E r \in OpportunityRows : opportunities' = Append(opportunities, r)
          /\ UNCHANGED <<kpis, bottlenecks>>
    /\ UNCHANGED <<evidence, lessons, rowLost>>

\* A KPI is measured again; a slip of the pen breaks its row.
RewriteKpi ==
    /\ Edit
    /\ \E i \in DOMAIN kpis, r \in KpiRows :
          /\ r.id = kpis[i].id /\ r # kpis[i]
          /\ kpis' = [kpis EXCEPT ![i] = r]
          /\ rowLost' = (rowLost \/ r.complete # kpis[i].complete)
    /\ UNCHANGED <<bottlenecks, opportunities, evidence, lessons>>

DropRow ==
    /\ Edit
    /\ \/ /\ \E i \in DOMAIN kpis : kpis' = RemoveAt(kpis, i)
          /\ rowLost' = TRUE
          /\ UNCHANGED bottlenecks
       \/ /\ \E i \in DOMAIN bottlenecks : bottlenecks' = RemoveAt(bottlenecks, i)
          /\ UNCHANGED <<kpis, rowLost>>
    /\ UNCHANGED <<opportunities, evidence, lessons>>

\* An experiment ends, and teaches something.
Learn ==
    /\ Edit
    /\ evidence' = evidence + 1
    /\ \E source \in {"experiment", "review"} : lessons' = Append(lessons, source)
    /\ UNCHANGED <<kpis, bottlenecks, opportunities, rowLost>>

ReviewInit ==
    /\ \E b \in Businesses :
          kpis = b.kpis /\ bottlenecks = b.bottlenecks /\ opportunities = b.opportunities
    /\ evidence = 0 /\ lessons = <<>>
    /\ log \in Formats
    /\ operations = {}
    /\ shown = <<>> /\ brief = None
    /\ acting = None /\ answered = <<>>
    /\ rowLost = FALSE
    /\ edits = 0

Shown == {shown[n].id : n \in DOMAIN shown}

ReviewNext ==
    \/ ShowBrief
    \/ \E rec \in Shown, r \in Requests : Act(rec, r[1], r[2])
    \/ \E rec \in Shown : Refuse(rec)
    \/ Answer \/ Crash
    \/ AddRow \/ RewriteKpi \/ DropRow \/ Learn

ReviewSpec == ReviewInit /\ [][ReviewNext]_reviewVars

-----------------------------------------------------------------------------
(* Properties *)

ReviewTypeOK ==
    /\ ToSet(kpis) \subseteq KpiRows
    /\ ToSet(bottlenecks) \subseteq BottleneckRows
    /\ ToSet(opportunities) \subseteq OpportunityRows
    /\ \A r \in ToSet(Recommendations) : r.priority \in 100 .. 500
    /\ brief = None \/ brief.status \in {"failed", "completed", "completed_with_warnings"}
    /\ rowLost \in BOOLEAN /\ edits \in 0 .. MaxEdits

\* The line that closes the table for the loader closes it for the writer.
EndsMeet(f) == LoaderEnd(f) = WriterEnd(f)

\* How often decision d is read back.
ReadBack(d) == Cardinality({i \in LoadedDecisions : log[i].row = AsRow(d)})

\* DecisionWriter and BusinessDataLoader look for the end of the table each in its
\* own way.  Where both find the same line, every later review reads a decision
\* that was answered for once, by its number, with its title and its status, and
\* whatever other rows there are; where they do not, no review ever reads it.
KeptWhereEndsMeet ==
    \A n \in DOMAIN answered : ReadBack(answered[n]) = IF EndsMeet(log) THEN 1 ELSE 0

\* "Insert the new row before the closing boundary" (decision_writer.py:133): in
\* any log, a decision that was answered for is in the table that reviews read.
DecisionsAreKept == \A n \in DOMAIN answered : ReadBack(answered[n]) = 1

\* A decision is about what the founder saw under the id that he acted on, as long
\* as no KPI row went or broke since the brief: new rows, new measurements and new
\* priorities rename nothing.
DecidesWhatWasShown ==
    [][\A n \in DOMAIN shown :
          acting = None /\ acting' # None /\ acting'.decision.rec = shown[n].id /\ ~rowLost
             => acting'.decision.subject = shown[n].subject]_reviewVars

\* The same whatever the founder did in between: recommendations are immutable.
RecommendationsAreImmutable ==
    [][\A n \in DOMAIN shown :
          acting = None /\ acting' # None /\ acting'.decision.rec = shown[n].id
             => acting'.decision.subject = shown[n].subject]_reviewVars
=============================================================================
