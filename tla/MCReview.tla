------------------------------- MODULE MCReview -------------------------------
(* Two KPIs that may miss their target or lack a column, a bottleneck, an     *)
(* opportunity; logs of the shapes that the repository's businesses have.     *)
EXTENDS Review

Kpi(k, gap, complete) == [id |-> k, gap |-> gap, status |-> "on_track", complete |-> complete]

mcKpiRows ==
    {Kpi("sales", "none", TRUE), Kpi("sales", "over half", TRUE), Kpi("sales", "none", FALSE),
     Kpi("visits", "over half", TRUE)}

mcBottleneckRows ==
    {[id |-> "B1", impact |-> i, category |-> "review", status |-> "open", complete |-> i # "low"] :
        i \in {"high", "low"}}

mcOpportunityRows ==
    {[id |-> "O1", impact |-> "high", effort |-> "low", status |-> "backlog", linked |-> TRUE,
      complete |-> TRUE]}

mcBusinesses ==
    {[kpis |-> <<Kpi("sales", "over half", TRUE), Kpi("visits", "over half", TRUE)>>,
      bottlenecks |-> <<>>, opportunities |-> <<>>],
     [kpis |-> <<>>, bottlenecks |-> SetToSeq(mcBottleneckRows), opportunities |-> <<>>]}

mcRequests == {<<"approve", TRUE>>, <<"postpone", FALSE>>}

Decision(n, complete) ==
    [id |-> n, title |-> "old", status |-> "implemented", complete |-> complete]

\* businesses/AVANZIA/Decisions.md: the boundary that closes the table is the last
\* line of dashes.  The founder has begun a second row.
Bounded ==
    <<Line("boundary"), Line("header"), Line("separator"),
      Row(Decision(1, TRUE)), Row(Decision(2, FALSE)), Line("boundary")>>

\* businesses/AKosmicAnimals/Decisions.md: a line of dashes follows that boundary.
Ruled ==
    <<Line("boundary"), Line("header"), Line("separator"),
      Row(Decision(1, TRUE)), Row(Decision(2, TRUE)), Line("boundary"), Line("boundary")>>

\* The simple format of _parse_table: nothing closes the table.
Simple == <<Line("header"), Line("separator"), Row(Decision(2, TRUE))>>

mcFormats      == {Bounded, Ruled, Simple}
mcRuledFormats == {Ruled}

mcLongTitles == {"visits"}
=============================================================================
