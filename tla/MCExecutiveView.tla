--------------------------- MODULE MCExecutiveView ---------------------------
(* One small business: two people, a department, two capabilities that name a *)
(* repository, a workflow, an SOP, a table and a model, and what hangs on     *)
(* them.  The two worlds differ in who owns the second capability.            *)
EXTENDS ExecutiveView

mcGoals == {"goal"}            mcPeople == {"ann", "bob"}
mcDepartments == {"dept"}      mcCapabilities == {"cap1", "cap2"}
mcSops == {"sop"}              mcOperations == {"op"}
mcDecisions == {"dec"}         mcKpis == {"kpi"}
mcRepositories == {"repo"}     mcServices == {"service"}
mcWorkflows == {"flow"}        mcDatabases == {"base"}
mcTables == {"table"}          mcProviders == {"provider"}
mcModels == {"model"}

Fields(owner2, beat) ==
    [names    |-> [p \in mcPeople |-> {p}],
     owner    |-> [x \in Objects |-> CASE x \in {"goal", "cap1"}      -> "ann"
                                       [] x \in {"dept", "op", "kpi"} -> "bob"
                                       [] x = "cap2"                  -> owner2
                                       [] OTHER                       -> None],
     member   |-> [p \in mcPeople |-> IF p = "ann" THEN {"dept"} ELSE {}],
     dept     |-> [c \in mcCapabilities |-> IF c = "cap1" THEN "dept" ELSE None],
     refs     |-> [c \in mcCapabilities |-> IF c = "cap1" THEN {"repo", "flow", "sop"}
                                            ELSE {"table", "model"}],
     repo     |-> [s \in mcServices |-> "repo"],
     base     |-> [t \in mcTables |-> "base"],
     provider |-> [m \in mcModels |-> "provider"],
     sop      |-> [o \in mcOperations |-> "sop"],
     decision |-> [o \in mcOperations |-> "dec"],
     flow     |-> [o \in mcOperations |-> None],
     goal     |-> [x \in mcKpis \cup mcDecisions |-> IF x = "kpi" THEN "goal" ELSE None],
     beat     |-> [o \in mcOperations |-> beat],
     status   |-> [x \in Objects |-> CASE x = "op"   -> "executing"
                                       [] x = "goal" -> "active"
                                       [] OTHER      -> "ok"]]

mcWorlds == {Fields(owner, beat) : owner \in {"bob", None}, beat \in {"clear", "blocked", "unblocked"}}

\* The order of the kinds, and its reverse.
Listing == <<"goal", "ann", "bob", "dept", "cap1", "cap2", "op", "repo", "service", "flow",
             "base", "table", "provider", "model", "sop", "dec", "kpi">>
mcOrders == {Listing, Reverse(Listing)}

mcConditions ==
    {<<"goal", "at_risk">>, <<"ann", "inactive">>, <<"cap1", "deprecated">>,
     <<"op", "failed">>, <<"op", "awaiting_escalation">>, <<"kpi", "off_track">>,
     <<"service", "starved">>, <<"table", "no columns">>, <<"provider", "degraded">>}

mcOutages == {{}, {"github"}, {"docker"}, {"counts", "tables"}, {"health"}, {"review", "models"}}

mcConfigured == Runtimes

mcSources == {"cap1", "model", "bob", "service"}
=============================================================================
