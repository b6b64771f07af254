---------------------------- MODULE ExecutiveView ----------------------------
(***************************************************************************)
(* What the executive is told about change: the impact analysis of an      *)
(* object, and the readiness of the workspace for a scenario.              *)
(*                                                                         *)
(* A request first gathers its data: operations, heartbeats and the CEO    *)
(* review from the workspace's files, the business objects from registries *)
(* that are indexed once and never read again, and the resources from      *)
(* external runtimes, whose failures mostly come back as empty lists.  An  *)
(* impact analysis then walks the context graph breadth first, level by    *)
(* level, and lets each object inherit the risk of the objects found       *)
(* behind it; readiness judges the gathered objects by a table of rules.   *)
(*                                                                         *)
(* The specification's names begin with View, so that NotificationsProof   *)
(* can extend this module beside Notifications.                            *)
(***************************************************************************)
EXTENDS ContextGraph, Positions, SequencesExt

CONSTANTS
    Worlds,      \* the relations and initial statuses of the objects
    Orders,      \* the orders in which relations may be iterated: sequences of all the
                 \* objects that a process of the server lists them in (frozenset order)
    Conditions,  \* the pairs <<object, status>> that may come about
    Outages,     \* sets of calls that fail together during a request
    Configured,  \* the runtimes that have an address or a key
    Sources,     \* the objects whose impact is asked for
    Scenarios,   \* the scenarios that readiness is asked for
    MaxChanges   \* bound on the number of changes of status

\* A listing of the objects, each of them once.
IsListing(s) ==
    /\ s \in Seq(Objects)
    /\ \A x \in Objects : \E i \in DOMAIN s : s[i] = x
    /\ \A i, j \in DOMAIN s : s[i] = s[j] => i = j

ASSUME ExecutiveViewAssumption ==
    /\ \A w \in Worlds : IsWorld(w)
    /\ \A s \in Orders : IsListing(s)
    /\ MaxChanges \in Nat

VARIABLES
    order,       \* one of Orders, drawn when the process starts
    index,       \* the statuses in the registries' indexes; None before the first request
    data,        \* the statuses the request gathered
    request,     \* the request at hand; NoRequest between requests
    frontier,    \* the objects found at this depth: a sequence of [obj, via]
    visited,     \* the objects that later levels leave out
    affected,    \* the objects listed so far: a sequence of [obj, via, depth]
    report,      \* the last answer
    changes

viewVars == <<world, seen, order, index, data, request, frontier, visited, affected, report, changes>>

Registered == Goals \cup People \cup Departments \cup Capabilities \cup Sops
Runtimes   == {"github", "docker", "n8n", "nocodb", "llm"}
Calls      == {"review", "github", "docker", "n8n", "bases", "counts", "tables",
               "health", "reachable", "models"}

NoRequest == [kind |-> "none"]
NoReport  == [kind |-> "none"]

-----------------------------------------------------------------------------
(* Risk: 0 none, 1 low, 2 medium, 3 high, 4 critical.  A status stands for the     *)
(* field that decides: a service starved or strained has the resource state        *)
(* critical or elevated, and "failures" and "warnings" are attention states.       *)
(* Workflows and models never have theirs as the runtimes are, nor is a database   *)
(* unknown or a provider that is listed unconfigured; the rules name them.         *)

Critical == (Capabilities \X {"deprecated"}) \cup (Operations \X {"failed"})
              \cup (Services \X {"unhealthy", "starved"}) \cup (Tables \X {"no columns"})
              \cup (Workflows \X {"failures"})
              \cup (Providers \X {"unreachable"}) \cup (Models \X {"unreachable"})
High     == (Goals \X {"at_risk"}) \cup ((People \cup Departments) \X {"inactive"})
              \cup (Kpis \X {"off_track"}) \cup (Sops \X {"deprecated"})
              \cup (Services \X {"strained"})
              \cup (Databases \X {"degraded"}) \cup (Providers \X {"degraded"})
Medium   == (Goals \X {"blocked"}) \cup (Capabilities \X {"experimental"})
              \cup (Operations \X {"executing"}) \cup (Kpis \X {"at_risk"})
              \cup (Sops \X {"archived"}) \cup (Services \X {"restarting"})
              \cup (Tables \X {"empty"}) \cup (Workflows \X {"warnings"})
              \cup (Databases \X {"unknown"}) \cup (Providers \X {"unconfigured"})
              \cup (Models \X {"unavailable"})
Low      == (Goals \X {"active"}) \cup (Capabilities \X {"draft"})
              \cup (Operations \X {"created"}) \cup (Decisions \X {"proposed"})
              \cup (Services \X {"paused"}) \cup (Workflows \X {"inactive"})

IntrinsicRisk(x) ==
    LET s == <<x, data[x]>> IN
    CASE s \in Critical -> 4
      [] s \in High     -> 3
      [] s \in Medium   -> 2
      [] s \in Low      -> 1
      [] OTHER          -> 0

\* The operations behind an object's heartbeats and notifications.
OpsBehind(x) ==
    CASE x \in Goals      -> OpsOfDecisions(Serving(x, Decisions \cap seen))
      [] x \in People     -> {o \in Operations : Open(o) /\ Matches(world.owner[o], x)}
      [] x \in Decisions  -> OpsOfDecisions({x})
      [] x \in Operations -> {x}
      [] OTHER            -> {}

\* beat[o]: the latest heartbeat is blocked, only an earlier one is, or none is.
CriticallyNoticed(o) ==
    \/ world.status[o] = "awaiting_escalation"
    \/ Open(o) /\ world.beat[o] = "blocked"
BlockedBehind(x) ==
    IF x \in Operations THEN world.beat[x] \in {"blocked", "unblocked"}
    ELSE \E o \in OpsBehind(x) : world.beat[o] = "blocked"

\* _apply_boosts: a decision has heartbeats and no notifications.
Boosts(x) ==
    {b \in {"notification", "heartbeat", "kpi"} :
        CASE b = "notification" -> x \notin Decisions /\ \E o \in OpsBehind(x) : CriticallyNoticed(o)
          [] b = "heartbeat"    -> BlockedBehind(x)
          [] OTHER -> x \in Goals /\ \E k \in Serving(x, Kpis \cap seen) : data[k] = "off_track"}

\* RiskEngine.score_object, with the object's context
OwnRisk(x) ==
    LET raised == IntrinsicRisk(x) + Cardinality(Boosts(x)) IN
    IF raised > 4 THEN 4 ELSE raised

-----------------------------------------------------------------------------
(* Gathering *)

\* What a configured runtime delivers: nothing when its listing call fails, except
\* that GitHub's raises.
FromGithub       == IF "github" \in Configured THEN Repositories ELSE {}
FromDocker(down) == IF "docker" \in Configured \ down THEN Services ELSE {}
FromN8n(down)    == IF "n8n" \in Configured \ down THEN Workflows ELSE {}
FromNocodb(down) == IF "nocodb" \notin Configured \/ "bases" \in down THEN {}
                    ELSE Databases \cup (IF "tables" \in down THEN {} ELSE Tables)
FromLlm(down)    == IF "llm" \notin Configured THEN {}
                    ELSE Providers \cup (IF "models" \in down THEN {} ELSE Models)
FromReview(down) == IF "review" \in down THEN {} ELSE Kpis \cup Decisions

Delivered(down) ==
    Registered \cup Operations \cup FromReview(down) \cup FromGithub \cup FromDocker(down)
        \cup FromN8n(down) \cup FromNocodb(down) \cup FromLlm(down)

Index == IF index = None THEN [x \in Registered |-> world.status[x]] ELSE index

\* _base_to_database counts the tables with a call of its own.
BaseStatus(db, down) ==
    IF "counts" \in down \/ \A t \in Tables : world.base[t] # db THEN "degraded" ELSE "ok"

\* list_models asks for the provider's health again.
ProviderStatus(v, down) == IF "health" \in down THEN "unreachable" ELSE world.status[v]
ModelStatus(down)       == IF "reachable" \in down THEN "unreachable" ELSE "ok"

StatusIn(x, down) ==
    CASE x \in Registered -> Index[x]
      [] x \in Databases  -> BaseStatus(x, down)
      [] x \in Providers  -> ProviderStatus(x, down)
      [] x \in Models     -> ModelStatus(down)
      [] OTHER            -> world.status[x]

\* _build_readiness_snapshot and the first half of impact
Gather(down) ==
    /\ request = NoRequest
    /\ ~("github" \in Configured /\ "github" \in down)
    /\ index' = Index
    /\ seen' = Delivered(down)
    /\ data' = [x \in Objects |-> StatusIn(x, down)]

\* A GitHub that does not answer fails the request.
Refuse ==
    /\ request = NoRequest
    /\ "github" \in Configured
    /\ \E down \in Outages : "github" \in down
    /\ report' = [kind |-> "refused"]
    /\ UNCHANGED <<world, seen, order, index, data, request, frontier, visited, affected, changes>>

-----------------------------------------------------------------------------
(* Impact *)

\* RELATIONS that expand the frontier leave out decisions, KPIs and SOPs.
Propagating == Objects \ (Decisions \cup Kpis \cup Sops)

\* _expand_frontier
Expand(x, known) ==
    LET new  == (Related(x) \cap Propagating) \ known
        list == Only(order, {i \in DOMAIN order : order[i] \in new})
    IN [i \in DOMAIN list |-> [obj |-> list[i], via |-> x]]

\* Of several entries for one object the first stays.
FirstOfEach(entries) ==
    Only(entries, {i \in DOMAIN entries : \A j \in 1 .. i - 1 : entries[j].obj # entries[i].obj})

AskImpact(x, limit) ==
    /\ \E down \in Outages : Gather(down)
    /\ request' = [kind |-> "seeding", source |-> x, limit |-> limit]
    /\ report' = NoReport
    /\ UNCHANGED <<world, order, frontier, visited, affected, changes>>

\* The objects related to the source are the first level; they are not visited yet,
\* so that a later level may list them again.
Seed ==
    /\ request.kind = "seeding"
    /\ IF request.source \in seen
       THEN /\ frontier' = Expand(request.source, {request.source})
            /\ visited' = {request.source}
            /\ affected' = <<>>
            /\ request' = [kind |-> "impact", source |-> request.source,
                           limit |-> request.limit, depth |-> 1]
            /\ UNCHANGED report
       ELSE /\ report' = [kind |-> "unknown"]
            /\ request' = NoRequest
            /\ UNCHANGED <<frontier, visited, affected>>
    /\ UNCHANGED <<world, seen, order, index, data, changes>>

\* Faulty variant: the last level still expands.
MayExpandPastLimit == request.depth <= request.limit
MayExpand == request.depth < request.limit

\* One pass of the BFS loop: list the level, then find the next one.
Level ==
    /\ request.kind = "impact" /\ frontier # <<>>
    /\ affected' = affected \o
          [i \in DOMAIN frontier |-> [obj   |-> frontier[i].obj, via |-> frontier[i].via,
                                      depth |-> request.depth]]
    /\ LET found == IF MayExpand
                    THEN FlattenSeq([i \in DOMAIN frontier |-> Expand(frontier[i].obj, visited)])
                    ELSE <<>>
       IN /\ frontier' = FirstOfEach(found)
          /\ visited' = visited \cup {e.obj : e \in ToSet(found)}
    /\ request' = [request EXCEPT !.depth = @ + 1]
    /\ UNCHANGED <<world, seen, order, index, data, report, changes>>

\* Faulty variant: the inherited risk replaces the object's own.
InheritedRiskReplaces ==
    LET risk[i \in DOMAIN affected] ==
          LET children == {j \in DOMAIN affected : affected[j].depth = affected[i].depth + 1
                                                    /\ affected[j].via = affected[i].obj}
          IN IF children = {} THEN OwnRisk(affected[i].obj) ELSE Max({risk[j] - 1 : j \in children})
    IN [i \in DOMAIN affected |-> risk[i]]

\* _propagate_inherited_risk, deepest level first: the highest risk of the entries
\* found through this one, less one, if that is more than its own.
InheritedRisk ==
    LET risk[i \in DOMAIN affected] ==
          LET children == {j \in DOMAIN affected : affected[j].depth = affected[i].depth + 1
                                                    /\ affected[j].via = affected[i].obj}
          IN Max({OwnRisk(affected[i].obj)} \cup {risk[j] - 1 : j \in children})
    IN [i \in DOMAIN affected |-> risk[i]]

\* generate_summary: the source itself is not part of the verdict.
Summarise ==
    /\ request.kind = "impact" /\ frontier = <<>>
    /\ LET risk == InheritedRisk IN
       report' = [kind   |-> "impact", source |-> request.source, limit |-> request.limit,
                  listed |-> affected,
                  safe   |-> \A i \in DOMAIN affected : risk[i] < 3]
    /\ request' = NoRequest
    /\ visited' = {} /\ affected' = <<>>
    /\ UNCHANGED <<world, seen, order, index, data, frontier, changes>>

-----------------------------------------------------------------------------
(* Readiness *)

Categories == {"infrastructure", "repositories", "automation", "data", "ai",
               "operations", "business", "goals"}

\* SCENARIOS: the weight of each category that counts.
Weights(scenario) ==
    CASE scenario = "deployment" ->
            [infrastructure |-> 20, repositories |-> 5, automation |-> 10, data |-> 10,
             ai |-> 10, operations |-> 20, business |-> 10, goals |-> 15]
      [] scenario = "repository_merge" ->
            [repositories |-> 25, automation |-> 20, operations |-> 20, business |-> 15, goals |-> 20]
      [] scenario = "workflow_activation" ->
            [automation |-> 25, infrastructure |-> 20, operations |-> 20, data |-> 20, ai |-> 15]
      [] scenario = "database_maintenance" ->
            [data |-> 30, infrastructure |-> 20, operations |-> 20, automation |-> 15, business |-> 15]
      [] OTHER ->
            [ai |-> 30, business |-> 20, operations |-> 20, automation |-> 15, infrastructure |-> 15]

RuntimeOf(category) ==
    CASE category = "infrastructure" -> "docker"
      [] category = "repositories"   -> "github"
      [] category = "automation"     -> "n8n"
      [] category = "data"           -> "nocodb"
      [] category = "ai"             -> "llm"
      [] OTHER                       -> None

Checked(category) ==
    seen \cap
    CASE category = "infrastructure" -> Services
      [] category = "repositories"   -> Repositories
      [] category = "automation"     -> Workflows
      [] category = "data"           -> Databases \cup Tables
      [] category = "ai"             -> Providers \cup Models
      [] category = "operations"     -> Operations
      [] category = "business"       -> Capabilities \cup People \cup Departments
      [] OTHER                       -> Goals \cup Kpis

\* Faulty variant: an unreachable provider only warns.
BlocksLenient(x) ==
    \/ <<x, data[x]>> \in Critical \ (Providers \X {"unreachable"})
    \/ <<x, data[x]>> \in High \cap ((Goals \cup Kpis \cup Databases) \X {"at_risk", "off_track", "degraded"})
    \/ x \in Operations /\ Open(x) /\ world.beat[x] = "blocked"

\* CATEGORY_RULES and _enrich_operations: blockers and warnings of an object.
Blocks(x) ==
    \/ <<x, data[x]>> \in Critical
    \/ <<x, data[x]>> \in High \cap ((Goals \cup Kpis \cup Databases) \X {"at_risk", "off_track", "degraded"})
    \/ x \in Operations /\ Open(x) /\ world.beat[x] = "blocked"
Warns(x) ==
    /\ ~Blocks(x)
    /\ \/ <<x, data[x]>> \in Medium \cup High
       \/ <<x, data[x]>> \in Low \cap ((Capabilities \cup Services \cup Workflows)
                                         \X {"draft", "paused", "inactive"})

Verdict(category) ==
    IF RuntimeOf(category) \notin Configured \cup {None}   THEN "warning"
    ELSE IF \E x \in Checked(category) : Blocks(x)        THEN "blocked"
    ELSE IF \E x \in Checked(category) : Warns(x)         THEN "warning" ELSE "ready"

\* Nothing to check scores full marks; the code rounds to whole points.
Score(category) ==
    LET healthy == {x \in Checked(category) : ~Blocks(x) /\ ~Warns(x)} IN
    IF RuntimeOf(category) \notin Configured \cup {None} THEN 0
    ELSE IF Checked(category) = {} THEN 100
    ELSE (Cardinality(healthy) * 100) \div Cardinality(Checked(category))

CriticalCount ==
    Cardinality({x \in seen : <<x, data[x]>> \in Critical})

AskReadiness(scenario) ==
    /\ \E down \in Outages : Gather(down)
    /\ request' = [kind |-> "readiness", scenario |-> scenario]
    /\ report' = NoReport
    /\ UNCHANGED <<world, order, frontier, visited, affected, changes>>

\* evaluate
Evaluate ==
    /\ request.kind = "readiness"
    /\ LET weight == Weights(request.scenario) IN
       report' = [kind     |-> "readiness", scenario |-> request.scenario,
                  ready    |-> \A c \in DOMAIN weight : Verdict(c) # "blocked",
                  score    |-> FoldSet(LAMBDA c, total : total + weight[c] * Score(c), 0,
                                       DOMAIN weight) \div 100,
                  critical |-> CriticalCount]
    /\ request' = NoRequest
    /\ UNCHANGED <<world, seen, order, index, data, frontier, visited, affected, changes>>

-----------------------------------------------------------------------------
ViewInit ==
    /\ world \in Worlds
    /\ seen = {}
    /\ order \in Orders
    /\ index = None
    /\ data = world.status
    /\ request = NoRequest
    /\ frontier = <<>> /\ visited = {} /\ affected = <<>>
    /\ report = NoReport
    /\ changes = 0

\* The business, its operations and its resources go on between two requests.
\* A request runs on the one event loop of the server and is not interrupted.
Change ==
    /\ request = NoRequest /\ changes < MaxChanges
    /\ \E c \in Conditions :
          /\ world.status[c[1]] # c[2]
          /\ world' = [world EXCEPT !.status[c[1]] = c[2]]
    /\ changes' = changes + 1
    /\ report' = NoReport
    /\ UNCHANGED <<seen, order, index, data, request, frontier, visited, affected>>

\* A new process indexes again and hashes strings its own way.
Restart ==
    /\ request = NoRequest /\ index # None
    /\ index' = None
    /\ order' \in Orders
    /\ report' = NoReport
    /\ UNCHANGED <<world, seen, data, request, frontier, visited, affected, changes>>

Serve == Seed \/ Level \/ Summarise \/ Evaluate

ViewNext ==
    \/ \E x \in Sources, limit \in 1 .. 5 : AskImpact(x, limit)
    \/ \E s \in Scenarios : AskReadiness(s)
    \/ Refuse
    \/ Serve
    \/ Change
    \/ Restart

ViewSpec == ViewInit /\ [][ViewNext]_viewVars
-----------------------------------------------------------------------------
(* Properties *)

\* Within(...)[n]: what n of these edges, or fewer, reach from x.
Within(edges, x, limit) ==
    LET near[n \in 0 .. limit] ==
          IF n = 0 THEN {x} ELSE near[n - 1] \cup UNION {edges[y] : y \in near[n - 1]}
    IN near

\* Near(x, limit)[n]: the objects within n relations of x.
Near(x, limit) == Within([y \in Objects |-> Related(y) \cap Propagating], x, limit)

ViewTypeOK ==
    /\ index = None \/ DOMAIN index = Registered
    /\ seen \subseteq Objects /\ visited \subseteq Objects /\ DOMAIN data = Objects
    /\ order \in Orders
    /\ \A i \in DOMAIN affected : affected[i].depth \in 1 .. 5
    /\ request.kind \in {"none", "seeding", "impact", "readiness"}
    /\ report.kind \in {"none", "refused", "unknown", "impact", "readiness"}
    /\ changes \in 0 .. MaxChanges

\* An impact report lists the objects within the depth asked for, all of them and
\* no others, first of all at their distance from the source, whatever order the
\* relations are iterated in.  Only an object of the first level is listed again, and
\* once.
ReachExactly ==
    report.kind = "impact" =>
        LET L     == report.listed
            near  == Near(report.source, report.limit)
            At(x) == {L[i].depth : i \in {j \in DOMAIN L : L[j].obj = x}}
        IN /\ {L[i].obj : i \in DOMAIN L} = near[report.limit] \ {report.source}
           /\ \A i, j \in DOMAIN L : L[i].obj = L[j].obj /\ L[i].depth = L[j].depth => i = j
           /\ \A i \in DOMAIN L :
                 /\ L[i].obj \in near[Min(At(L[i].obj))] \ near[Min(At(L[i].obj)) - 1]
                 /\ At(L[i].obj) = {L[i].depth} \/ (1 \in At(L[i].obj) /\ Cardinality(At(L[i].obj)) = 2)

\* A change is called safe exactly when nothing within the depth asked for is at
\* high or critical risk on its own account: inherited risk, which depends on the
\* order of iteration, never decides it.
SafeMeansQuiet ==
    report.kind = "impact" =>
        (report.safe <=> \A x \in Near(report.source, report.limit)[report.limit] \ {report.source} :
                            OwnRisk(x) < 3)

\* A workspace that is ready for deployment has nothing at critical risk: the rules
\* of readiness and the scores of the risk engine, two tables, do not part.
ReadyHasNoCritical ==
    report.kind = "readiness" /\ report.scenario = "deployment" /\ report.ready
        => report.critical = 0

\* Except for operations, which answer only through decisions and SOPs, and between
\* the models and the tables, an object is related to whatever is related to it.
EdgesAnswerEachOther ==
    request.kind = "seeding" =>
        LET related == [x \in Objects |-> Related(x)] IN
        \A a, b \in (seen \cap Propagating) \ Operations :
            \/ b \in related[a] <=> a \in related[b]
            \/ {a, b} \cap (Providers \cup Models) # {} /\ {a, b} \cap (Databases \cup Tables) # {}
=============================================================================
