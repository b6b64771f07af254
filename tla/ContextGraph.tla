---------------------------- MODULE ContextGraph ----------------------------
(***************************************************************************)
(* The executive context graph: for any business object, the objects every *)
(* other kind that are related to it.  Nothing of the graph is stored: it  *)
(* is read off the owner strings, the ids and the reference lists that the *)
(* objects carry.  Capabilities are its hub: repositories, workflows,      *)
(* tables and models are only related to anything through the capabilities *)
(* that name them.                                                         *)
(*                                                                         *)
(* The sets of objects of each kind are constants; what the objects say of *)
(* one another is the record world, and seen is what the registries and    *)
(* the external runtimes delivered for the request at hand.                *)
(***************************************************************************)
EXTENDS Naturals, FiniteSets

CONSTANTS
    Goals, People, Departments, Capabilities, Sops, Operations, Decisions, Kpis,
    Repositories, Services, Workflows, Databases, Tables, Providers, Models,
    None         \* an empty string or an absent field

Resources == Repositories \cup Services \cup Workflows \cup Databases
                \cup Tables \cup Providers \cup Models
Objects   == Goals \cup People \cup Departments \cup Capabilities \cup Sops
                \cup Operations \cup Decisions \cup Kpis \cup Resources

VARIABLES
    world,       \* the fields of the objects, a record of functions
    seen         \* the objects in the indexes of the request

-----------------------------------------------------------------------------
(* What a reference is *)

\* An object is of one kind: references carry the type beside the id.
KindsAreApart ==
    LET kind == <<Goals, People, Departments, Capabilities, Sops, Operations, Decisions, Kpis,
                  Repositories, Services, Workflows, Databases, Tables, Providers, Models>>
    IN \A i, j \in DOMAIN kind : i # j => kind[i] \cap kind[j] = {}

ASSUME ContextGraphAssumption == KindsAreApart

\* Every object has a status; a field refers to objects of its kind, or to
\* nothing there is.
IsWorld(w) ==
    /\ {"status", "names", "owner", "member", "dept", "refs", "repo", "base", "provider"} \subseteq DOMAIN w
    /\ DOMAIN w.status = Objects
    /\ \A p \in People : w.member[p] \cap Objects \subseteq Departments
    /\ \A c \in Capabilities :
          w.refs[c] \cap Objects \subseteq Sops \cup Repositories \cup Workflows \cup Tables \cup Models
    /\ \A t \in Tables : w.base[t] \in Objects => w.base[t] \in Databases
    /\ \A m \in Models : w.provider[m] \in Objects => w.provider[m] \in Providers

-----------------------------------------------------------------------------
(* Fields *)

\* _owner_matches: a person's id or one of the owner aliases.
Matches(name, p) == name # None /\ name \in world.names[p]

\* _people_by_owner
Owners(name) == {p \in People : Matches(name, p)}

SameOwner(a, b) == world.owner[a] # None /\ world.owner[a] = world.owner[b]

Open(o) == world.status[o] \in {"created", "executing"}

OpsOfDecisions(D) == {o \in Operations : world.decision[o] \in D}
OpsOfSops(S)      == {o \in Operations : world.sop[o] \in S}
Serving(g, S)     == {x \in S : world.goal[x] = g}

TablesOf(db)     == {t \in Tables \cap seen : world.base[t] = db}
ModelsOf(prov)   == {m \in Models \cap seen : world.provider[m] = prov}

-----------------------------------------------------------------------------
(* The hub *)

Naming(S) == {c \in Capabilities : world.refs[c] \cap S # {}}

\* The capabilities through which an object is related to the others.
CapsOf(x) ==
    CASE x \in Goals        -> {c \in Capabilities : SameOwner(c, x)}
      [] x \in People       -> {c \in Capabilities : Matches(world.owner[c], x)}
      [] x \in Departments  -> {c \in Capabilities : world.dept[c] = x}
      [] x \in Capabilities -> {x}
      [] x \in Operations   -> Naming({world.sop[x]})
      [] x \in Services     -> Naming({world.repo[x]})
      [] x \in Databases    -> Naming(TablesOf(x))
      [] x \in Providers    -> Naming(ModelsOf(x))
      [] OTHER              -> Naming({x})

NamedBy(C)       == UNION {world.refs[c] : c \in C}
PeopleOf(C)      == UNION {Owners(world.owner[c]) : c \in C}
DepartmentsOf(C) == {world.dept[c] : c \in C} \cap Departments
GoalsOf(C)       == {g \in Goals : \E c \in C : SameOwner(c, g)}
Business(x)      == CapsOf(x) \cup PeopleOf(CapsOf(x))
                        \cup DepartmentsOf(CapsOf(x)) \cup GoalsOf(CapsOf(x))

\* _find_services_by_repo_refs, _find_databases_for_tables,
\* _find_llm_providers_for_models: the holders of what is named.
ServicesOf(C)  == {s \in Services : world.repo[s] \in NamedBy(C)}
DatabasesOf(C) == {world.base[t] : t \in NamedBy(C) \cap Tables \cap seen}
ProvidersOf(C) == {world.provider[m] : m \in NamedBy(C) \cap Models \cap seen}

ResourcesOf(C) == (NamedBy(C) \cap Resources)
                    \cup ServicesOf(C) \cup DatabasesOf(C) \cup ProvidersOf(C)

-----------------------------------------------------------------------------
(* _EDGES, one definition for each kind of source *)

GoalEdges(g) ==
    Owners(world.owner[g])
        \cup (UNION {world.member[p] : p \in Owners(world.owner[g])})
        \cup CapsOf(g) \cup ResourcesOf(CapsOf(g))
        \cup Serving(g, Kpis \cup Decisions)
        \cup OpsOfDecisions(Serving(g, Decisions))

PersonEdges(p) ==
    world.member[p] \cup {d \in Departments : Matches(world.owner[d], p)}
        \cup CapsOf(p) \cup ResourcesOf(CapsOf(p))
        \cup {g \in Goals : Matches(world.owner[g], p)}
        \cup {o \in Operations : Open(o) /\ Matches(world.owner[o], p)}

\* Faulty variant: the owner of the department is not one of its people.
DepartmentEdgesMembersOnly(d) ==
    LET members == {p \in People : d \in world.member[p]} IN
    members \cup CapsOf(d) \cup ResourcesOf(CapsOf(d))
        \cup (NamedBy(CapsOf(d)) \cap Sops)
        \cup {x \in Goals \cup Operations :
                 \E p \in members : Matches(world.owner[x], p)}

DepartmentEdges(d) ==
    LET members == {p \in People : d \in world.member[p]} IN
    members \cup Owners(world.owner[d])
        \cup CapsOf(d) \cup ResourcesOf(CapsOf(d))
        \cup (NamedBy(CapsOf(d)) \cap Sops)
        \cup {x \in Goals \cup Operations :
                 \E p \in members : Matches(world.owner[x], p)}

CapabilityEdges(c) ==
    DepartmentsOf({c}) \cup Owners(world.owner[c]) \cup GoalsOf({c})
        \cup (world.refs[c] \cap Sops) \cup OpsOfSops(world.refs[c])
        \cup ResourcesOf({c})

\* An operation carries no capability_id, so it never reaches tables,
\* databases, models or providers.
OperationEdges(o) ==
    ({world.decision[o]} \cap Decisions) \cup ({world.sop[o]} \cap Sops)
        \cup ({world.flow[o]} \cap Workflows)
        \cup ({world.goal[d] : d \in {world.decision[o]} \cap Decisions} \cap Goals)
        \cup CapsOf(o) \cup DepartmentsOf(CapsOf(o)) \cup Owners(world.owner[o])

DecisionEdges(d) ==
    ({world.goal[d]} \cap Goals) \cup Owners(world.owner[d]) \cup OpsOfDecisions({d})

KpiEdges(k) == ({world.goal[k]} \cap Goals) \cup Owners(world.owner[k])

SopEdges(s) == CapsOf(s) \cup DepartmentsOf(CapsOf(s)) \cup OpsOfSops({s})

RepositoryEdges(r) ==
    Business(r) \cup {s \in Services : world.repo[s] = r}
        \cup (ResourcesOf(CapsOf(r)) \ (Repositories \cup Services))

ServiceEdges(s) ==
    Business(s) \cup ({world.repo[s]} \cap Repositories)
        \cup OpsOfSops(NamedBy(CapsOf(s)))
        \cup (ResourcesOf(CapsOf(s)) \ (Repositories \cup Services))

WorkflowEdges(w) ==
    Business(w) \cup {o \in Operations : world.flow[o] = w}
        \cup (ResourcesOf(CapsOf(w)) \ Workflows)

DatabaseEdges(db) ==
    Business(db) \cup TablesOf(db) \cup (ResourcesOf(CapsOf(db)) \ (Databases \cup Tables))

\* No operation has a capability_id: tables and models reach no operations.
TableEdges(t) ==
    Business(t) \cup ({world.base[t]} \cap Databases)
        \cup (ResourcesOf(CapsOf(t)) \ (Databases \cup Tables))

\* Providers and models have no edge to databases and tables.
ProviderEdges(v) ==
    Business(v) \cup ModelsOf(v)
        \cup (ResourcesOf(CapsOf(v)) \cap (Repositories \cup Services \cup Workflows))

ModelEdges(m) ==
    Business(m) \cup ({world.provider[m]} \cap Providers)
        \cup (ResourcesOf(CapsOf(m)) \cap (Repositories \cup Services \cup Workflows))

\* resolve: every edge of the object, looked up in the indexes.
Related(x) ==
    seen \cap
    CASE x \in Goals        -> GoalEdges(x)
      [] x \in People       -> PersonEdges(x)
      [] x \in Departments  -> DepartmentEdges(x)
      [] x \in Capabilities -> CapabilityEdges(x)
      [] x \in Operations   -> OperationEdges(x)
      [] x \in Decisions    -> DecisionEdges(x)
      [] x \in Kpis         -> KpiEdges(x)
      [] x \in Sops         -> SopEdges(x)
      [] x \in Repositories -> RepositoryEdges(x)
      [] x \in Services     -> ServiceEdges(x)
      [] x \in Workflows    -> WorkflowEdges(x)
      [] x \in Databases    -> DatabaseEdges(x)
      [] x \in Tables       -> TableEdges(x)
      [] x \in Providers    -> ProviderEdges(x)
      [] OTHER              -> ModelEdges(x)
=============================================================================
