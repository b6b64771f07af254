------------------------- MODULE DependencyEngines -------------------------
(***************************************************************************)
(* The engines that plan work with dependencies: OperationEngine for the   *)
(* operations of a job, SwarmEngine for the members of a swarm, JobEngine  *)
(* for the jobs of a mission.  The first two look for a cycle with a depth *)
(* first search that keeps its own stack and order the items with Kahn's   *)
(* algorithm; the third does neither.  All three answer, for a set of      *)
(* completed ids, what is ready, blocked or failed.                        *)
(*                                                                         *)
(* A behaviour is one set of items taken through the search, the ordering  *)
(* and then the caller's loop: plan, run an item that is ready, plan again.*)
(* An id is its rank in the alphabet; dependencies are listed once.        *)
(***************************************************************************)
EXTENDS Integers, Sequences, FiniteSets

CONSTANTS
    Items,     \* ids of the items, a set of numbers
    Outside,   \* an id dependencies name although no item has it
    DepsIn,    \* the dependencies tried: functions from Items to sets of ids
    IndexIn,   \* the sequence_index functions tried
    BadIn      \* the sets tried of items that fail their own validation, or
               \* (jobs) lack a required capability

ASSUME DependencyEnginesAssumption ==
    /\ Items \subseteq Int
    /\ IsFiniteSet(Items)
    /\ Outside \notin Items
    /\ DepsIn \subseteq [Items -> SUBSET (Items \cup {Outside})]
    /\ IndexIn \subseteq [Items -> Nat]
    /\ BadIn \subseteq SUBSET Items

Engines == {"operation", "swarm", "job"}

VARIABLES
    engine,    \* the engine at work
    deps,      \* item -> the ids it depends on
    index,     \* item -> sequence_index
    bad,       \* items that fail on their own account
    phase,     \* "detect", "order", "execute" or "done"
    stack,     \* the search: a sequence of <<item, next neighbour>>
    path,      \* in_path
    visited,   \* items the search has finished
    reported,  \* what the search reported: items on a cycle
    degree,    \* Kahn: item -> dependencies not yet placed
    ready,     \* Kahn: items with none
    order,     \* the order computed so far
    completed  \* completed ids, which the caller passes to plan

input == <<engine, deps, index, bad>>
dfs   == <<stack, path, visited, reported>>
kahn  == <<degree, ready, order>>
vars  == <<input, phase, dfs, kahn, completed>>

-----------------------------------------------------------------------------
(* The graph *)

\* Dependencies between items of the set; the others are ignored.
Inner(n) == deps[n] \cap Items
Users(n) == {m \in Items : n \in deps[m]}

\* SwarmDependency points the other way: from what is needed to what needs it.
Edges(n) == IF engine = "swarm" THEN Users(n) ELSE Inner(n)

Least(S) == CHOOSE n \in S : \A m \in S : n <= m

\* sorted(S), at position i from 0.
Neighbour(n, i) ==
    CHOOSE m \in Edges(n) : Cardinality({k \in Edges(n) : k < m}) = i

\* sort_key: sequence_index, then the id.
Before(n, m) == index[n] < index[m] \/ (index[n] = index[m] /\ n <= m)
First(S)     == CHOOSE n \in S : \A m \in S : Before(n, m)

-----------------------------------------------------------------------------
TypeOK ==
    /\ engine \in Engines
    /\ deps \in DepsIn /\ index \in IndexIn /\ bad \in BadIn
    /\ phase \in {"detect", "order", "execute", "done"}
    /\ stack \in Seq(Items \X Nat)
    /\ path \subseteq Items /\ visited \subseteq Items /\ reported \subseteq Items
    /\ degree \in [Items -> Nat] /\ ready \subseteq Items /\ order \in Seq(Items)
    /\ completed \subseteq Items

Init ==
    /\ engine \in Engines
    /\ deps \in DepsIn /\ index \in IndexIn /\ bad \in BadIn
    /\ phase = IF engine = "job" THEN "execute" ELSE "detect"
    /\ stack = <<>> /\ path = {} /\ visited = {} /\ reported = {}
    /\ degree = [n \in Items |-> Cardinality(Inner(n))]
    /\ ready = {n \in Items : Inner(n) = {}}
    /\ order = <<>>
    /\ completed = {}

-----------------------------------------------------------------------------
(* detect_cycle and detect_conflict: the loop around an explicit stack.    *)
(* An item is pushed only when it is not on the path, so the test "if node *)
(* in in_path" at the head of the loop never holds.                        *)

Top  == stack[Len(stack)]
Rest == SubSeq(stack, 1, Len(stack) - 1)

\* for start in sorted(graph): if start in visited: continue
Start ==
    /\ phase = "detect"
    /\ stack = <<>>
    /\ visited # Items
    /\ stack' = <<<<Least(Items \ visited), 0>>>>
    /\ path' = {}
    /\ UNCHANGED <<input, phase, visited, reported, kahn, completed>>

\* The next neighbour of the item on top.
Look ==
    /\ phase = "detect"
    /\ stack # <<>>
    /\ Top[2] < Cardinality(Edges(Top[1]))
    /\ LET m    == Neighbour(Top[1], Top[2])
           on   == path \cup {Top[1]}
           next == Append(Rest, <<Top[1], Top[2] + 1>>)
       IN  /\ path' = on
           /\ reported' = IF m \in on THEN reported \cup {m} ELSE reported
           /\ stack' = IF m \in on \cup visited THEN next ELSE Append(next, <<m, 0>>)
           \* detect_cycle returns, detect_conflict goes on
           /\ phase' = IF m \in on /\ engine = "operation" THEN "order" ELSE phase
    /\ UNCHANGED <<input, visited, kahn, completed>>

\* Faulty variant: the item stays on the path.
LeaveOnPath ==
    /\ phase = "detect"
    /\ stack # <<>>
    /\ Top[2] >= Cardinality(Edges(Top[1]))
    /\ path' = path \cup {Top[1]}
    /\ visited' = visited \cup {Top[1]}
    /\ stack' = Rest
    /\ UNCHANGED <<input, phase, reported, kahn, completed>>

\* All neighbours seen.
Leave ==
    /\ phase = "detect"
    /\ stack # <<>>
    /\ Top[2] >= Cardinality(Edges(Top[1]))
    /\ path' = path \ {Top[1]}
    /\ visited' = visited \cup {Top[1]}
    /\ stack' = Rest
    /\ UNCHANGED <<input, phase, reported, kahn, completed>>

\* detect_conflict: a cycle, or a dependency on something that is no member.
Conflict == reported # {} \/ \E n \in Items : Outside \in deps[n]

\* validate of a swarm: one bad member or dependency spoils it all.
InvalidSwarm == \E n \in Items : n \in bad \/ n \in deps[n]

\* The search is over.  A swarm invalid or in conflict gets no execution plan.
EndSearch ==
    /\ phase = "detect"
    /\ stack = <<>>
    /\ visited = Items
    /\ phase' = IF engine = "swarm" /\ (InvalidSwarm \/ Conflict) THEN "done" ELSE "order"
    /\ UNCHANGED <<input, dfs, kahn, completed>>

-----------------------------------------------------------------------------
(* determine_execution_order and build_execution_plan *)

\* Faulty variant: an item is ready when its first dependency is placed.
FreedEarly(n) == {m \in Users(n) : degree[m] > 0}

\* Items whose last open dependency is n.
Freed(n) == {m \in Users(n) : degree[m] = 1}

Place ==
    /\ phase = "order"
    /\ ready # {}
    /\ LET n == First(ready)
       IN  /\ order' = Append(order, n)
           /\ ready' = (ready \ {n}) \cup Freed(n)
           /\ degree' = [m \in Items |-> IF m \in Users(n) THEN degree[m] - 1 ELSE degree[m]]
    /\ UNCHANGED <<input, phase, dfs, completed>>

\* The order is partial when there is a cycle.
EndOrder ==
    /\ phase = "order"
    /\ ready = {}
    /\ phase' = "execute"
    /\ UNCHANGED <<input, dfs, kahn, completed>>

-----------------------------------------------------------------------------
(* plan and plan_all, and the caller's loop around them *)

\* Faulty variant: only the dependencies within the set block.
BlockingInside(n) == Inner(n) \ completed

\* blocking_operations, blocking_jobs.
Blocking(n) == deps[n] \ completed

\* validate of an operation or a job: among the rest, it may not depend on itself.
Invalid(n) == n \in bad \/ n \in deps[n]

\* The status of an item that is not completed.  plan_all of operations fails
\* them all when there is a cycle; JobEngine does not look for one.
Status(n) ==
    IF Invalid(n) \/ (engine = "operation" /\ reported # {}) THEN "FAILED"
    ELSE IF Blocking(n) # {} THEN "BLOCKED" ELSE "READY"

Placed(i) == {order[k] : k \in 1 .. i}

\* What the caller may run: an item that is ready; of a swarm, the next of its plan.
Runnable ==
    IF completed = Items THEN {}
    ELSE IF engine = "swarm" THEN {n \in Items : order[Cardinality(completed) + 1] = n}
    ELSE {n \in Items \ completed : Status(n) = "READY"}

Run(n) ==
    /\ phase = "execute"
    /\ n \in Runnable
    /\ completed' = completed \cup {n}
    /\ UNCHANGED <<input, phase, dfs, kahn>>

Stop ==
    /\ phase = "execute"
    /\ Runnable = {}
    /\ phase' = "done"
    /\ UNCHANGED <<input, dfs, kahn, completed>>

Search == Start \/ Look \/ Leave \/ EndSearch
Order  == Place \/ EndOrder

Next == Search \/ Order \/ (\E n \in Items : Run(n)) \/ Stop

\* The loops go on; the caller works off what is ready.
Spec == Init /\ [][Next]_vars /\ WF_vars(Next)

-----------------------------------------------------------------------------
(* What the engines should find, without search or queue *)

\* Following dependencies from n leads back to n.
OnCycle(n) ==
    \A S \in SUBSET Items :
        Inner(n) \subseteq S /\ (\A m \in S : Inner(m) \subseteq S) => n \in S
HasCycle == \E n \in Items : OnCycle(n)

\* Closed under "depends on", without failures: nothing of S waits for ever.
CanFinish(S, lost) ==
    \A n \in S : n \notin lost /\ deps[n] \subseteq S /\ ~OnCycle(n)

-----------------------------------------------------------------------------
(* Properties *)

\* Both searches end with the right verdict on every graph: a cycle is
\* reported exactly when there is one, and what is reported lies on a cycle
\* (operation_engine.py:211, swarm_engine.py:252).
CyclesAreFound ==
    phase \in {"order", "execute", "done"} /\ engine # "job" =>
        /\ reported # {} <=> HasCycle
        /\ \A n \in reported : OnCycle(n)

\* The order lists an item once, after everything of the set it depends on,
\* and leaves out exactly the items that wait, directly or not, on a cycle;
\* of the items that could come next it takes the one with the least
\* sequence_index and id (operation_engine.py:284, swarm_engine.py:339).
OrderIsRight ==
    phase \in {"execute", "done"} /\ engine # "job" /\ (phase = "execute" \/ order # <<>>) =>
        /\ \A i \in DOMAIN order :
              /\ order[i] \notin Placed(i - 1)
              /\ Inner(order[i]) \subseteq Placed(i - 1)
              /\ \A m \in Items \ Placed(i - 1) :
                    Inner(m) \subseteq Placed(i - 1) => Before(order[i], m)
        /\ \A n \in Items \ Placed(Len(order)) : Inner(n) \ Placed(Len(order)) # {}

\* The caller's loop ends, and runs everything that can ever run and nothing
\* else: an item is left over only if it, or something it depends on, failed,
\* waits on a cycle or names an id outside the set, which determine_execution_order
\* ignores and plan counts as blocking (operation_engine.py:353, job_engine.py:279).
RunsWhatCanRun ==
    <>(/\ phase = "done"
       /\ CanFinish(completed, bad)
       /\ CASE engine = "operation" -> HasCycle => completed = {}
            [] engine = "swarm"     -> completed \in {{}, Items}
            [] OTHER                -> TRUE
       /\ (engine = "operation" /\ HasCycle) \/ engine = "swarm" \/
             \A S \in SUBSET Items : CanFinish(S, bad) => S \subseteq completed)
=============================================================================
