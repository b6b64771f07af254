--------------------------- MODULE MCEngineering ---------------------------
EXTENDS Engineering

CONSTANTS F1, F2, broken, wrong, right

McParses == {wrong, right}

\* The suite accepts no wrong or broken file; F2 alone does not pass.
McGreen == {t \in [Files -> Code \cup {None}] :
               /\ \A f \in Files : t[f] \in {right, None}
               /\ t[F1] = None => t[F2] = None}
McStart == [f \in Files |-> IF f = F2 THEN None ELSE right]

One(f)     == <<[id |-> 1, file |-> f, deps |-> {}]>>
Two(f, g)  == <<[id |-> 1, file |-> f, deps |-> {2, 3}], [id |-> 2, file |-> g, deps |-> {}]>>
Cyclic     == <<[id |-> 1, file |-> F1, deps |-> {2}], [id |-> 2, file |-> F2, deps |-> {1}]>>
SameId     == <<[id |-> 1, file |-> F1, deps |-> {}], [id |-> 1, file |-> F2, deps |-> {}]>>

\* No cycle in what detect_cycle looks at, one in what Kahn's loop counts.
Hidden     == <<[id |-> 1, file |-> F1, deps |-> {2}], [id |-> 2, file |-> F2, deps |-> {1}],
                [id |-> 1, file |-> F1, deps |-> {}]>>

\* Plans that modify F1 and create F2, in either order, nothing to do, a file
\* named twice, an id named twice, a dependency outside the plan, a cycle.
McPlans == {One(F1), Two(F1, F2), Two(F2, F1), << >>, Two(F1, F1), SameId, Hidden, Cyclic}

McPlansSameId == {SameId, Hidden}
McOnly == {One(F1), One(F2), Two(F2, F1)}
=============================================================================
