------------------------ MODULE MCDependencyEngines ------------------------
(* Instances of DependencyEngines for TLC. *)
EXTENDS DependencyEngines

\* Every graph on three items, any of which may also name an id outside.
MCDeps  == [Items -> SUBSET (Items \cup {Outside})]
\* All at one index, and the last one first.
MCIndex == {[n \in Items |-> 0], [n \in Items |-> IF n = 3 THEN 0 ELSE 1]}
MCBad   == {{}, {1}}
=============================================================================
