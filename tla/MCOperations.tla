---------------------------- MODULE MCOperations ----------------------------
(* Instances of Operations for TLC. *)
EXTENDS Operations

\* Two outcome texts; the second one mentions the number OPS-002.
MCOutcomes == {"plain", "citing"}
MCCitedIn  == [plain |-> 0, citing |-> 2]
MCPlain    == {"plain"}
MCPlainCited == [plain |-> 0]

\* Two SOPs that share a step id: "review" is second in one, first in the other.
MCTwoSops    == {"publish", "audit"}
MCTwoStepsOf == [publish |-> <<"draft", "review">>, audit |-> <<"review", "sign">>]
MCNoSops  == {}
MCNoSteps == <<>>
=============================================================================
