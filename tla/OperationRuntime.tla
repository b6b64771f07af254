-------------------------- MODULE OperationRuntime --------------------------
(***************************************************************************)
(* The SOP step rules of kernel/operation_runtime.py, as operators on the  *)
(* sequence of step ids of an SOP and the set of step ids an operation has *)
(* marked complete (extra_fields["sop_progress"]["steps"]).                *)
(***************************************************************************)
EXTENDS Integers, Sequences

\* The step ids of an SOP, in order.
StepsIn(steps) == {steps[i] : i \in DOMAIN steps}

\* Positions of the steps not yet complete.
Pending(steps, done) == {i \in DOMAIN steps : steps[i] \notin done}

\* "The first incomplete step": step is it.
IsCurrent(steps, done, step) ==
    \E i \in Pending(steps, done) :
        /\ steps[i] = step
        /\ \A j \in Pending(steps, done) : i <= j

\* Faulty variant: any step of the SOP may be completed.
ActionableAny(steps, done, step) == step \in StepsIn(steps)

\* complete_step accepts a step that is already complete, or the current one;
\* otherwise it raises StepNotFoundError or StepNotActionableError.
Actionable(steps, done, step) ==
    /\ step \in StepsIn(steps)
    /\ step \in done \/ IsCurrent(steps, done, step)
=============================================================================
