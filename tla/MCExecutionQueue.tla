-------------------------- MODULE MCExecutionQueue --------------------------
(* Instances of ExecutionQueue for TLC. *)
EXTENDS ExecutionQueue, TLC

Admission(global, perScript, queued, strategy) ==
  [max_active_runs_global |-> global,
   max_active_runs_per_script |-> perScript,
   max_queued_activations_per_script |-> queued,
   queue_overflow_strategy |-> strategy]

\* The operator may tighten, relax and switch the overflow strategy, and go
\* down to one run per script, where nested calls wait for each other.
ChangingPolicies ==
  {Admission(2, 1, 1, "RejectNewest"), Admission(Unlimited, 2, 2, "DropOldest"),
   Admission(Unlimited, 1, 2, "RejectNewest")}

\* The default limits, small, with a queue that changes its length and its
\* overflow strategy.
ChangingQueues ==
  {Admission(Unlimited, 1, 1, "DropOldest"), Admission(Unlimited, 1, 2, "RejectNewest")}

Symmetric == Permutations(Activations) \cup Permutations(Scripts)
=============================================================================
