-------------------------- MODULE MCTriggerPipeline --------------------------
(* Instances of TriggerPipeline for TLC. *)
EXTENDS TriggerPipeline, TLC

Limits(global, perScript, queued, strategy) ==
  [max_active_runs_global |-> global,
   max_active_runs_per_script |-> perScript,
   max_queued_activations_per_script |-> queued,
   queue_overflow_strategy |-> strategy]

\* Two runs in all.
TightLimits == {Limits(2, 1, 1, "DropOldest")}

\* What the last call returned decides nothing later on.
WithoutResult ==
  <<admissionVars, stage, script, event, caller, root, started, cancelled, settings, pipelineVars>>

Symmetric == Permutations(Activations) \cup Permutations(Scripts)

OnlyRestart == {"Restart"}
=============================================================================
