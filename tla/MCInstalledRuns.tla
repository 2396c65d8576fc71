--------------------------- MODULE MCInstalledRuns ---------------------------
(* Instances of InstalledRuns for TLC. *)
EXTENDS InstalledRuns, TLC

Limits(global, perScript, queued, strategy) ==
  [max_active_runs_global |-> global,
   max_active_runs_per_script |-> perScript,
   max_queued_activations_per_script |-> queued,
   queue_overflow_strategy |-> strategy]

\* The default, one run of a script at a time, and an operator who lifts it.
OneRunOrAnyNumber ==
  {Limits(Unlimited, 1, 1, "DropOldest"), Limits(Unlimited, Unlimited, 1, "RejectNewest")}

EveryEvent == {"Manual", "Queue", "Skip", "Stop", "Restart"}
=============================================================================
