------------------------- MODULE MCTriggerExecutor -------------------------
(* Instances of TriggerExecutor for TLC. *)
EXTENDS TriggerExecutor, TLC

Policy(global, perScript, queued, strategy) ==
  [max_active_global |-> global, max_active_per_script |-> perScript,
   max_queued_per_script |-> queued, overflow_strategy |-> strategy]

\* Tight limits that make jobs wait, overflow and overtake other scripts.
TightPolicies ==
  {Policy(2, 1, 1, "RejectNewest"), Policy(2, 1, 1, "DropOldest"),
   Policy(1, Unlimited, 2, "DropOldest"), Policy(Unlimited, 2, Unlimited, "RejectNewest")}

Symmetric == Permutations(Scripts)
=============================================================================
