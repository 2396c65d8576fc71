---------------------------- MODULE MCWebhookHost ----------------------------
(* Instances of WebhookHost for TLC. *)
EXTENDS WebhookHost, TLC

Policy(global, perScript, queued, strategy) ==
  [max_active_global |-> global, max_active_per_script |-> perScript,
   max_queued_per_script |-> queued, overflow_strategy |-> strategy]

\* One run at a time, or one of each script; a queue that drops its first waiter
\* at the second, refuses the second, or holds both.
TightPolicies ==
  {Policy(1, Unlimited, 1, "DropOldest"), Policy(2, 1, 1, "RejectNewest"),
   Policy(1, 1, 2, "RejectNewest")}

\* Three requests for one webhook, or one for another in between.
MCTargets == {[r \in Requests |-> "A"], [r \in Requests |-> IF r = 2 THEN "B" ELSE "A"]}
=============================================================================
