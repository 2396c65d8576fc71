SPECIFICATION FairSpecHost
CONSTANTS
  Scripts = {"A", "B"}
  Policies <- TightPolicies
  Unlimited = Unlimited
  MaxJobs = 3
  DebugAssertions = TRUE
  Requests = {1, 2, 3}
  Targets <- MCTargets
  Waiting = {1, 2}
  MaxConnections = 2
  MaxRestarts = 1
INVARIANTS
  EveryJobAccountedFor
  NothingStartableIsQueued
  OnlyTheGoneFillTheChannel
PROPERTIES
  StartsInOrder
  ResultsAreTheirOwn
  EveryCallerIsAnswered
CHECK_DEADLOCK FALSE
