SPECIFICATION Spec
CONSTANTS
  Scripts = {A, B}
  Policies <- TightPolicies
  Unlimited = Unlimited
  MaxJobs = 2
  DebugAssertions = FALSE
SYMMETRY Symmetric
INVARIANTS
  NoRunOutlivesShutdown
CHECK_DEADLOCK FALSE
