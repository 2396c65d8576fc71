CONSTANTS
  Unlimited = Unlimited
  Programs <- AllPrograms
  Steps = 7
  Iterations = 4
SPECIFICATION Spec
INVARIANTS
  BudgetsAreExact
  ClockIsNotAStop
  MatchesStructuredSemantics
PROPERTY CancelledRunEnds
