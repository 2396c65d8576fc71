SPECIFICATION FairSpec
CONSTANTS
  Tokens = {t1, t2, t3}
  Root = t1
  Threads = {x, y}
  NoToken = NoToken
INVARIANTS
  NoChildIsMissed
  NoSubscriberIsMissed
  CancellingIsIsolated
PROPERTIES
  EveryChildIsReached
CHECK_DEADLOCK FALSE
