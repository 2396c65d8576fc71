SPECIFICATION FairSpec
CONSTANTS
  Threads = {t1, t2}
  NoThread = NoThread
  Configs <- Settings
  NoConfig = NoConfig
INVARIANTS
  StopsReachTheRunner
  SaveIsAllOrNothing
PROPERTIES
  NothingServesUnderAChange
  LockIsGivenBack
