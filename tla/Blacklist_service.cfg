CONSTANTS
  Clients = {cli}
  A = A  A1 = A1  A2 = A2
  Scripts = {A}
  Contents = {A1, A2}
  Owner <- MCOwner
  plain = plain  fileOne = fileOne
  Names = {plain}
  Files = {fileOne}
  FileOf <- MCFileOf
  None = None
  MaxOps = 3
  MaxInterruptions = 1
  Refreshers = {worker}
  Withdrawn = {A1}
SPECIFICATION Spec
INVARIANTS NoReloadIsLost
PROPERTIES
  RegistrationsSettle
  RestrictedEndDisabled
  CriticalRunsAreCancelled
CHECK_DEADLOCK FALSE
