CONSTANTS
  Clients = {desktop, cli}
  A = A  B = B  A1 = A1  A2 = A2  B1 = B1
  Scripts = {A, B}
  Contents = {A1, A2, B1}
  Owner <- MCOwner
  small = small  capital = capital  other = other  fileOne = fileOne  fileTwo = fileTwo
  Names = {small, capital, other}
  Files = {fileOne, fileTwo}
  FileOf <- MCFileOf
  None = None
  MaxOps = 4
  MaxInterruptions = 1
SPECIFICATION SpecRuns
INVARIANTS FilesMatchRows
PROPERTIES StartsOnlyWhatWasApproved
SYMMETRY Symmetric
CHECK_DEADLOCK FALSE
