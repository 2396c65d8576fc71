CONSTANTS
  Runs = {"a", "b"}
  Rows = {"p", "g"}
  Declared <- MCDeclared
  Default <- MCDefault
  MaxValue = 2
  MaxVersion = 3
  MaxAttempts = 2
  MaxOps = 2
  MaxResets = 1
SPECIFICATION Spec
INVARIANTS
  GivesUpOnlyWhenOvertaken
PROPERTIES
  NoUpdateIsLost
  ConditionsSeeTheStore
