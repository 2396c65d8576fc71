SPECIFICATION SpecPipeline
CONSTANTS
  Scripts = {A, B}
  Activations = {a1, a2, a3}
  Policies <- TightLimits
  Events <- OnlyRestart
  Severities = {"none", "high"}
  BadPackages = TRUE
  NoScript = NoScript
  NoActivation = NoActivation
  Unlimited = Unlimited
SYMMETRY Symmetric
VIEW WithoutResult
INVARIANTS
  NoScriptCallsItself
  NoSecondQueue
PROPERTIES
  NothingDisabledStarts
