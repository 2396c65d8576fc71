SPECIFICATION FairSpec
CONSTANTS
  Scripts = {A, B}
  Activations = {a1, a2}
  Policies <- OneRunOrAnyNumber
  Events <- EveryEvent
  Severities = {"none", "critical"}
  BadPackages = FALSE
  NoScript = NoScript
  NoActivation = NoActivation
  Unlimited = Unlimited
PROPERTIES
  StopsTakeEffect
  CancelledCallsEnd
