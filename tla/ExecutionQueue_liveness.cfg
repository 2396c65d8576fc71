SPECIFICATION FairSpec
CONSTANTS
  Scripts = {A, B}
  Activations = {a1, a2, a3}
  Policies <- ChangingQueues
  NoScript = NoScript
  NoActivation = NoActivation
  Unlimited = Unlimited
PROPERTIES
  EveryWaitEnds
