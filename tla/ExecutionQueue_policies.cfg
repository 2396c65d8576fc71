SPECIFICATION Spec
CONSTANTS
  Scripts = {A, B}
  Activations = {a1, a2, a3, a4}
  Policies <- ChangingPolicies
  NoScript = NoScript
  NoActivation = NoActivation
  Unlimited = Unlimited
SYMMETRY Symmetric
INVARIANTS
  TypeOK
  CountersExact
  QueuesHoldTheWaiters
  AcyclicDependencies
  NoGridlock
PROPERTIES
  ImplementsAdmission
  NoOvertaking
