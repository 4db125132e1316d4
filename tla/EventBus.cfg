SPECIFICATION Spec
CONSTANTS
  Callers = {c1, c2}
  Events = {a, b}
  Predicates = {{a}, {a, b}}
  Buffers = {0, 2}
  MaxID = 2
  MaxEmits = 3
INVARIANTS
  TypeOK
  LockedStepsAreSafe
  WaitersHaveCallers
  FirstMatchWins
  ErrorsAreTruthful
  SubscriptionsInOrder
PROPERTIES
  WaitForReturns
  ImplementsGate
CHECK_DEADLOCK FALSE
