SPECIFICATION Spec
CONSTANTS
  Grid <- Instants
  Tags = {"none", "rth", "closed"}
INVARIANTS GateMatchesAssert SignedBoundWithinHorizon PublishInSession
CHECK_DEADLOCK FALSE
