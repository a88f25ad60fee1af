SPECIFICATION Spec
CONSTANTS
  Refs <- MCRefs
  Slips <- AllKinds
  ErrorPolicies <- AllPolicies
  Handlers <- MCHandlers
  MayHalt <- MCMayHalt
  Idempotency = FALSE
  KeyTokens = {"step_index", "step"}
  Faults = {"crash", "cancel", "save"}
INVARIANTS
  TypeOK
  NoStepLeftBehind
  FailedPointsAtFailedStep
  AtMostOneEffect
  AcknowledgedIsDurable
PROPERTIES
  ClaimBeforeEffect
  CursorRewindsOnlyOnFailure
  ImplementsProgress
