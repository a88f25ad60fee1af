SPECIFICATION Spec
CONSTANTS
  Refs <- MCRefs
  Slips <- Revisits
  ErrorPolicies <- AllPolicies
  Handlers <- MCHandlers
  MayHalt <- MCMayHalt
  Idempotency = TRUE
  KeyTokens = {"step_index", "step"}
  Faults = {"crash", "cancel"}
INVARIANT
  SkipOnlyAfterOwnSuccess
PROPERTY
  SuccessIsFinal
