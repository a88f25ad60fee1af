SPECIFICATION Spec
CONSTANTS
  Refs <- MCRefs
  Slips <- Gated
  ErrorPolicies <- StopPolicy
  Handlers <- MCHandlers
  MayHalt <- MCMayHalt
  Idempotency = FALSE
  KeyTokens = {"step_index", "step"}
  Faults = {"crash", "cancel"}
INVARIANT
  CompletedMeansSettled
