SPECIFICATION FairSpec
CONSTANTS
  Refs <- MCRefs
  Slips <- AllKinds
  ErrorPolicies <- AllPolicies
  Handlers <- MCHandlers
  MayHalt <- MCMayHalt
  Idempotency = FALSE
  KeyTokens = {"step_index", "step"}
  Faults = {}
INVARIANTS
  CompletedMeansSettled
  CompletedKeepsResults
PROPERTY
  ProcessReturns
