SPECIFICATION Spec
CONSTANTS
  Inputs <- AllInputs
  Files <- WorkflowFiles
  NaN = NaN
  Floated <- FloatedNumbers
  Cleaned <- CleanedNames
  Registered <- WorkflowHandlers
  FileName <- StateFiles
  Rank <- Alphabet
  Readable <- Identifiers
  Trimmed <- TrimmedTexts
  Lowered <- LoweredTexts
INVARIANTS
  CyclesAreRefused
  JumpsStayInTheirFile
  AcceptedTargetsExist
  OppositesDisagree
  RetryIsClean
  TransformationIsAtomic
  InterpolationEnds
  SpansAreChained
  AcceptedNamesProcessed
  ListIsComplete
  BackoffIsBounded
  DraftsAreUsable
  AcceptedConfigurationRuns
CHECK_DEADLOCK FALSE
