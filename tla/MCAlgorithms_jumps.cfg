SPECIFICATION Spec
CONSTANTS
  Inputs <- WorkflowInputs
  Files <- WorkflowFiles
  NaN = NaN
  Floated <- FloatedNumbers
  Cleaned <- CleanedNames
  Registered <- WorkflowHandlers
  FileName <- StateFiles
  Rank <- Alphabet
  Readable <- Identifiers
  Trimmed <- TrimmedTexts
  Lowered <- LoweredTexts
INVARIANT FailureJumpsStayInTheirFile
CHECK_DEADLOCK FALSE
