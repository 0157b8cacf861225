SPECIFICATION Spec
CONSTANTS
  Docs = {d1}
  Chunks = {0}
  Statements = {a, b}
  MaxVersion = 2
  Reviews <- MCReviews
  TopK = 1
  MaxPassages = 2
  VALIDATION_POLICY_VERSION = v3
  OtherPolicies = {v2}
  OtherPasses <- MCOtherPasses
  NoAnswer = NoAnswer
  NoReceipt = NoReceipt
SYMMETRY MCSymmetry
CHECK_DEADLOCK FALSE
INVARIANTS
  ResultIsGrounded
  SavedAnswerIsAccepted
  SourcesNeverConflict
