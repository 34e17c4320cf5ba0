SPECIFICATION Spec
CONSTANTS
  MaxAttempts = 2
  MaxCalls = 2
INVARIANTS
  RetryTypeOK
  CreateActsOnce
  OkMeansActed
  DeleteKeepsContract
PROPERTIES
  KeepsCallContract
  CallsReturn
