SPECIFICATION Spec
CONSTANTS
  RunIds = {r1}
  Tenants = {n1, n2}
  Inputs = {i1, i2}
  Keys = {k1}
  NoKey = NoKey
  Results = {a1}
  NoResult = NoResult
  Checkpoints <- MCCheckpoints
  EmptyCheckpoint <- MCEmptyCheckpoint
  Lease = 2
  Duration = 5
  MaxAttempts = 3
  LockWait = 1
INVARIANTS
  TypeOK
  QueuedIsClaimable
  CancelSticks
  AttemptsAccounted
  ResultIffSucceeded
PROPERTIES
  TerminalIsFinal
  LeaseExcludes
  DeadlineRunsDown
  CheckpointIsFenced
  ImplementsLifecycle
