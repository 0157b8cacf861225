SPECIFICATION Spec
CONSTANTS
  RunIds = {r1}
  Tenants = {n1}
  Inputs = {i1}
  Keys = {}
  NoKey = NoKey
  Results = {a1}
  NoResult = NoResult
  Checkpoints <- MCCheckpoints
  EmptyCheckpoint <- MCEmptyCheckpoint
  Lease = 2
  Duration = 3
  MaxAttempts = 3
  LockWait = 1
INVARIANT CancelledAttemptsEnd
