SPECIFICATION Spec
CONSTANTS
  RunIds = {r1}
  Tenants = {n1, n2}
  Inputs = {i1}
  Keys = {k1}
  NoKey = NoKey
  Results = {a1}
  NoResult = NoResult
  Checkpoints <- MCCheckpoints
  EmptyCheckpoint <- MCEmptyCheckpoint
  Lease = 1
  Duration = 2
  MaxAttempts = 2
  LockWait = 0
  Callers = {c1, c2}
  NoOwner = NoOwner
  MaxMessages = 2
SYMMETRY MCSymmetry
INVARIANTS
  ConfirmedWasSent
  OwnerIsTenant
