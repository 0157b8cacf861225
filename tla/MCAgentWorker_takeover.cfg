SPECIFICATION Spec
CONSTANTS
  RunIds = {r1}
  Tenants = {n1}
  Inputs = {i1}
  Keys = {}
  NoKey = NoKey
  Lease = 1
  Duration = 2
  MaxAttempts = 2
  LockWait = 0
  Workers = {w1, w2}
  DocumentInputs = {}
  MaxDecisions = 2
  Settings <- MCAmple
  NoLimits = NoLimits
  Estimates = {1}
  Excesses = {0}
SYMMETRY MCSymmetry
INVARIANTS
  LocalMirrorsStored
  OneCallPerDecision
PROPERTIES
  UnsafeEffectsInOrder
