SPECIFICATION FairSpec
CONSTANTS
  RunIds = {r1}
  Tenants = {n1}
  Inputs = {i1}
  Keys = {}
  NoKey = NoKey
  Lease = 1
  Duration = 2
  MaxAttempts = 1
  LockWait = 0
  Workers = {w1}
  DocumentInputs = {}
  MaxDecisions = 2
  Settings <- MCTwoSettings
  NoLimits = NoLimits
  Estimates = {1}
  Excesses = {0}
PROPERTIES
  UnsafeFailuresStop
