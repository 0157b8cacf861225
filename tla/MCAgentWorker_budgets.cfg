SPECIFICATION FairSpec
CONSTANTS
  RunIds = {r1}
  Tenants = {n1}
  Inputs = {i1}
  Keys = {}
  NoKey = NoKey
  Lease = 2
  Duration = 1
  MaxAttempts = 2
  LockWait = 0
  Workers = {w1}
  DocumentInputs = {i1}
  MaxDecisions = 2
  Settings <- MCTwoSettings
  NoLimits = NoLimits
  Estimates = {1}
  Excesses = {0, 1}
INVARIANTS
  TypeOK
  SpendIsReserved
  ResultIsCheckpointed
  EndsForAReason
PROPERTIES
  BudgetsNeverRewind
  RunningEnds
