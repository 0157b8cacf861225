SPECIFICATION FairSpec
CONSTANTS
  Tenants = {n1, n2}
  Submitter = n1
  NoOwner = NoOwner
  OwnerTTL = 6
  QueueTTL = 2
  ResultTTL = 2
  RunLimit = 1
  MaxRetries = 2
  MaxWait = 1
  MaxJitter = 1
  RetryAfters <- MCRetryAfters
  MaxStall = 1
  MaxRedeliveries = 1
INVARIANTS
  OwnerOutlivesTask
  FoundIsOwned
  AttemptsAreBounded
  RetryIsPermitted
PROPERTIES
  TaskEnds
