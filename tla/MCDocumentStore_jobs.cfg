SPECIFICATION Spec
CONSTANTS
  Jobs = {j1, j2, j3}
  Docs = {d1}
  Tenants = {n1}
  Keys = {k1, k2, k3}
  JobLease = 1
  JobAttempts = 2
  MaxVersion = 2
SYMMETRY MCSymmetry
INVARIANTS
  TypeOK
  JobsMatchVersions
  SourceIsRetained
  KeyNamesOneJob
PROPERTIES
  AttemptIsExclusive
  ImplementsLedger
