SPECIFICATION FairSpec
CONSTANTS
  j1 = j1
  j2 = j2
  d1 = d1
  n1 = n1
  k1 = k1
  k2 = k2
  Commands <- MCCommands
  Jobs = {j1, j2}
  Docs = {d1}
  Tenants = {n1}
  Keys = {k1, k2}
  JobLease = 1
  JobAttempts = 2
  MaxVersion = 1
  NoJob = NoJob
  Procs = {p1, p2}
PROPERTIES
  JobEnds
