SPECIFICATION FairQueueSpec
CONSTANTS
  j1 = j1
  j2 = j2
  a = a
  b = b
  w1 = w1
  w2 = w2
  Job <- TwoJobs
  Tenant <- TwoTenants
  TenantOf <- SameTenant
  Worker <- TwoWorkers
  MaxAttempts = 2
  GlobalConcurrency = 2
  PerTenantConcurrency = 1
  None = None
INVARIANTS
  QueueTypeOK
  OwnerIsCurrent
  OneRunner
  StrandedByOverrun
PROPERTY
  JobsEnd
CHECK_DEADLOCK FALSE
