CONSTANTS
  c1 = c1
  c2 = c2
  t1 = t1
  Callers <- MC_Callers
  TenantLists <- MC_TenantLists
  AsyncMode = TRUE
  ASYNC_TIMEOUT = 15
  AS3_TASK_POLL_INTERVAL = 5
  TickSeconds = 5
  NResults = 2
  MaxOps = 1
  Ops = {"post"}
  ApplianceMayRestart = FALSE
SPECIFICATION Spec
INVARIANT AsyncFailureSurfaced
