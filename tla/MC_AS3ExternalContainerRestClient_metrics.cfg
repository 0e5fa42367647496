CONSTANTS
  c1 = c1
  c2 = c2
  t1 = t1
  Callers <- MC_Callers
  TenantLists <- MC_TenantLists
  AsyncMode = FALSE
  ASYNC_TIMEOUT = 15
  AS3_TASK_POLL_INTERVAL = 5
  TickSeconds = 5
  NResults = 2
  MaxOps = 1
  Ops = {"patch", "delete"}
  ApplianceMayRestart = FALSE
  AuthKind = "token"
SPECIFICATION ContainerSpec
INVARIANT ExceptionsCountedPerMethod
