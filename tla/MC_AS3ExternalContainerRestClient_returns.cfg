CONSTANTS
  c1 = c1
  c2 = c2
  t1 = t1
  Callers <- MC_Callers
  TenantLists <- MC_TenantLists
  AsyncMode = TRUE
  ASYNC_TIMEOUT = 15
  AS3_TASK_POLL_INTERVAL = 5
  TickSeconds = 5
  NResults = 1
  MaxOps = 1
  Ops = {"post", "patch", "delete"}
  ApplianceMayRestart = TRUE
  AuthKind = "token"
SPECIFICATION ContainerSpec
PROPERTY PostReturns
PROPERTY DeliveryContract
