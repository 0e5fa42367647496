CONSTANTS
  Netlocs <- MC_Netlocs
  ReqBodies = {"none", "json", "text"}
  ContentTypes = {"application/json", "text/plain", "absent"}
  RespBodies = {"results", "object", "seq", "seq_results", "scalar", "garbage"}
  MaxHooks = 2
  MaxResponses = 2
SPECIFICATION Spec
INVARIANT HookNeverRaises
