--------------------------- MODULE MC_AS3DebugHook ---------------------------
(* Instantiates AS3DebugHook with URLs with and without credentials and port. *)
EXTENDS AS3DebugHook

MC_Netlocs == [user : {"", "admin:secret"}, host : {"bigip"}, port : {"", "8443"}]
=============================================================================
