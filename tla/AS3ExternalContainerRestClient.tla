-------------------- MODULE AS3ExternalContainerRestClient --------------------
(***************************************************************************)
(* AS3ExternalContainerRestClient of                                       *)
(* src/octavia_f5/restclient/as3restclient.py (lines 142-185): a subclass  *)
(* of AS3RestClient whose declarations go to an external AS3 container.   *)
(* Its post stamps the declaration with the device and the credentials of  *)
(* the active auth object before calling AS3RestClient.post; patch and     *)
(* delete are re-expressed as self.post of a declaration with action       *)
(* "patch" or "remove".  Only AS3RestClient.post carries metric            *)
(* decorators, so every call is metered as a post.  The executor, the     *)
(* worker, the clock and the appliance are those of AS3RestClient.         *)
(***************************************************************************)
EXTENDS AS3RestClient

CONSTANT AuthKind   \* class of self.auth: "token", "basic" or "none"

ASSUME AuthKind \in CredKinds

LOCAL SeqX == INSTANCE SequencesExt

\* URL paths as their segments.
AS3_PATH == <<"mgmt", "shared", "appsvcs">>
AS3_DECLARE_PATH == AS3_PATH \o <<"declare">>

\* get_url (lines 152-162): AS3 paths are rewritten to the external
\* container's scheme and host; other paths go to the device.
get_url(path) == IF SeqX!IsPrefix(AS3_PATH, path) THEN "container" ELSE "device"

\* The declaration after set_bigip_target_host and the credential setters
\* (lines 165-171), sent to self.get_url(AS3_DECLARE_PATH) (line 110).
Stamped(req) == [req EXCEPT !.creds = AuthKind, !.host = get_url(AS3_DECLARE_PATH)]

\* Mutant: the re-expressed call goes to super().post and skips the stamping.
PostUnstamped(c, ts, act, m) == PostAs(c, Request("POST", ts, act), m)

\* self.post(tenants, payload) on behalf of public method m (lines 164-172).
ContainerPost(c, ts, act, m) == PostAs(c, Stamped(Request("POST", ts, act)), m)

\* patch: a POST of AS3(action='patch', patchBody=...) (lines 174-177).
ContainerPatch(c, ts) == CanCall(c) /\ ContainerPost(c, ts, "patch", "patch")

(***************************************************************************)
(* delete, lines 179-185.  The guard raises the same misspelt name as the  *)
(* base class, and this override has no metric decorator, so nothing is    *)
(* counted.                                                                *)
(***************************************************************************)
ContainerDeleteGuard(c) ==
  /\ CanCall(c)
  /\ Complete(c, "delete", RaiseNamed("DeleteAllTenenatsException"))
  /\ raisedCalls' = [raisedCalls EXCEPT !["delete"] = @ + 1]
  /\ UNCHANGED <<workerVars, applianceVars, durCount, excCount>>

ContainerDeleteSend(c, ts) == CanCall(c) /\ ContainerPost(c, ts, "remove", "delete")

\* Mutant: container delete without the "if not tenants" guard of line 181.
ContainerDeleteUnguarded(c, ts) == ContainerDeleteSend(c, ts)

ContainerDelete(c, ts) ==
  \/ ts = << >> /\ ContainerDeleteGuard(c)
  \/ ts # << >> /\ ContainerDeleteSend(c, ts)

ContainerCallerStep(c) ==
  \/ \E ts \in TenantLists :
       \/ "post" \in Ops /\ CanCall(c) /\ ContainerPost(c, ts, "deploy", "post")
       \/ "patch" \in Ops /\ ContainerPatch(c, ts)
       \/ "delete" \in Ops /\ ContainerDelete(c, ts)
  \/ "info" \in Ops /\ info(c)
  \/ ResultReturned(c) \/ ResultRaised(c) \/ TimedOut(c)

ContainerNext ==
  \/ \E c \in Callers : ContainerCallerStep(c)
  \/ WorkerStep
  \/ ApplianceStep
  \/ Tick
  \/ Terminated

ContainerSpec == Init /\ [][ContainerNext]_vars /\ Fairness

-----------------------------------------------------------------------------
(***************************************************************************)
(* Every declaration -- deploy, patch or remove, from any caller -- goes   *)
(* to the external container and carries the credentials of the client's *)
(* auth object, so the container can act on the device (lines 152-171,    *)
(* reached from patch and delete through self.post).                       *)
(***************************************************************************)
DeclarationsCarryCredentials ==
  \A req \in sent : req.verb = "POST" => req.creds = AuthKind /\ req.host = "container"

(***************************************************************************)
(* Spec 4.2: every post/patch/delete call that raises increments the       *)
(* exception counter of its own operation kind.  The container's patch and *)
(* delete are metered as posts, and its delete guard not at all.           *)
(***************************************************************************)
ExceptionsCountedPerMethod ==
  \A k \in Kinds : excCount[k] = raisedCalls[k]
=============================================================================
