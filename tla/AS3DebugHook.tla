---------------------------- MODULE AS3DebugHook ----------------------------
(***************************************************************************)
(* AS3RestClient.debug_enable, as3restclient.py lines 64-94: each call     *)
(* appends the response hook log_response to the session's hooks, and      *)
(* every response then runs the installed hooks in order.  A hook that     *)
(* raises aborts the rest and makes the HTTP call itself raise, after the  *)
(* appliance has answered.                                                 *)
(*                                                                         *)
(* Data is abstracted to what the hook distinguishes: the URL's authority  *)
(* (user info, host, port), whether the request carried a JSON, a non-JSON *)
(* or no body, the response's Content-Type header (JSON, other or absent)  *)
(* and what its body parses to: a JSON object with or without "results", *)
(* an array or string with or without a "results" member, another JSON     *)
(* value (null, number, boolean), or no JSON at all.  A log record keeps   *)
(* its level, what it shows and                                            *)
(* the authority of the URL it prints.                                     *)
(***************************************************************************)
EXTENDS Naturals, Sequences, SequencesExt

CONSTANTS
  Netlocs,        \* URL authorities: [user, host, port]; "" when absent
  ReqBodies,      \* subset of {"none", "json", "text"}
  ContentTypes,   \* subset of {"application/json", "text/plain", "absent"}
  RespBodies,     \* subset of {"results", "object", "seq", "seq_results",
                  \*            "scalar", "garbage"}
  MaxHooks,       \* debug_enable calls (bound)
  MaxResponses    \* responses received (bound)

VARIABLES
  hooks,      \* copies of log_response in the session's response hooks
  log,        \* the debug/error records written so far
  responses,  \* responses received so far
  raised      \* the hooks made the last response's HTTP call raise

vars == <<hooks, log, responses, raised>>

Responses == [netloc : Netlocs, reqBody : ReqBodies,
              ctype : ContentTypes, body : RespBodies]

NoNetloc == [user |-> "", host |-> "", port |-> ""]

Rec(lvl, what, n) == [lvl |-> lvl, what |-> what, netloc |-> n]

\* Mutant: the netloc kept as parsed, credentials included.
RedactKeep(n) == n

\* url._replace(netloc=url.hostname) (line 70): only the host is left.
Redact(n) == [user |-> "", host |-> n.host, port |-> ""]

\* Lines 73-79: the request body, pretty-printed if it parses as JSON.
RequestBodyLog(r) ==
  IF r.reqBody = "none" THEN << >>
  ELSE << Rec("debug", "Request Body", NoNetloc),
          Rec("debug", IF r.reqBody = "json" THEN "pretty" ELSE "raw", NoNetloc) >>

\* What r.json() gives (line 84), and whether 'results' in parsed (line 85)
\* raises TypeError (a JSON null, number or boolean) or is true.
JsonValue == {"results", "object", "seq", "seq_results", "scalar"}
HasResults(b) == b \in {"results", "seq_results"}
InRaises(b) == b = "scalar"

\* parsed['results'] (line 86): a list or string index that is not an int
\* raises TypeError; only a dict has the key.
IndexRaises(b) == b = "seq_results"

(***************************************************************************)
(* Lines 82-91.  'application/json' in None raises TypeError when the      *)
(* response has no Content-Type header.  Only ValueError, a body that is   *)
(* not JSON, is caught (line 88): the TypeErrors of lines 85-86 escape.    *)
(***************************************************************************)
ResponseBody(r) ==
  CASE r.ctype = "absent" -> [out |-> << >>, raise |-> TRUE]
    [] r.ctype # "application/json" -> [out |-> << Rec("debug", "raw", NoNetloc) >>, raise |-> FALSE]
    [] r.body \notin JsonValue ->
         [out |-> << Rec("error", "Valid JSON expected", NoNetloc) >>, raise |-> FALSE]
    [] InRaises(r.body) \/ IndexRaises(r.body) ->
         [out |-> << >>, raise |-> TRUE]
    [] OTHER -> [out |-> << Rec("debug", IF HasResults(r.body) THEN "results" ELSE "pretty",
                                NoNetloc) >>, raise |-> FALSE]

\* log_response(r), lines 67-91: the records it writes, and whether it raises.
log_response(r) ==
  LET tail == ResponseBody(r) IN
  [out |-> << Rec("debug", "finished", Redact(r.netloc)) >> \o RequestBodyLog(r)
             \o << Rec("debug", "Response", NoNetloc) >> \o tail.out,
   raise |-> tail.raise]

Init == hooks = 0 /\ log = << >> /\ responses = 0 /\ raised = FALSE

\* debug_enable (lines 93-94): one more copy of the hook is installed.
debug_enable ==
  /\ hooks < MaxHooks
  /\ hooks' = hooks + 1
  /\ UNCHANGED <<log, responses, raised>>

\* A response runs every installed hook in order; the first that raises
\* aborts the others (all copies are the same hook, so it is the first).
Respond ==
  /\ responses < MaxResponses
  /\ \E r \in Responses :
       LET h == log_response(r)
           runs == IF h.raise THEN Min({1, hooks}) ELSE hooks
       IN /\ log' = log \o FlattenSeq([k \in 1 .. runs |-> h.out])
          /\ raised' = (hooks > 0 /\ h.raise)
  /\ responses' = responses + 1
  /\ UNCHANGED hooks

\* The bounds are reached: the session goes on with no further responses.
Done == hooks = MaxHooks /\ responses = MaxResponses /\ UNCHANGED vars

Next == debug_enable \/ Respond \/ Done

Spec == Init /\ [][Next]_vars

-----------------------------------------------------------------------------
(***************************************************************************)
(* The debug log never shows the credentials of a URL: however many hooks  *)
(* are installed and whatever the responses, every record prints the URL   *)
(* authority reduced to its host (redaction at lines 69-70).               *)
(***************************************************************************)
NoCredentialsLogged == \A i \in DOMAIN log : log[i].netloc.user = ""

(***************************************************************************)
(* Spec 4.2 and 7: the debug path never breaks the primary operation: a    *)
(* body that is not valid JSON is logged, and no response makes the hooks  *)
(* raise out of the HTTP call (lines 75-79, 82-91).                        *)
(***************************************************************************)
HookNeverRaises == ~raised
=============================================================================
