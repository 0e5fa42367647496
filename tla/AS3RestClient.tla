---------------------------- MODULE AS3RestClient ----------------------------
(***************************************************************************)
(* AS3RestClient of src/octavia_f5/restclient/as3restclient.py: several    *)
(* caller threads share one client.  post/patch/delete/info are HTTP calls *)
(* to the AS3 declare endpoint; with async_mode the client owns a futurist *)
(* ThreadPoolExecutor(max_workers=1) whose single worker runs              *)
(* wait_for_task_finished for every accepted declaration, in FIFO order,   *)
(* while the caller blocks in fut.result(timeout=ASYNC_TIMEOUT).  The AS3  *)
(* appliance is the environment: it answers every request with success, an *)
(* error status, or a broken connection (before or after it received the   *)
(* request), and finishes the sub-results of its tasks in any order.       *)
(*                                                                         *)
(* HTTP calls take no model time; time passes in Tick steps while callers  *)
(* wait on futures and the worker sleeps between polls.                    *)
(***************************************************************************)
EXTENDS Integers, Sequences, FiniteSets

CONSTANTS
  Callers,                 \* threads that call the one shared client
  TenantLists,             \* tenant lists callers pass (sequences of names)
  AsyncMode,               \* constructor argument async_mode
  ASYNC_TIMEOUT,           \* seconds fut.result() waits (90)
  AS3_TASK_POLL_INTERVAL,  \* seconds the poller sleeps between GETs (5)
  TickSeconds,             \* seconds per model clock step
  NResults,                \* sub-results in an AS3 task response
  MaxOps,                  \* calls each caller makes (bound)
  Ops,                     \* public methods the callers invoke
  ApplianceMayRestart      \* fault model: the appliance may restart once

ASSUME /\ AsyncMode \in BOOLEAN
       /\ TickSeconds \in Nat \ {0}
       /\ ASYNC_TIMEOUT % TickSeconds = 0
       /\ AS3_TASK_POLL_INTERVAL % TickSeconds = 0
       /\ NResults \in Nat \ {0} /\ MaxOps \in Nat \ {0}
       /\ Ops \subseteq {"post", "patch", "delete", "info"}
       /\ ApplianceMayRestart \in BOOLEAN

VARIABLES
  pc,          \* per caller: "idle" or "waiting" in fut.result()
  opsDone,     \* per caller: calls started so far (bounded by MaxOps)
  api,         \* per caller: the public method of its current/last call
  waitLeft,    \* per caller: seconds left before fut.result() times out
  waitTask,    \* per caller: id of the task of its last async post
  queue,       \* executor work queue: task ids awaiting the worker
  workerPc,    \* the executor's worker: "idle", "get" or "sleep"
  running,     \* task the worker is polling
  sleepLeft,   \* seconds left of the worker's time.sleep()
  fut,         \* per task: "none", "pending", "done" or "raised"
  futCodes,    \* per task: sub-result codes of the task the future returned
  tasks,       \* appliance: per task, the codes of its sub-results
  nextTask,    \* appliance: id of the next task it creates
  polled,      \* ghost: tasks the worker fetched at least once
  sent,        \* appliance: requests it received
  lost,        \* appliance: tasks it forgot when it restarted
  outcome,     \* per caller: what its last call returned or raised
  resultCodes, \* per caller: codes of the task its last post returned
  durCount,    \* per metric kind: duration observations
  excCount,    \* per metric kind: exceptions counted
  raisedCalls  \* ghost: per public method, calls that raised

callerVars == <<pc, opsDone, api, waitLeft, waitTask, outcome, resultCodes>>
workerVars == <<queue, workerPc, running, sleepLeft, fut, futCodes, polled>>
applianceVars == <<tasks, nextTask, sent, lost>>
metricVars == <<durCount, excCount, raisedCalls>>
vars == <<callerVars, workerVars, applianceVars, metricVars>>

TaskIds == 1 .. (Cardinality(Callers) * MaxOps)
NoTask == 0
Pending == 0
TerminalCodes == {200, 422}          \* AS3 success and failure codes
Codes == {Pending} \cup TerminalCodes
Kinds == {"post", "patch", "delete"} \* the methods with prometheus metrics
Methods == Kinds \cup {"info"}
Verbs == {"POST", "PATCH", "DELETE", "GET"}
Actions == {"deploy", "patch", "remove"}
CredKinds == {"token", "basic", "none"}   \* BigIPTokenAuth, BigIPBasicAuth, other
Outcomes == {"none", "response", "none_returned", "task", "info",
             "raised_transport", "raised_http", "raised_timeout",
             "raised_guard", "raised_attribute"}

\* How the appliance answers one HTTP request.
HttpResults == {"ok", "error_status", "conn_lost", "conn_delivered"}
Delivered(r) == r # "conn_lost"
Raises(r) == r \in {"conn_lost", "conn_delivered"}

\* The exception classes exceptions.py defines (lines 16-62).
exceptions == {"AS3Exception", "RetryException", "FailoverException",
               "IControlRestException", "PolicyHasNoRules",
               "NoActionFoundForPolicy", "CompareTypeNotSupported",
               "PolicyTypeNotSupported", "PolicyActionNotSupported",
               "MonitorDeletionException", "DeleteAllTenantsException"}

\* raise exceptions.<name>(): the class is raised if the module defines it;
\* otherwise the attribute lookup raises AttributeError first.
RaiseNamed(name) == IF name \in exceptions THEN "raised_guard" ELSE "raised_attribute"

\* A request as the appliance sees it; host is where get_url sent it, and
\* creds names the device credentials embedded in the declaration (only
\* the external container client embeds them).
Request(verb, ts, act) ==
  [verb |-> verb, tenants |-> ts, action |-> act, host |-> "device",
   creds |-> "unstamped"]
AllPending == [i \in 1 .. NResults |-> Pending]

\* Mutant: the exit test of line 103 written with any() instead of all().
TaskFinishedAny(codes) == \E i \in DOMAIN codes : codes[i] # Pending

\* Mutant: only the success code ends the poll; failed tasks never do.
TaskSucceeded(codes) == \A i \in DOMAIN codes : codes[i] = 200

(***************************************************************************)
(* The poll loop's exit test: task.ok and every sub-result code non-zero.  *)
(***************************************************************************)
TaskFinished(codes) == \A i \in DOMAIN codes : codes[i] # Pending

-----------------------------------------------------------------------------
Init ==
  /\ pc = [c \in Callers |-> "idle"]
  /\ opsDone = [c \in Callers |-> 0]
  /\ api = [c \in Callers |-> "post"]
  /\ waitLeft = [c \in Callers |-> 0]
  /\ waitTask = [c \in Callers |-> NoTask]
  /\ queue = << >>
  /\ workerPc = "idle"
  /\ running = NoTask
  /\ sleepLeft = 0
  /\ fut = [t \in TaskIds |-> "none"]
  /\ futCodes = [t \in TaskIds |-> AllPending]
  /\ tasks = [t \in TaskIds |-> AllPending]
  /\ nextTask = 1
  /\ polled = {}
  /\ sent = {}
  /\ lost = {}
  /\ outcome = [c \in Callers |-> "none"]
  /\ resultCodes = [c \in Callers |-> AllPending]
  /\ durCount = [k \in Kinds |-> 0]
  /\ excCount = [k \in Kinds |-> 0]
  /\ raisedCalls = [m \in Methods |-> 0]

\* A caller may start a call.
CanCall(c) == pc[c] = "idle" /\ opsDone[c] < MaxOps

\* The appliance receives request req when the answer r says it did.
Receive(req, r) == sent' = IF Delivered(r) THEN sent \cup {req} ELSE sent

(***************************************************************************)
(* The decorators @count_exceptions() and @time() of the metric kind k     *)
(* around the public method m: the duration is observed on every exit and  *)
(* the exception counter bumped when the call raises.                      *)
(***************************************************************************)
Meter(k, m, raised) ==
  /\ durCount' = [durCount EXCEPT ![k] = @ + 1]
  /\ excCount' = IF raised THEN [excCount EXCEPT ![k] = @ + 1] ELSE excCount
  /\ raisedCalls' = IF raised THEN [raisedCalls EXCEPT ![m] = @ + 1]
                              ELSE raisedCalls

\* Caller c starts a call of method m that returns or raises at once.
Complete(c, m, out) ==
  /\ opsDone' = [opsDone EXCEPT ![c] = @ + 1]
  /\ api' = [api EXCEPT ![c] = m]
  /\ outcome' = [outcome EXCEPT ![c] = out]
  /\ UNCHANGED <<pc, waitLeft, waitTask, resultCodes>>

(***************************************************************************)
(* post(tenants, payload), lines 107-119, on behalf of public method m     *)
(* (m # "post" when the external container client reroutes patch/delete).  *)
(* The metric kind is always "post": only AS3RestClient.post is decorated. *)
(***************************************************************************)
PostSync(c, req, m) ==
  /\ ~AsyncMode
  /\ \E r \in HttpResults :
       /\ Receive(req, r)
       /\ Complete(c, m, IF Raises(r) THEN "raised_transport" ELSE "response")
       /\ Meter("post", m, Raises(r))
  /\ UNCHANGED <<workerVars, tasks, nextTask, lost>>

\* r.ok: the appliance created task nextTask; its poll is submitted to the
\* executor and the caller blocks in fut.result(timeout=ASYNC_TIMEOUT).
PostAsyncAccepted(c, req, m) ==
  LET t == nextTask IN
  /\ AsyncMode
  /\ sent' = sent \cup {req}
  /\ nextTask' = t + 1
  /\ queue' = Append(queue, t)
  /\ fut' = [fut EXCEPT ![t] = "pending"]
  /\ pc' = [pc EXCEPT ![c] = "waiting"]
  /\ opsDone' = [opsDone EXCEPT ![c] = @ + 1]
  /\ api' = [api EXCEPT ![c] = m]
  /\ waitLeft' = [waitLeft EXCEPT ![c] = ASYNC_TIMEOUT]
  /\ waitTask' = [waitTask EXCEPT ![c] = t]
  /\ UNCHANGED <<outcome, resultCodes, workerPc, running, sleepLeft,
                 futCodes, polled, tasks, lost, metricVars>>

\* not r.ok: the method falls off its end and returns None.
PostAsyncRejected(c, req, m) ==
  /\ AsyncMode
  /\ sent' = sent \cup {req}
  /\ Complete(c, m, "none_returned")
  /\ Meter("post", m, FALSE)
  /\ UNCHANGED <<workerVars, tasks, nextTask, lost>>

\* The connection breaks; if the appliance got the request it still runs
\* the task, which nobody polls.
PostAsyncConnError(c, req, m) ==
  /\ AsyncMode
  /\ \E r \in {"conn_lost", "conn_delivered"} :
       /\ Receive(req, r)
       /\ nextTask' = IF Delivered(r) THEN nextTask + 1 ELSE nextTask
  /\ Complete(c, m, "raised_transport")
  /\ Meter("post", m, TRUE)
  /\ UNCHANGED <<workerVars, tasks, lost>>

PostAs(c, req, m) ==
  \/ PostSync(c, req, m)
  \/ PostAsyncAccepted(c, req, m)
  \/ PostAsyncRejected(c, req, m)
  \/ PostAsyncConnError(c, req, m)

post(c, ts) == CanCall(c) /\ PostAs(c, Request("POST", ts, "deploy"), "post")

\* patch(tenants, patch_body), lines 121-125: PATCH to the bare declare URL.
patch(c, ts) ==
  /\ CanCall(c)
  /\ \E r \in HttpResults :
       /\ Receive(Request("PATCH", << >>, "patch"), r)
       /\ Complete(c, "patch", IF Raises(r) THEN "raised_transport" ELSE "response")
       /\ Meter("patch", "patch", Raises(r))
  /\ UNCHANGED <<workerVars, tasks, nextTask, lost>>

(***************************************************************************)
(* delete(tenants), lines 127-134.  The guard raises                       *)
(* exceptions.DeleteAllTenenatsException, a name exceptions.py does not    *)
(* define; whatever it raises, the delete metric counts it.                *)
(***************************************************************************)
DeleteGuard(c) ==
  /\ CanCall(c)
  /\ Complete(c, "delete", RaiseNamed("DeleteAllTenenatsException"))
  /\ Meter("delete", "delete", TRUE)
  /\ UNCHANGED <<workerVars, applianceVars>>

\* DELETE to the declare URL suffixed with the tenant list (lines 133-134).
DeleteSend(c, ts) ==
  /\ CanCall(c)
  /\ \E r \in HttpResults :
       /\ Receive(Request("DELETE", ts, "remove"), r)
       /\ Complete(c, "delete", IF Raises(r) THEN "raised_transport" ELSE "response")
       /\ Meter("delete", "delete", Raises(r))
  /\ UNCHANGED <<workerVars, tasks, nextTask, lost>>

\* Mutant: delete without the "if not tenants" guard of line 130.
deleteUnguarded(c, ts) == DeleteSend(c, ts)

delete(c, ts) ==
  \/ ts = << >> /\ DeleteGuard(c)
  \/ ts # << >> /\ DeleteSend(c, ts)

\* info(), lines 136-139: GET, raise_for_status(); not metered.
info(c) ==
  /\ CanCall(c)
  /\ \E r \in HttpResults :
       LET out == CASE r = "ok" -> "info"
                    [] r = "error_status" -> "raised_http"
                    [] OTHER -> "raised_transport"
       IN /\ Complete(c, "info", out)
          /\ raisedCalls' = IF out = "info" THEN raisedCalls
                            ELSE [raisedCalls EXCEPT !["info"] = @ + 1]
  /\ UNCHANGED <<workerVars, applianceVars, durCount, excCount>>

-----------------------------------------------------------------------------
(***************************************************************************)
(* The executor's worker running wait_for_task_finished(task_id), lines    *)
(* 96-105.                                                                 *)
(***************************************************************************)
WorkerStart ==
  /\ workerPc = "idle"
  /\ queue # << >>
  /\ running' = Head(queue)
  /\ queue' = Tail(queue)
  /\ workerPc' = "get"
  /\ UNCHANGED <<callerVars, sleepLeft, fut, futCodes, polled,
                 applianceVars, metricVars>>

\* GET task: ok and every code non-zero; the future completes with it.
PollFinished ==
  /\ workerPc = "get"
  /\ running \notin lost
  /\ TaskFinished(tasks[running])
  /\ fut' = [fut EXCEPT ![running] = "done"]
  /\ futCodes' = [futCodes EXCEPT ![running] = tasks[running]]
  /\ polled' = polled \cup {running}
  /\ workerPc' = "idle"
  /\ UNCHANGED <<callerVars, queue, running, sleepLeft, applianceVars,
                 metricVars>>

\* Mutant: the poll interval passed to time.sleep() in milliseconds.
SleepAndRetryMillis ==
  /\ polled' = polled \cup {running}
  /\ workerPc' = "sleep"
  /\ sleepLeft' = 1000 * AS3_TASK_POLL_INTERVAL
  /\ UNCHANGED <<callerVars, queue, running, fut, futCodes, applianceVars,
                 metricVars>>

\* Sleep AS3_TASK_POLL_INTERVAL and fetch the task again (lines 101, 105).
SleepAndRetry ==
  /\ polled' = polled \cup {running}
  /\ workerPc' = "sleep"
  /\ sleepLeft' = AS3_TASK_POLL_INTERVAL
  /\ UNCHANGED <<callerVars, queue, running, fut, futCodes, applianceVars,
                 metricVars>>

\* GET task: ok, but some sub-result code is still 0.
PollPending ==
  /\ workerPc = "get"
  /\ running \notin lost
  /\ ~TaskFinished(tasks[running])
  /\ SleepAndRetry

\* GET task: task.ok is false -- an error status, and for a task the
\* appliance forgot, the only answer it gives.
PollNotOk ==
  /\ workerPc = "get"
  /\ SleepAndRetry

\* GET task raises (connection error): the future completes with it.
PollRaised ==
  /\ workerPc = "get"
  /\ fut' = [fut EXCEPT ![running] = "raised"]
  /\ workerPc' = "idle"
  /\ UNCHANGED <<callerVars, queue, running, sleepLeft, futCodes, polled,
                 applianceVars, metricVars>>

WorkerWake ==
  /\ workerPc = "sleep"
  /\ sleepLeft = 0
  /\ workerPc' = "get"
  /\ UNCHANGED <<callerVars, queue, running, sleepLeft, fut, futCodes,
                 polled, applianceVars, metricVars>>

-----------------------------------------------------------------------------
(***************************************************************************)
(* fut.result(timeout=ASYNC_TIMEOUT), line 119, returns to the caller.     *)
(***************************************************************************)
ReturnAsync(c, out, raised) ==
  /\ pc[c] = "waiting"
  /\ pc' = [pc EXCEPT ![c] = "idle"]
  /\ outcome' = [outcome EXCEPT ![c] = out]
  /\ Meter("post", api[c], raised)
  /\ UNCHANGED <<opsDone, api, waitLeft, waitTask, workerVars, applianceVars>>

ResultReturned(c) ==
  /\ pc[c] = "waiting"
  /\ fut[waitTask[c]] = "done"
  /\ resultCodes' = [resultCodes EXCEPT ![c] = futCodes[waitTask[c]]]
  /\ ReturnAsync(c, "task", FALSE)

ResultRaised(c) ==
  /\ pc[c] = "waiting"
  /\ fut[waitTask[c]] = "raised"
  /\ ReturnAsync(c, "raised_transport", TRUE)
  /\ UNCHANGED resultCodes

\* Mutant: the timeout passed in the wrong unit; the wait may expire at once.
TimedOutEarly(c) ==
  /\ pc[c] = "waiting"
  /\ fut[waitTask[c]] = "pending"
  /\ ReturnAsync(c, "raised_timeout", TRUE)
  /\ UNCHANGED resultCodes

\* Mutant: fut.result() called without a timeout; the wait never expires.
TimedOutNever(c) == FALSE

\* The wait expires; the poll stays queued or running.
TimedOut(c) ==
  /\ pc[c] = "waiting"
  /\ waitLeft[c] = 0
  /\ fut[waitTask[c]] = "pending"
  /\ ReturnAsync(c, "raised_timeout", TRUE)
  /\ UNCHANGED resultCodes

-----------------------------------------------------------------------------
\* The appliance settles sub-result i of task t with a terminal code.
TaskProgress(t, i, code) ==
  /\ t < nextTask
  /\ t \notin lost
  /\ tasks[t][i] = Pending
  /\ tasks' = [tasks EXCEPT ![t][i] = code]
  /\ UNCHANGED <<callerVars, workerVars, nextTask, sent, lost, metricVars>>

(***************************************************************************)
(* Fault model: the appliance restarts and forgets the tasks it has        *)
(* created; GETs of them are answered with an error status from then on.   *)
(* At most one restart (bound); it is an environment step, never fair.     *)
(***************************************************************************)
ApplianceRestart ==
  /\ ApplianceMayRestart
  /\ lost = {} /\ nextTask > 1
  /\ lost' = 1 .. (nextTask - 1)
  /\ UNCHANGED <<callerVars, workerVars, tasks, nextTask, sent, metricVars>>

\* Time passes while nobody runs: callers wait, the worker sleeps or has
\* nothing to do.  A caller whose wait is due returns before time goes on;
\* one whose future completed may be scheduled late.
Waiting == {c \in Callers : pc[c] = "waiting"}

Tick ==
  /\ (\E c \in Waiting : waitLeft[c] > 0) \/ workerPc = "sleep"
  /\ \A c \in Waiting : waitLeft[c] > 0 \/ ~ENABLED TimedOut(c)  \* a due timeout fires first
  /\ workerPc = "sleep" => sleepLeft > 0
  /\ workerPc = "idle" => queue = << >>
  /\ workerPc # "get"
  /\ waitLeft' = [c \in Callers |->
                   IF c \in Waiting /\ waitLeft[c] > 0 THEN waitLeft[c] - TickSeconds
                                                      ELSE waitLeft[c]]
  /\ sleepLeft' = IF workerPc = "sleep" THEN sleepLeft - TickSeconds ELSE sleepLeft
  /\ UNCHANGED <<pc, opsDone, api, waitTask, outcome, resultCodes, queue,
                 workerPc, running, fut, futCodes, polled, applianceVars,
                 metricVars>>

\* Every caller made its calls and the executor is drained.
Terminated ==
  /\ \A c \in Callers : pc[c] = "idle" /\ opsDone[c] = MaxOps
  /\ workerPc = "idle" /\ queue = << >>
  /\ UNCHANGED vars

CallerStep(c) ==
  \/ \E ts \in TenantLists :
       \/ "post" \in Ops /\ post(c, ts)
       \/ "patch" \in Ops /\ patch(c, ts)
       \/ "delete" \in Ops /\ delete(c, ts)
  \/ "info" \in Ops /\ info(c)
  \/ ResultReturned(c) \/ ResultRaised(c) \/ TimedOut(c)

WorkerStep == WorkerStart \/ PollFinished \/ PollPending \/ PollNotOk \/ PollRaised \/ WorkerWake

ApplianceStep ==
  \/ \E t \in TaskIds, i \in 1 .. NResults, code \in TerminalCodes :
       TaskProgress(t, i, code)
  \/ ApplianceRestart

Next ==
  \/ \E c \in Callers : CallerStep(c)
  \/ WorkerStep
  \/ ApplianceStep
  \/ Tick
  \/ Terminated

(***************************************************************************)
(* Fairness the code justifies: threads that can run do run (the worker,   *)
(* and callers returning from fut.result()), and time passes.  Callers are *)
(* not obliged to make calls, and the appliance to finish tasks.           *)
(***************************************************************************)
Fairness ==
  /\ WF_vars(WorkerStep)
  /\ WF_vars(Tick)
  /\ \A c \in Callers : WF_vars(ResultReturned(c) \/ ResultRaised(c) \/ TimedOut(c))

Spec == Init /\ [][Next]_vars /\ Fairness

(***************************************************************************)
(* Environment assumption for PollsEnd: the appliance settles every        *)
(* sub-result and, once a task is finished, some GET of it succeeds.       *)
(***************************************************************************)
FairApplianceSpec ==
  /\ Spec
  /\ \A t \in TaskIds, i \in 1 .. NResults :
       WF_vars(\E code \in TerminalCodes : TaskProgress(t, i, code))
  /\ SF_vars(PollFinished)

-----------------------------------------------------------------------------
TypeOK ==
  /\ pc \in [Callers -> {"idle", "waiting"}]
  /\ opsDone \in [Callers -> 0 .. MaxOps]
  /\ api \in [Callers -> Methods]
  /\ waitLeft \in [Callers -> 0 .. ASYNC_TIMEOUT]
  /\ waitTask \in [Callers -> TaskIds \cup {NoTask}]
  /\ queue \in Seq(TaskIds)
  /\ workerPc \in {"idle", "get", "sleep"}
  /\ running \in TaskIds \cup {NoTask}
  /\ sleepLeft \in 0 .. AS3_TASK_POLL_INTERVAL
  /\ fut \in [TaskIds -> {"none", "pending", "done", "raised"}]
  /\ futCodes \in [TaskIds -> [1 .. NResults -> Codes]]
  /\ tasks \in [TaskIds -> [1 .. NResults -> Codes]]
  /\ nextTask \in 1 .. Cardinality(TaskIds) + 1
  /\ lost \subseteq TaskIds
  /\ polled \subseteq TaskIds
  /\ sent \subseteq [verb : Verbs, tenants : TenantLists \cup {<< >>},
                     action : Actions, host : {"device", "container"},
                     creds : CredKinds \cup {"unstamped"}]
  /\ outcome \in [Callers -> Outcomes]
  /\ resultCodes \in [Callers -> [1 .. NResults -> Codes]]
  /\ durCount \in [Kinds -> Nat]
  /\ excCount \in [Kinds -> Nat]
  /\ raisedCalls \in [Methods -> Nat]

(***************************************************************************)
(* The delete guard: no request the appliance receives, from any caller in *)
(* any interleaving, addresses the whole declaration for removal -- a      *)
(* DELETE with no tenant in its URL, or a POST of action "remove" with no  *)
(* tenant (delete lines 130-131; container delete lines 181-185).          *)
(***************************************************************************)
WipesAll(req) ==
  /\ req.tenants = << >>
  /\ req.verb = "DELETE" \/ (req.verb = "POST" /\ req.action = "remove")

NoWipeAll == \A req \in sent : ~WipesAll(req)

(***************************************************************************)
(* A post that returns a task (line 119) returns one whose every           *)
(* sub-result was settled when the worker fetched it, though the appliance *)
(* settles sub-results one by one and the worker may have fetched the task *)
(* half-done before (wait_for_task_finished, line 103).                    *)
(***************************************************************************)
ResultIsFinal ==
  \A c \in Callers :
    outcome[c] = "task" => \A i \in 1 .. NResults : resultCodes[c][i] \in TerminalCodes

(***************************************************************************)
(* Every async post eventually returns to its caller, with the task, the   *)
(* poll's exception or a timeout, even if the appliance never finishes the *)
(* task or restarts and forgets it, leaving the worker polling it for good *)
(* (fut.result(timeout=ASYNC_TIMEOUT), line 119).                          *)
(***************************************************************************)
PostReturns == \A c \in Callers : pc[c] = "waiting" ~> pc[c] = "idle"

(***************************************************************************)
(* Every poll submitted to the executor, including those whose caller has  *)
(* timed out, eventually ends -- provided the appliance settles its tasks. *)
(* Any non-zero code, success or failure, ends the loop (line 103).       *)
(***************************************************************************)
PollsEnd == \A t \in TaskIds : fut[t] = "pending" ~> fut[t] \in {"done", "raised"}

(***************************************************************************)
(* Spec 4.2 and 8: delete([]) raises DeleteAllTenantsError and sends       *)
(* nothing.  The code raises AttributeError instead (line 131).            *)
(***************************************************************************)
DeleteEmptyRaisesGuardError == \A c \in Callers : outcome[c] # "raised_attribute"

(***************************************************************************)
(* Spec 4.2: in async mode a failed submission is surfaced to the caller   *)
(* without polling.  The code returns None when r.ok is false (line 116).  *)
(***************************************************************************)
AsyncFailureSurfaced == \A c \in Callers : outcome[c] # "none_returned"

(***************************************************************************)
(* Spec 4.2/4.3: an async post blocks until its poll sees the task         *)
(* terminal or ASYNC_TIMEOUT passes, so a post that times out had its task *)
(* polled.  With one worker (line 60), a poll whose caller timed out keeps *)
(* the worker, and the next post's poll waits in the queue for its whole   *)
(* timeout.                                                                *)
(***************************************************************************)
TimeoutOnlyAfterPolling ==
  \A c \in Callers :
    outcome[c] = "raised_timeout" => waitTask[c] \in polled

(***************************************************************************)
(* The client implements the Delivery contract of AS3Delivery: a call      *)
(* that waits returns its own task only with every sub-result settled and  *)
(* equal to what the appliance now holds, times out only after             *)
(* ASYNC_TIMEOUT, and a task the appliance created for a call nobody waits *)
(* on comes only from a post whose answer was lost (line 115).  Worker,    *)
(* queue, clock, requests and metrics are hidden.                          *)
(***************************************************************************)
Delivery == INSTANCE AS3Delivery
              WITH MaxTasks <- Cardinality(TaskIds),
                   busy <- [c \in Callers |-> pc[c] = "waiting"],
                   calls <- opsDone,
                   task <- waitTask,
                   expired <- [c \in Callers |-> pc[c] = "waiting" /\ waitLeft[c] = 0]

DeliveryContract == Delivery!ASpec
=============================================================================
