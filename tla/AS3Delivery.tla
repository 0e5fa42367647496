----------------------------- MODULE AS3Delivery -----------------------------
(***************************************************************************)
(* What the Delivery Client promises its callers (spec.md sections 4.2,    *)
(* 4.3 and 8), with no executor, worker, sleep or clock in it.  A call     *)
(* either ends at once -- with a response, None, or an error -- or waits   *)
(* for one appliance task it created, and then ends with that task's       *)
(* final result, the poll's transport error, or a timeout once its         *)
(* deadline has passed.  The appliance creates a task for a call nobody    *)
(* waits on only when that call ended in a transport error: the answer was *)
(* lost after the appliance accepted the declaration.                      *)
(*                                                                         *)
(* AS3RestClient implements this specification under the mapping in       *)
(* AS3RestClient's Delivery instance.                                      *)
(***************************************************************************)
EXTENDS Naturals

CONSTANTS Callers, NResults, MaxTasks, MaxOps

VARIABLES
  busy,        \* per caller: blocked waiting for its task
  calls,       \* per caller: calls made
  task,        \* per caller: the task of its last waiting call
  expired,     \* per caller: its wait's deadline has passed
  outcome,     \* per caller: what its last call returned or raised
  resultCodes, \* per caller: codes of the task its last call returned
  tasks,       \* appliance: per task, the codes of its sub-results
  nextTask     \* appliance: id of the next task it creates

avars == <<busy, calls, task, expired, outcome, resultCodes, tasks, nextTask>>

Unsettled == 0
Settled == {200, 422}
Fresh == [i \in 1 .. NResults |-> Unsettled]
Final(codes) == \A i \in 1 .. NResults : codes[i] \in Settled

\* What a call that does not wait may end with.
AtOnce == {"response", "none_returned", "info", "raised_transport",
           "raised_http", "raised_guard", "raised_attribute"}

AInit ==
  /\ busy = [c \in Callers |-> FALSE]
  /\ calls = [c \in Callers |-> 0]
  /\ task = [c \in Callers |-> 0]
  /\ expired = [c \in Callers |-> FALSE]
  /\ outcome = [c \in Callers |-> "none"]
  /\ resultCodes = [c \in Callers |-> Fresh]
  /\ tasks = [t \in 1 .. MaxTasks |-> Fresh]
  /\ nextTask = 1

Start(c) == ~busy[c] /\ calls[c] < MaxOps /\ calls' = [calls EXCEPT ![c] = @ + 1]

\* A call that ends at once; only a transport error may leave a task behind.
CallAtOnce(c) ==
  /\ Start(c)
  /\ \E out \in AtOnce :
       /\ outcome' = [outcome EXCEPT ![c] = out]
       /\ \/ nextTask' = nextTask
          \/ out = "raised_transport" /\ nextTask' = nextTask + 1
  /\ UNCHANGED <<busy, task, expired, resultCodes, tasks>>

\* A call whose declaration became task nextTask; the caller waits for it.
CallAndWait(c) ==
  /\ Start(c)
  /\ busy' = [busy EXCEPT ![c] = TRUE]
  /\ task' = [task EXCEPT ![c] = nextTask]
  /\ nextTask' = nextTask + 1
  /\ UNCHANGED <<expired, outcome, resultCodes, tasks>>

\* The deadlines of some waiting callers pass together.
Expire ==
  \E S \in SUBSET {c \in Callers : busy[c] /\ ~expired[c]} :
    /\ S # {}
    /\ expired' = [c \in Callers |-> expired[c] \/ c \in S]
    /\ UNCHANGED <<busy, calls, task, outcome, resultCodes, tasks, nextTask>>

Finish(c, out) ==
  /\ busy[c]
  /\ busy' = [busy EXCEPT ![c] = FALSE]
  /\ expired' = [expired EXCEPT ![c] = FALSE]
  /\ outcome' = [outcome EXCEPT ![c] = out]
  /\ UNCHANGED <<calls, task, tasks, nextTask>>

\* The wait returns the task, every sub-result settled, as it now stands.
ReturnTask(c) ==
  /\ busy[c]
  /\ Final(tasks[task[c]])
  /\ resultCodes' = [resultCodes EXCEPT ![c] = tasks[task[c]]]
  /\ Finish(c, "task")

RaiseTransport(c) == Finish(c, "raised_transport") /\ UNCHANGED resultCodes

RaiseTimeout(c) == expired[c] /\ Finish(c, "raised_timeout") /\ UNCHANGED resultCodes

\* The appliance settles one sub-result of a task it created.
Settle ==
  \E t \in 1 .. MaxTasks, i \in 1 .. NResults, code \in Settled :
    /\ t < nextTask
    /\ tasks[t][i] = Unsettled
    /\ tasks' = [tasks EXCEPT ![t][i] = code]
    /\ UNCHANGED <<busy, calls, task, expired, outcome, resultCodes, nextTask>>

ANext ==
  \/ \E c \in Callers :
       \/ CallAtOnce(c) \/ CallAndWait(c)
       \/ ReturnTask(c) \/ RaiseTransport(c) \/ RaiseTimeout(c)
  \/ Expire
  \/ Settle

ASpec == AInit /\ [][ANext]_avars
=============================================================================
