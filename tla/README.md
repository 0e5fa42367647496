# TLA+ models of the octavia-f5 AS3 delivery client and TLS builder

These modules model the core of `src/`:
- the REST client that delivers AS3 declarations (`restclient/as3restclient.py`);
- its task poller;
- its external-container variant;
- the TLS object builder (`restclient/as3objects/tls.py`);
- the configuration options the builder reads (`common/config.py`).

Every definition is written from the source. `PROJECT.json` "map" gives the source lines of each definition.

## 1. Inventory

### Components, their state and their operations

| Component | Source | State | Operations |
|---|---|---|---|
| Delivery client `AS3RestClient` | as3restclient.py 36-139 | `task_watcher` (an executor or `None`, fixed at construction). Class-level prometheus metrics, shared process-wide: one duration Summary and one exception Counter each for post, patch and delete. | `post(tenants, payload)` in sync or async mode, `patch`, `delete`, `info`, `debug_enable` |
| Task poller | as3restclient.py 58-60, 96-105, 118-119 | `futurist.ThreadPoolExecutor(max_workers=1)`: a FIFO work queue, one worker thread, one future per submitted poll. | `wait_for_task_finished(task_id)`: loop of GET task, test, `sleep(5)` |
| External container adapter `AS3ExternalContainerRestClient` | as3restclient.py 142-185 | `as3_url`, plus everything it inherits | `get_url`; `post`, which stamps the target host and credentials into the payload; `patch` and `delete`, re-expressed as `self.post` with action `patch`/`remove` |
| TLS builder | tls.py 24-128 | none (pure) | `get_tls_server`, `get_tls_client`, `get_listener_name`, `get_pool_name` |
| Configuration | config.py 30-153 | the oslo `CONF` object, loaded once at start | option registration, `init`, `setup_logging` |
| Exceptions | exceptions.py | none | `DeleteAllTenantsException` and the other exception classes |
| Outside `src/` | bigip_restclient, bigip_auth, as3classes | the HTTP session and the credentials | the environment of the model |

### How the components interact

Several orchestration threads call one client instance.

**Sync mode.** Every call is one HTTP request whose result goes back to the caller.

**Async mode.** `post` sends the declaration with `async=true`. If the response is ok, `post` submits `wait_for_task_finished(id)` to the single-worker executor and blocks in `fut.result(timeout=90)`. The worker GETs the task every 5 s until each sub-result code is non-zero.
- A timeout raises in the caller, but the poll keeps running.
- Polls are served in FIFO order, one at a time.

**Shared state.** Three things are shared across threads:
- the metrics, shared by every instance;
- the executor queue;
- the payload object, which the container adapter mutates in place.

**TLS builder.** The builder reads `CONF.f5_tls_server` and `CONF.f5_tls_client` and returns objects that the surrounding code embeds in declarations.

### What is hard here

- **Timing across threads.** Caller threads, the worker thread and the appliance all interleave. A caller's timeout races the worker's poll. A poll left behind by a timed-out caller still holds the worker. A queued poll uses up its caller's timeout before it runs.
- **Partial failure.**
  - Sub-results of a task settle one at a time.
  - A GET can fail with an error status, which makes the loop retry, or with a broken connection, which ends the poll with an exception.
  - A POST can break after the appliance has received it.
  - An async submission the appliance rejects returns `None`.
- **Appliance restart.** A restarted appliance forgets its tasks. The poll loop at line 103 has no bound, so it then holds the only worker for good, and every later async post times out.
- **Protocol guards.** An empty tenant list in DELETE, or in a POST with action `remove`, would wipe every tenant.
- **Configuration semantics.** The builder separates "absent" from "false" with `is not None` tests, but the options have default values of `False`.

### What makes each component correct

- **Delivery client**
  - No request removes all tenants.
  - `delete([])` raises the guard exception and sends nothing.
  - Failures reach the caller.
  - Each operation's metrics count that operation's exceptions.
- **Task poller**
  - A post returns only a fully settled task, its own task.
  - Every post returns: with the task, an exception or a timeout.
  - A poll ends once the appliance settles the task, whether it succeeded or failed.
  - Timeouts are not spent waiting in the queue.
- **Container adapter**
  - The same guards as the delivery client.
  - Every declaration carries the device credentials.
- **Debug hook**
  - The log never shows URL credentials.
  - Logging never makes the HTTP call fail. This is violated: see `debug_hook_raises`.
- **Delivery contract**
  - A waiting call ends with its own task fully settled, the poll's error, or a timeout after its deadline.
  - A task nobody waits on comes only from a call that raised a transport error.
- **TLS builder**
  - Each version flag reflects exactly that version's membership.
  - Authentication CA and mode follow the three-way mapping.
  - Optional flags carry their own option's value, and are absent when unset.
  - Listener and pool profile names never collide.

The hazards these properties target are listed with their source lines in `PROJECT.json` "hazards".

## 2. Modules

| Module | Models | Composes |
|---|---|---|
| `AS3RestClient` | Callers, the client's four operations, the metrics, the executor queue and worker, the poll loop, the future timeouts, the appliance as environment, and a 5-second clock | n/a |
| `AS3ExternalContainerRestClient` | the adapter's post, patch and delete | `EXTENDS AS3RestClient` and reuses its worker, clock and appliance |
| `AS3TLSObjects` | `get_tls_server`, `get_tls_client`, `get_listener_name`, `get_pool_name`, and the TLS option groups and defaults of config.py | n/a |
| `AS3Delivery` | the abstract contract of the delivery client (spec.md 4.2, 4.3, 8): a call ends at once, or waits for its one task and ends with it, an error or a timeout | `AS3RestClient` implements it (`Delivery == INSTANCE AS3Delivery WITH ...`) |
| `AS3DebugHook` | `debug_enable` and its response hook `log_response` | n/a |
| `MC_*` | model values for callers, tenants, certificate ids, ciphers and CAs | n/a |

### `AS3RestClient`: how state and actions map to the code

**Callers**

| Model | Code |
|---|---|
| `pc`, `waitLeft`, `waitTask` | a caller blocked in `fut.result(timeout=ASYNC_TIMEOUT)` (line 119) |
| `outcome` | what the call returned or raised |
| `opsDone` | the number of calls made, bounded by `MaxOps` |

**Executor**

| Model | Code |
|---|---|
| `queue`, `workerPc`, `running`, `sleepLeft` | the futurist executor with one worker (line 60) |
| `fut`, `futCodes` | the futures and their results |

**Appliance.** `tasks`, `nextTask` and `sent` are the AS3 appliance:
- each task's sub-result codes (0 while pending, 200 or 422 once settled);
- the requests the appliance received.

**Metrics.** `durCount` and `excCount` are the prometheus metrics. `raisedCalls` is a ghost variable that counts the calls that raised, per public method.

**Actions**

| Action | Code |
|---|---|
| `post` | lines 107-119 |
| `PostSync` | lines 111-112 |
| `PostAsyncAccepted`, `PostAsyncRejected`, `PostAsyncConnError` | lines 115-119. A rejected post returns `None`; a connection error raises, and the appliance may or may not have received the request. |
| `patch` | lines 121-125 |
| `delete` | lines 127-134. `DeleteGuard` raises `RaiseNamed("DeleteAllTenenatsException")`: the name is looked up among `exceptions`, the classes exceptions.py defines, and being absent raises `AttributeError`. `DeleteSend` sends the DELETE. |
| `info` | lines 136-139 |
| `WorkerStart`, `PollFinished`, `PollPending`, `PollNotOk`, `PollRaised`, `WorkerWake` | the worker and `wait_for_task_finished` (lines 96-105) |
| `ResultReturned`, `ResultRaised`, `TimedOut` | the three ways `fut.result` returns (line 119) |
| `Meter` | the two decorators around post, patch and delete |

**Environment actions**

| Action | What it models |
|---|---|
| `TaskProgress` | the appliance settles a sub-result |
| `Tick` | time passes, while every thread is blocked on time. A caller whose wait is due returns before time goes on (`~ENABLED TimedOut(c)`). One whose future has completed may be scheduled late. |
| `ApplianceRestart` | fault model, enabled only when the constant `ApplianceMayRestart` is TRUE. The appliance restarts at most once and forgets every task it has created (`lost`). A forgotten task never progresses, and its GET is never ok (`PollNotOk`). No fairness applies: a restart may happen or not. |
| `Terminated` | the bounded run is over |

### `AS3ExternalContainerRestClient`

`ContainerPost` stamps the request with the credentials of `AuthKind` (lines 165-171) and then runs the inherited `PostAs`.

| Operation | Model | Metering |
|---|---|---|
| patch | `ContainerPost` with action `patch` | `post` |
| delete, non-empty tenants | `ContainerPost` with action `remove` | `post` |
| delete, empty tenants (`ContainerDeleteGuard`) | raises `AttributeError` | not metered |

`get_url` (lines 152-162) is modelled by where it sends a path, with paths as their segment sequences: a path under `AS3_PATH` goes to the container, any other to the device. Base `post` calls `self.get_url` (line 110), so every declaration of this client carries `host = "container"`.

### `AS3Delivery` and the refinement

`AS3Delivery` has no queue, worker or clock. Its actions:
- `CallAtOnce`: a call that returns or raises at once. It may leave a task behind only if it raised a transport error.
- `CallAndWait`: the call's declaration becomes a new task, and the caller waits.
- `Expire`: the deadlines of some waiting callers pass.
- `ReturnTask`, `RaiseTransport`, `RaiseTimeout`: the wait ends. A task is returned only with every sub-result settled and equal to what the appliance holds; a timeout only after the deadline.
- `Settle`: the appliance settles a sub-result.

The mapping in `AS3RestClient`:
- `busy` is `pc = "waiting"`;
- `expired` is `pc = "waiting" /\ waitLeft = 0`;
- `calls`, `task`, `outcome`, `resultCodes`, `tasks` and `nextTask` are the same-named concrete state (`opsDone`, `waitTask`).

The queue, worker, futures, sleep, requests and metrics are hidden. Every worker step and every `Tick` that expires nobody is a stutter step of the abstract spec. `DeliveryContract == Delivery!ASpec` is checked as a PROPERTY.

The check runs on `AS3ExternalContainerRestClient`, which inherits the mapping. Its post, and its patch and delete re-expressed as posts, all go through the inherited `PostAs`. So in async mode every operation waits on the worker, while the base client's patch and delete never wait. The base client's post is the same `PostAs` with an unstamped request, and the contract does not look at requests. The container run therefore covers every behaviour the base client shows the contract, and more.

### `AS3DebugHook`

State:
- `hooks`: the copies of `log_response` installed;
- `log`: the records written;
- `responses`: responses received so far, bounded;
- `raised`: whether the hooks made the last HTTP call raise.

`debug_enable` appends one more copy (line 94). `Respond` runs the installed copies on one response, stopping at the first that raises. `log_response` is an operator that returns the records and whether the hook raises:
- the summary line with the URL redacted by `Redact`, which keeps only the host (line 70);
- the request body, pretty-printed or raw (lines 73-79);
- the response body: pretty-printed, its `results`, raw, or an error record for invalid JSON (lines 81-91).

The hook raises `TypeError` in two cases. A response without a Content-Type header raises at line 82. A JSON body that is not an object raises at line 85 (`'results' in` a null, number or boolean) or at line 86 (`parsed['results']` on an array or string that contains `"results"`). Only `ValueError` is caught (line 88). `RespBodies` names the JSON shapes the code tells apart: object with or without `results`, array or string with or without a `results` member, scalar, and not JSON.

### `AS3TLSObjects`

The state is one build request and the object built from it. The request is:
- the configuration: each option unset, `TRUE` or `FALSE`; `default_ciphers` is unset or a cipher;
- the listener or pool;
- the CA, certificate and CRL references.

`Init` ranges over every request in the bounded domains:
- all 32 subsets of the five TLS versions;
- all three client-authentication values;
- every setting of every option.

`BuildServer` and `BuildClient` apply `get_tls_server` and `get_tls_client`. `get_listener_name` and `get_pool_name` concatenate a prefix and an id (`"{}{}".format`), which is string `\o`. The prefixes are constants: their values are in `octavia_f5/common/constants.py`, which is not under `src/`. The MC module gives stand-in strings. No property is stated about the names: whether two of them can collide depends only on the prefix values, which are not in this code. A built object is a function whose domain holds exactly the keyword arguments the code passes. The certificate list, built from `set(...)`, is a set, because its order is Python's set iteration order.

## 3. Runs

| Run | Config | Expect | Checks |
|---|---|---|---|
| async_safety | MC_AS3RestClient_safety.cfg | pass | `TypeOK`, `ResultIsFinal`, `NoWipeAll`. Async mode with the real 90 s timeout, 2 callers under symmetry, every operation. A returned task is fully settled, though the worker may have seen it half-settled before. No DELETE and no POST `remove` ever goes out with an empty tenant list. |
| post_returns | MC_AS3ExternalContainerRestClient_returns.cfg | pass | `PostReturns`, `DeliveryContract`, on the container client in async mode with post, patch and delete, `ApplianceMayRestart = TRUE` and `NResults = 1`. Every waiting caller returns, even when the appliance never settles its task or restarts and forgets it. The worker may then poll the forgotten task for ever (line 103), which is spec section 9's unbounded poll. The client refines `AS3Delivery`: a caller cannot tell its queue, worker and clock apart from the contract. A task nobody waits on comes only from a post that raised a transport error (the orphan of line 115). |
| polls_end | MC_AS3RestClient_polls.cfg | pass | `PollsEnd`, under `FairApplianceSpec`. Every poll ends, leaked ones included, and failure codes (422) end it as well as 200. |
| container_safety | MC_AS3ExternalContainerRestClient_safety.cfg | pass | `NoWipeAll`, `DeclarationsCarryCredentials`. The container adapter in sync mode, 2 callers × 2 calls: every declaration goes to the container with the credentials, and none removes every tenant. The stamping and the guards do not depend on the mode. |
| debug_contained | MC_AS3DebugHook_contained.cfg | pass | `NoCredentialsLogged`. URLs with and without user info and port, every request and response body kind and every Content-Type, through up to two installed hooks. Redaction holds even when a hook raises partway through. |
| tls_build | MC_AS3TLSObjects_build.cfg | pass | `TypeOK`, `VersionFlagsExact`, `PeerAuthentication`, `OptionFlagsFromOwnOption`, against reference definitions taken from the spec. |
| delete_guard_error | MC_AS3RestClient_delete_guard.cfg | violation | `delete([])` raises `AttributeError`, not `DeleteAllTenantsException`. |
| async_failure_none | MC_AS3RestClient_async_none.cfg | violation | A rejected async post returns `None`. |
| queued_timeout | MC_AS3RestClient_queued_timeout.cfg | violation | With the real 90 s and 5 s constants, two concurrent posts are enough: the second times out without its task ever being fetched, because the first poll holds the only worker. |
| container_metrics | MC_AS3ExternalContainerRestClient_metrics.cfg | violation | The container's patch and delete exceptions are not counted as patch and delete exceptions. |
| tls_unset_absent | MC_AS3TLSObjects_unset_absent.cfg | violation | An unset option is emitted as `false`, because config.py's defaults are `False`. |
| debug_hook_raises | MC_AS3DebugHook_raises.cfg | violation | `HookNeverRaises`. A response without a Content-Type header (line 82), or with a JSON body that is not an object (lines 85-86), makes `log_response` raise `TypeError`. So with debug enabled, the HTTP call fails after the appliance answered. |

Each property of a passing run has a mutant in `PROJECT.json`, and the mutant breaks it. The mutants are:
- `any()` in place of `all()`;
- only code 200 counts as terminal;
- a missing delete guard;
- `fut.result()` without a timeout;
- `time.sleep` given milliseconds;
- the stamping skipped;
- copy-paste slips in the version and option blocks;
- a wrong `mode_map` entry;
- the timeout given in the wrong unit, so the wait may end before the deadline;
- the URL logged unredacted.

### Bounds and why they are enough

- **Two callers** is the smallest number that shows two threads sharing the worker, the queue and the metrics.
- **`MaxOps` = 1 per caller in async mode** gives up to 2 tasks, each with 2 sub-results. Two sub-results are the fewest that allow a half-settled task. The sync container run uses 2 calls per caller. `post_returns` uses one sub-result, so that it can add the restart fault and all three async operations within budget. A forgotten task needs no partial settling to show the stall. The run takes under 2 minutes over about 1M states.
- **Tenant lists** are `<<>>` and `<<t1>>`, empty and non-empty, which is all the code distinguishes.
- **Time.**
  - The clock ticks in 5-second steps, the poll interval.
  - `queued_timeout` and `async_safety` use the code's real `ASYNC_TIMEOUT = 90`. `async_safety` declares the callers a symmetry set (`MC_CallerSymmetry`), which is sound because no action depends on a caller's name: 3.1M states in under a minute.
  - The other runs scale it to 15 s, which is still three polls per wait: every order of poll, settle and timeout still occurs. The liveness runs, one of which also checks the refinement, cannot use symmetry, and at 90 s they exceed TLC's budget because of the 19 × 19 timer combinations.
- **Debug hook.** Up to 2 installed hooks and 2 responses. Two hooks show that the copies are all run, and all stopped at the first raise. URLs have user info or not, and a port or not.
- **TLS builder.**
  - All 32 version subsets, all three client-authentication modes, and with or without a CA.
  - Every unset/true/false setting of all 6 server options and of the 4 client options, plus `default_ciphers`.
  - One certificate id, given once or duplicated.
  - Two object ids of equal length, so that both "same id" and "different id" name pairs occur.

### Fairness

`Spec` assumes three things, all justified by the code:
- **Threads that can run do run** (`WF` on the worker and on a waiting caller's return). The executor's worker and blocked callers are ordinary OS threads.
- **Time passes** (`WF` on `Tick`). This is what makes the `fut.result` timeout and `time.sleep` expire.
- **Callers owe nothing.** They are never obliged to make calls.

The appliance owes nothing under `Spec`. In particular `ApplianceRestart` is not fair: a restart may or may not happen. `FairApplianceSpec` adds an assumption about the environment, not the code, for `PollsEnd`: every sub-result is eventually settled, and once a task is finished some GET of it succeeds (`SF` on `PollFinished`).

## 4. Not modelled

- The values of the TLS name prefixes (`octavia_f5/common/constants.py`, not under `src/`).
- Device credentials in logged request bodies. With debug on, a container client logs at line 77 the declaration it stamped with the token or passphrase. Request bodies are abstracted to json/text/none, and spec section 4.2 promises only URL redaction. The hazard is listed in PROJECT.json.
- The stale token at line 168. Token lifetime and refresh belong to `bigip_auth`, outside `src/`, and spec.md section 5 leaves refresh to the credential provider.
- The text of the debug log, beyond what each record shows and the URL authority it prints.
- The `f5_agent` and `networking` options (config.py lines 46-96 and 138-146). No code under `src/` reads them, so nothing they do can be modelled from this code. The same holds for `init` and `setup_logging`, which are process bootstrap. This is why the configuration component stays partly modelled.
- Everything outside `src/`: BigIPRestClient, the credential provider and the AS3 classes. The transport is the environment, and the credential kind is a constant.

## 5. Plan

Done:
- **Sitting 1.** `AS3RestClient`, with the async pipeline first; `AS3ExternalContainerRestClient` on top of it; `AS3TLSObjects`.
- **Sitting 2.**
  - `AS3Delivery` and the refinement from `AS3RestClient`, which also covers the orphan task of line 115.
  - `AS3DebugHook`.
  - exceptions.py's names, which the delete guard's lookup now uses.
  - The container's `get_url`.
  - Caller symmetry, so `async_safety` runs at 90 s.
- **Sitting 3.** An appliance-restart fault model, under which `PostReturns` is checked. Time may not pass a due timeout.
- **Sitting 4.**
  - The container client in async mode is checked against `AS3Delivery` and `PostReturns`.
  - `get_listener_name` and `get_pool_name`.
- **Sitting 5.** Review fixes:
  - the debug hook's response-body `TypeError` paths (lines 85-86);
  - `HookNeverRaises` kept only as a violation;
  - the name-collision property dropped;
  - two TLS hazards removed.

Next sittings:
1. Ordering of concurrent posts to the same tenant: submission order against completion order at the appliance, with a per-tenant "last applied" view.
2. Compose the debug hook with the client: a hook failure after an accepted async POST, and during a poll.
3. Retries by the orchestration layer of a post that raised after delivery, if the caller's contract can be stated from the spec.
