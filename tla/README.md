# WebSupervisor: TLA+ models, checks and proofs

This directory holds TLA+ models of WebSupervisor, a monitoring system built
from small services that call each other over Redis Streams. It says what of the
code is modelled, which questions TLC answers on small instances, and what TLAPS
proves for every instance. Paths are relative to the repository.

## 1. The system

### Components

| component | code | state | operations | model |
|---|---|---|---|---|
| Stream RPC library | `MyTool/stream` | Redis: streams, consumer groups, PEL. Memory: `RESPONSES`, `semaphore`, `reassembledChan`, `ShardManager.assemblers` | `Init`, `Send`, `SendPing`, `Response`, `consumeLoop`, `dispatch`, `handleResponse`, `ShardManager.Add`, `AckAndDelete` | `StreamRPC`, `RPCCall` |
| Task manager | `web_supervisor-manager/app` | `state.Tasks`, `state.Runs`, `running`; SQLite tables `tasks`, `runs` | task API, scheduler, `runTask`, `saveLocked`, `load` | `TaskManager` |
| Document store | `app.go:990-1107` | `baseline.json`, `current.json`, `current.md`, `snapshots/` of a directory | `persistDocument`, `pruneSnapshots`, `compareValues` | `DocumentStore`, `DocumentDiff` |
| Workflow engine | `web_supervisor-manager/workflow`, the retry loop of `runTask` | `local`, the objects it reaches, the `Functions` map of a workflow | `Validate`, `Execute`: set, get, if, while, func, execfunc, operators, service calls | `WorkflowEngine`, `WorkflowHeap`, `WorkflowValues` |
| Schedules | `app.go:676-849` | schedule, `Enabled`, `LastRunAt` of a task | `validateTask`, `parseCron`, `cronMatches`, `taskDue`, `scheduler` | `TaskSchedule` |
| Event feed | `app.go:234-294` | channels of the SSE clients, capacity 16 | `publishEvent`, `handleEvents` | not modelled |
| Legacy import | `app.go:344-362` | `state.json` | `importLegacyState` | not modelled |
| HTTP gateway | `http-gateway-service` | none | `handleRPC`: one HTTP request, one `Send` | `Gateway` |
| Redis cache service | `redis_cache-service` | one key space in Redis | compare_and_save, get, set, delete, get_and_set | `CacheService` |
| Legacy monitor | `web_supervisor-manager/actions/Run.go`, `services` | cached page contents, reported errors | ping, crawl, parse, compare, mail, report | `LegacyMonitor` |
| Crawler, parser, e-mail, calculator | their `services` | none | one handler each | the abstract handlers of `StreamRPC` |
| Web UI process manager | `web-ui-service/src` | `processes`, `logs`, crawl history file and `recent` | start, stop, restart, adopt, status, close, crawl, clear | `ProcessManager`; crawl history and logs not modelled |
| Early library | `MyTool/streamtool`, `sync`, `response` | response channels | `Send`, `Get`, cleaning | not modelled |
| Tools, CLI, example client | rest of `MyTool`, `streams-manager`, `microservice-manager` | none | stateless helpers, menus | not modelled |

### How they interact

The web UI starts the other services as processes and talks HTTP to the gateway
and to the task manager. The gateway turns `POST /rpc` into `stream.Send`. The
task manager executes workflows, whose external jobs call the gateway; the legacy
monitor calls `stream.Send` itself. `Send` appends a message to the target's
stream; the consume loop of the target starts a goroutine for it that runs the
handler; the handler answers with `Response`, which appends to the caller's
stream; the caller's own consume loop hands the answer to the channel on which
`Send` waits. Callers and services run the same loop, so a process serves
requests and receives its answers through one loop and one semaphore.

### What is hard

* Interleavings: `Send` leaves on its timer while the answer is being delivered;
  the assembler of a sharded message completes while its timer fires; a run, a
  PUT, a DELETE, a scheduler tick and a manual run meet on one task.
* Failures: a process dies between reading an entry and acknowledging it; XADD
  reports an error after writing; the SQLite transaction fails after memory was
  changed; the manager dies in the middle of a run.
* Limits: one semaphore for requests and replies, channels of capacity 1 and
  100, the history of 500 runs, retries with back-off, loops and recursion in
  workflows.
* References: workflow variables, the configuration and the defaults of functions
  share Go maps; the monitor keeps pointers into a slice it still writes.
* Copies: the scheduler decides on a copy of the tasks, PUT writes one back, the
  consume loop compares a deadline before it waits.

`PROJECT.json` lists these hazards one by one at their lines, with the property
that covers each, or the reason why none does.

### What makes each component correct

* RPC library: one outcome per call; a handler runs at most once per message; no
  answer is lost between stream and caller; slots neither leak nor multiply; every
  call and handler ends; an entry is acknowledged after handling only.
* Task manager: one run per task; every registration is given back; deletion
  cancels; what was answered 201 or deleted with 200 is durable; memory and file
  agree; the status counters add up.
* Document store: files are whole; the first successful run is the baseline;
  every change is reported once; a bad template changes nothing.
* Workflow engine: only validated jobs are executed; a function leaves the objects
  of its caller alone, an attempt the `local` of the task; every run ends.
* Schedules: a minute that matches is not missed; the scheduler repeats no run in its
  minute or interval, as far as its copy and its stamp of the last run are current.
* Process manager: at most one process per service, none that nobody manages, as far
  as its looks at processes succeed.
* Cache, monitor: a mail lists each fragment that changed, once, and no other with
  content; administrators hear of an error once; a failing job does not stop the others.

## 2. Modules

| module | what it is |
|---|---|
| `StreamRPC` | the RPC library: callers, loops, handler goroutines, assemblers, Redis |
| `RPCCall` | what the library promises of one call; `StreamRPC` is shown to implement it |
| `StreamRPC_proofs` | types of `StreamRPC`, and where its messages come from |
| `StreamDelivery_proofs` | its messages, semaphores, acknowledgements and replies, and that it implements `RPCCall` |
| `MCStreamRPC` | values for its constants |
| `TaskManager` | task API, scheduler, runs, file |
| `TaskManager_proofs` | theorems about `TaskManager` |
| `MCTaskManager` | its instance |
| `TaskSchedule` | schedules, the scheduler and `LastRunAt` of one task on a clock |
| `TaskSchedule_proofs` | theorems about cron expressions and `TaskSchedule` |
| `MCTaskSchedule` | a small calendar, valid and invalid schedules |
| `WorkflowValues` | JSON values and the service `operators`; operators only |
| `WorkflowHeap` | objects as Go references: `getPath`, `setPath`, `cloneMap`; operators only |
| `Gateway` | one external job through `GatewayCaller.Call` and `handleRPC`; operators only |
| `WorkflowEngine` | one run of a workflow: attempts, the stack of blocks, every kind of job |
| `WorkflowEngine_proofs` | theorems about the heap operators and `WorkflowEngine` |
| `MCWorkflowEngine` | the workflows, values and replies of its instance |
| `CacheService` | the five handlers of the cache over Redis, concurrently |
| `LegacyMonitor` | the monitor's loop and its error reports, on top of `CacheService` |
| `LegacyMonitor_proofs` | theorems about `LegacyMonitor` with its `CacheService` |
| `MCLegacyMonitor` | its keys |
| `DocumentDiff` | how two versions of a document are compared; operators only |
| `DocumentStore` | the files of one document directory, operation by operation |
| `DocumentStore_proofs` | theorems about `DocumentDiff` and `DocumentStore` |
| `MCDocumentStore` | two documents for it, symmetry of the tasks |
| `ProcessManager` | the threads of the web UI, their map of handles, the processes |
| `ProcessManager_proofs` | theorems about `ProcessManager` |
| `MCProcessManager` | its configuration |

### StreamRPC and the code

A call of `Send` is a constant `r` of `Req` that stands for its message id; its
messages are the request and the replies to it. `stream[s]` holds the entries of
a stream that the consumer group has not delivered, `pel` the delivered and not
acknowledged ones: `AckAndDelete` removes an entry from `pel` (XDEL of a delivered
entry has no further effect on the group). `call`, `part`, `result` and `chan` are
the local state of a `Send`; `RESPONSES` contains `r` just while
`Registered(r)`. `loop`, `hand`, `sem`, `out` and `asm` are the loop of an
instance, the entry it holds, `len(semaphore)`, `reassembledChan` and the
assemblers; `task` is the goroutine of a message, with a history counter `runs` of how
often one was started for it. `RPCCall` counts executions by it, so that a second start
would be a step that `RPCCall` does not have.

| action | code |
|---|---|
| `Send`, `WritePart`, `WriteFails` | `client.go:48-96`, `sharding.go:121-158`; one XADD per step |
| `TakeReply`, `TimeOut`, `Unregister` | the select of `client.go:98-106` and the deferred delete |
| `Start` | `init.go:33-51`, `ensureConsumerGroup` |
| `PollReassembled`, `PollNothing` | the select at the top of the loop, `consumer.go:26-35` |
| `Read` | `ReadOne` and all that follows without blocking: drop, ping, shard, business |
| `LoopAck`, `Acquire` | the loop's own acknowledgement; the blocking send to the semaphore |
| `RunReply`, `RunReplyFails`, `RunEnd` | a handler that calls `Response` as often as `Replies` allows, returns or panics |
| `Lookup`, `Deliver` | `handleResponse`: the map lookup under the lock, then the send to the channel |
| `TaskAck`, `Release` | `AckAndDelete` and the deferred `<-semaphore` |
| `AsmTake`, `AsmPut`, `AsmTimeout` | the goroutine of an assembler, `sharding.go:84-113` |
| `DeadlinePasses`, `Crash` | time and process death |

Payloads, names and formats are abstracted: an entry says what its message says, and
the conversions `ToMap` and `FromMap` (`message.go:32-148`) are not modelled. The branch
of `handleResponse` for sharded replies (`handels.go:30-57`) and the error branch after `FromMap` are not
modelled because they cannot be reached: the loop stores shards before dispatch
and `FromMap` returns no error. Retries inside go-redis, which could duplicate an
XADD, are left out.

### TaskManager and the code

Every critical section of `s.mu` is one action; between two of them others may
act. A runner `r` is one call of `runTask`; its `pc` names the section it
enters next. A task is reduced to its state, `Enabled`, `LastRunAt` (the runner
that set it) and the three counters.

| action | code |
|---|---|
| `CreateTask`, `DeleteTask`, `SetEnabled` | POST, DELETE, pause and resume |
| `ReadForPut`, `PutTask` | PUT: copy under the read lock, write under the write lock |
| `RunManually`, `SchedulerStarts` | `go s.runTask(...)` from the API and from a tick |
| `Register`, `Unregister` | the entry in `s.running`, `app.go:852-870` |
| `Begin`, `Finish`, `Record` | the three state changes of a run, each with its save |
| `StartAttempt`, `AttemptSucceeds`, `AttemptFails`, `EndBackoff` | the retry loop, `app.go:891-930` |
| `IntervalElapses` | time, as far as `taskDue` sees it |
| `Crash`, `Restart` | the end of the process, by whatever cause, and `load` |

`saveLocked` is one transaction, so a save either replaces the file's content or
leaves it (`Saves`, `SaveFails`). What a workflow computes is not part of this
module: an attempt succeeds or fails. The variables `saved`, `made`, `kept`,
`gone` and `clobbered` are history variables that the properties refer to; no
guard depends on them except `made`, which tells whether a client uses an id
again (`Recreate`). A graceful stop is the same as a crash here: `Serve` returns
without waiting for runs. The import of `state.json` and a client that supplies
a status with POST are not modelled.

### DocumentStore and the code

A writer is a task; several write to one directory when their configurations name
the same one, which nothing prevents. An attempt goes through `persistDocument`
one file operation at a time. `file` holds what is found under a name, `tmp` the
`.tmp` file next to it, `w` the goroutine of each writer: its step, the file it
writes (`at`), the document, what it read as `previous`, and whether its open file
is still the `.tmp` one (`open`): when another writer renames it meanwhile, the
write goes on in the renamed file.

| action | code |
|---|---|
| `Begin`, `Retry`, `GiveUp` | the attempts of `runTask`, `app.go:883-930`; a run may also be cancelled between two |
| `ReadCurrent`, `ReadFails` | directory, `current.json`, `compareValues`, `app.go:991-1012` |
| `Render`, `RenderFails` | the template, `app.go:1014-1027` |
| `OpenTmp`, `FillTmp`, `Rename`, `WriteFails` | `atomicTextWrite` for each of the files in turn |
| `ListSnapshots`, `RemoveSnapshot`, `PruneFails` | `pruneSnapshots` |
| `Succeed`, `Crash` | the end of the attempt, or of the process |

A document is an array of items or `null`, in the detail `compareValues` tells
apart. `null` is its own case: `previous` is then nil and the document counts as
added in every run (`app.go:1075`), which `CompareValues` models. `last`,
`partial` and `shared` are history variables. The order `BaselineJSON`,
`CurrentJSON`, `CurrentMD`, snapshot is the code's; snapshot names are the times of
writing and never repeat. Torn data on a power failure (no fsync) is left out.

### ProcessManager and the code

A request is the list of single starts, stops and adoptions it comes down to
(`todo`); `restart` ends at its first error (`strict`), batches go on. The mutex of
`state.processes` is held for one access at a time, so each access is an action.
`os` is the operating system's table; processes are numbered as they start. The
model follows the Windows branches, for which the UI is built. `Gateway` and `Rest`
are the services in the order in which `config.json` starts them.

| action | code |
|---|---|
| `Receive`, `CloseRequested`, `Exit` | the HTTP thread; the window event, `shutdown_services`, the end of the event loop |
| `NotConfigured`, `CheckStart`, `AskOnline`, `Spawn`, `SpawnFails`, `Insert` | `start_service`, `main.rs:663-744` |
| `CheckOffline`, `AskOffline` | the extra check of `start-offline`, `main.rs:636-649` |
| `TakeHandle`, `KillChild`, `WaitChild`, `WaitFails`, `KillAdopted` | `stop_service` and `terminate_process` |
| `CheckAdopt`, `AskAdopt`, `Find`, `Take` | `adopt_service`, `main.rs:952-1012` |
| `Poll` | `managed_state` as the pages call it |
| `StartExternal`, `BecomesReady`, `ProcessEnds` | the operating system and other users |

`Online` is what `service_online` learns: the gateway must be ready too, except for
services in `Direct`. `Look` is what `process_running` tells: with `LookMayFail` it may
take a living process for an ended one, because its error removes the handle
(`main.rs:693`, `836`) and a `tasklist` that fails counts as no process (`896`).
`terminate_process` gives a child up when `try_wait` fails (`915`), and ignores an error
of `wait` (`WaitFails`). The processes at which such a look failed are in `lost` from then on:
the program has dropped their handle, and only a request to adopt may find them again.

Three history variables mark what the code does not protect: `raced` (two requests that
may both insert a handle for a service overlap, or a request overlaps with the closing),
`refused` (taskkill did not end a process) and `lost`. `Calm` services are neither raced
nor refused, `Owned` processes are not lost. `Tracked` and `ExitStopsAll` speak of the
owned processes of calm services, and dropping any of the exclusions makes them fail;
`OneChild` needs all but `refused`. Two overlapping starts both pass the check of the
map, and the second `insert` drops the handle of the first. Process ids are not used
again; the code would take a new process under the id of an adopted one for it.

### TaskSchedule and the code

The same code as in `TaskManager`, seen from the clock: one task, whose schedule is
given item by item. A tick is a second of the scheduler. `task` is the task in memory,
`saved` what the last successful save wrote. `polled` is the tick that waits in the
ticker's channel or that the scheduler holds; `pending` are the goroutines
`go s.runTask` that have not taken the lock yet, each with the tick it was started for
and whether it is still `fresh`; `since` is when the registered run took the lock.

| action | code |
|---|---|
| `Tick` | the clock and the ticker, which drops a tick while its channel is full |
| `Poll` | the receipt of the tick, the copy under the read lock, `taskDue` and `go s.runTask`, `app.go:821-829`; the tick may be older than the copy |
| `Register`, `Begin`, `Finish` | the lock and `s.running`; the stamp of `LastRunAt`, taken after registering and older than its save; the outcome and the deferred delete |
| `RunManually`, `SetEnabled` | POST run, pause, resume |
| `ReadForPut`, `PutTask` | PUT, with `validateTask` |
| `Crash`, `Restart` | the process; `load` reads the last save that succeeded |

Every save may fail (`Save`, at most `MaxFailed` times), and but for PUT its error is
dropped, so a restart may lose the stamp of a run. `NoEarlyRun` says that a scheduled
goroutine repeats no run. It leaves out the three cases in which the code does repeat
one, all of them named in the property's comment:

* a run or a PUT came between the poll and the lock, so the goroutine is not `fresh`;
* the tick the poll used was older than the run it found in `LastRunAt`: `taskDue` then
  compares with `!=` and sees another minute;
* the stamp of the run is lost: a PUT wrote an older copy back, or the save of the stamp
  failed and the process ended before the next one (`app.go:986`). `begun`, which
  remembers the last run for the property, is then `Never`.

`parseCron` is translated as it computes (`ParseItem`, `ParseCronField`); the
property compares it with `CronMeans`, which says item by item what an expression
means and computes no set. Text is abstracted to what stands before and after the
slash. The calendar is regular: months have one length, time zones and changes of
the clock are left out.

### WorkflowEngine and the code

The Go call stack is `stack`: one frame per `executeJobs` in progress, with the
jobs that are left. A job waits at the head of its block while the block it opened
runs. `heap` maps addresses to objects, because a Go map is a reference and aliasing
is what the properties are about; an address is the allocation and the place in the
document it copied, so `cloneMap` is a map of addresses.

| action | code |
|---|---|
| `BeginAttempt`, `Retry` | the loop of `runTask`, `app.go:883-930`, and the head of `Execute` with `Validate` |
| `Set`, `Get`, `Operators`, `Call` | the services of `executeJob`, `workflow.go:253-291` |
| `If`, `EndIf`, `While`, `TestLoop` | `executeControl` |
| `DefineFunction`, `ExecFunction`, `EndFunction` | `defineFunction`, `executeFunction`, `bindParameters` |
| `BadJob`, `SeeCancel`, `Cancel` | payloads of a wrong type; `ctx.Err` before each job and test; DELETE |
| `EndWorkflow` | the end of `Execute`, and `persistDocument`, which may fail |

A payload is a literal, a token that names a variable, the configuration or the
environment, or an object of such; text with several tokens in it and arrays are
left out. Numbers are integers. A control job whose service name is padded with
spaces is validated as an external one and executed as what it is (`padded`);
`shape` says what is wrong with a job's fields. An object that contains itself makes
the second resolution of arguments recurse without end, which stops the process:
`crashed`. What decoding yields is an assumption: `IsJob` and `IsFunction` give the
fields of a job of each kind, with blocks of `AnyJob`, and `ObjectsAssumption` says that
the task's document, the configuration and the stored functions are decoded one by one,
so that none refers to an object of the task. `serviceIf` and `serviceWhile`
(`workflow.go:563-615`) are never called.

`defineFunction` resolves a definition when it is executed and stores the result in the
`Functions` map of the workflow (`workflow.go:414`). When the task's document has such a
map (`stored`), it is the task's own and not a copy: its entries are kept between the
attempts of a run (`functions` in the model) and are saved with the task (`app.go:957`). `LocalUntouched` therefore speaks of the task's
`local` document only; that a retry starts from the task's functions as they were
configured is not true of the code and is not claimed.

`Gateway` composes the engine with the RPC library by the outcome of `Send` that
`RPCCall` promises: reply, error reply, timeout or Redis error. `BadRequest` stands for
the requests `handleRPC` refuses itself: no stream, no payload, a negative timeout.

### CacheService, LegacyMonitor and the code

A slot of `req` is a handler's goroutine; each Redis command is a step, so handlers
interleave between their GET and their SET and go on when the caller has given up.
`mon` holds the locals of `runs` and `run_one`; `caches`, `i` and `changed` are
`newCaches`, its index and the slice of pointers into it.

| action | code |
|---|---|
| `Ask`, `AskBadly`, `Read`, `Write`, `Delete` | the handlers, `handles.go`, one Redis command each |
| `Take`, `GiveUp` | `stream.Send` of the caller |
| `Ping`, `Wait` | `PingServices`, the pause of `runs` |
| `Crawl`, `Parse`, `Panic` | the two calls, and the recover of `run_one` |
| `Compare`, `Compared`, `CacheSet`, `Stored`, `EndLoop` | the loop over the fragments and the mail, `Run.go:42-76` |
| `Lookup`, `Remember`, `Notify`, `Expire` | `ReportError`, `sendAdminNotice`, the lifetime of a signature |
| `Crash`, `Restart`, `ClientAsks`, `ClientTakes` | the process; another client of the cache |

Page, parser and mail service are choices. The parser answers an empty list of
matches as `null`, hence `Null` among the values. A fragment that was `null` and still is
counts as changed in every round, so each mail lists it: `CompareData` takes a stored
`null` for no stored value. `Mailed` is the list as it is sent, with repetitions.
`MailNamesChanges` says that it has each changed fragment exactly once, with its new
content, and no unchanged one; it claims nothing of a fragment that was and is `null`.
The order in which Go visits the fragments is free.

## 3. What is checked

Run TLC on the module with the configuration of the same row.

| run | module | result | question |
|---|---|---|---|
| `StreamPlain` | `MCStreamRPC` | holds | whole messages: replies, acknowledgement, progress |
| `StreamSharded` | `MCStreamRPC` | holds | shards, two instances on a stream, crash, failing Redis: slots, at most once, refinement of `RPCCall` with its count of executions |
| `StreamRedelivery` | `MCStreamRPC` | violated | is a delivered request handled after a crash? |
| `TaskRuns` | `MCTaskManager` | holds | mutual exclusion, cancellation, durability, counters; does every run give its registration back? |
| `TaskRecreate` | `MCTaskManager` | violated | one execution at a time when an id is used again? |
| `Documents` | `MCDocumentStore` | holds | whole files, baseline, template errors, complete successes, reported changes |
| `Processes` | `MCProcessManager` | holds | lost and doubled processes while looks succeed, closing, progress of requests |
| `Workflow` | `MCWorkflowEngine` | holds | validation, isolation of functions and attempts, bounds, termination |
| `WorkflowIsolation` | `MCWorkflowEngine` | violated | does a function never change an object of its caller? |
| `Schedules` | `MCTaskSchedule` | holds | is a matching minute missed, or a run repeated, with saves that fail and crashes? |
| `Monitor` | `MCLegacyMonitor` | holds | what mails name, how often errors are reported, do jobs end? |
| `MonitorFirstMail` | `MCLegacyMonitor` | violated | does the first mail list all fragments? |

The violated ones state what the README, the guide or a comment says; the
findings in `PROJECT.json` quote the line and say what the code does instead. More
deviations were met while modelling; no run checks them, and the properties
exclude the cases they cause:

* A reassembled message waits in `reassembledChan` until some other entry wakes the
  loop, which polls the channel once and then blocks in XREADGROUP (`consumer.go:25-37`).
* PUT writes back a status and a `LastRunAt` that a run has changed meanwhile
  (`app.go:503-530`): `clobbered` in `TaskManager`, `begun` in `TaskSchedule`.
* The retry of a first run that failed after replacing `current.json` reports an
  update (`app.go:1034`): `partial` in `DocumentStore`.
* While the gateway is down a service that runs outside the UI is started a second
  time (`main.rs:700`).
* A failed look at a process drops the handle of a process that may run on: closing the
  window does not stop it, and a start brings up a second one (`main.rs:693`, `836`,
  `896`, `915`): `lost` in `ProcessManager`.
* A cron task runs twice in its minute when the tick is older than the `LastRunAt` it is
  compared with (`app.go:821-824`), or when the save of the stamp failed and the server
  was restarted (`app.go:986`): `fresh` and `begun` in `TaskSchedule`.
* The functions that a workflow defines stay in a task whose document has functions: the
  next attempt and the next run find them, with the defaults of the attempt that defined them (`workflow.go:414`,
  `app.go:957`).
* A fragment for which the parser finds nothing is listed in every mail (`services.go:8`),
  while `JOBS_GUIDE.md:22` and `web_supervisor-manager/README.md:41` promise only real
  changes from the second round on: the last exception of `MailNamesChanges`.

### Bounds and why they are enough

* `StreamPlain`: two processes with one slot each, a business call that may or
  may not be answered and a ping without deadline. One slot is the tightest case
  for the shared semaphore: the loop of the caller waits whenever its one slot is
  taken. No crash and no Redis error, because those make progress properties
  false for reasons of their own (`StreamRedelivery`).
* `StreamSharded`: one call of two shards with a reply of two shards, two
  instances that share the target stream and so may each get one shard, one
  crash anywhere, and any Redis command may fail. Two shards are enough for every
  order of store, complete and time out; three would add no new case of the
  assembler.
* `TaskRuns`: one task (tasks meet only in the file and in the history), two
  runs, so that a run may be refused, cancelled or orphaned by a deletion, two
  attempts, one PUT, one crash, any save may fail, a history of one run so that the
  cut happens. No symmetry, because of the liveness property.
* `Documents`: two tasks on one directory, so that runs also overlap; two
  attempts; two documents that differ in the compared field; one snapshot kept and
  three written, so that pruning happens; one fault, a failing call or a crash, at
  any point. Tasks are interchangeable. A second fault adds no new kind of left-over
  file, since a fault leaves at most one `.tmp` file and a prefix of the four files.
* `Processes`: one service (services meet only in the answer of the gateway), two
  threads and the closing one, two processes, one of which may be external. A stop
  alone is not requested: `restart` and the closing contain it. Two processes
  suffice for a lost or a doubled one. Every ping, taskkill and look may fail. No
  symmetry, because of the liveness property.
* `Workflow`: every workflow of one of four function definitions and two of fifteen
  jobs (`MCPrograms`), six documents that `Validate` must refuse, and eight with
  stored functions. Two jobs are enough to alias an object and then change it, to
  define a function and call it twice, or to call what calls itself. `MaxLoop`,
  `MaxCallDepth` and `MaxAttempts` are 2: one round, call or attempt within the limit
  after the first, and one beyond it. `Nesting = 3` is how deep the
  programs nest, which `NestingAssumption` checks; `AnyJob` holds their jobs at every depth.
* `WorkflowIsolation`: the same instance.
* `Schedules`: two minutes of two ticks an hour and two hours a day; `MaxTick = 10` runs
  through the first day, the change to the second, and its first minute to the end. Four
  stored and four requested schedules: steps, lists, ranges and values at both ends of a
  field, an interval, and two that are refused. `MaxLag = 1` lets a goroutine, a poll, a stamp and a PUT
  be a tick late, which is the next minute half of the time; `MaxFailed = 1` lets one save
  fail, which is enough to lose a stamp. The code's one minute has 60 ticks: two are
  enough for a poll before and after the run of a minute.
* `Monitor`: two fragments, the smallest number for which the index matters; a value
  and `null`; two error signatures; two slots, so that an abandoned handler meets its
  successor, and one of another client. `MaxTrouble = 1` allows one failing
  command or call, or one crash, or one request of the other client: a second
  failure is excluded by every property anyway, as the code promises nothing then.
* `MonitorFirstMail`: no trouble at all.
* `CHECK_DEADLOCK FALSE` in the runs of `StreamRPC`, `TaskManager`, `DocumentStore` and
  `ProcessManager`: a finite set of calls or runs ends, and the system then rests. The
  other runs check for deadlocks.

### Fairness

`StreamRPC`: goroutines are scheduled by the Go runtime (weak fairness of the
steps of calls, loops, handlers and assemblers); handlers return, since crawler,
e-mail and cache use clients with timeouts; Redis answers; time passes; a service
that is down is started again. Nothing is assumed of crashes, of Redis errors or
of the choice between a reply and a timer that are both ready. `TaskManager`:
steps of runs are scheduled, which includes that an attempt ends (calls to the
gateway have a client timeout, `app.go:179-183`) and a back-off timer fires; a
stopped server is started again. Nothing is assumed of clients or the scheduler.
`ProcessManager`: its threads are scheduled, which includes that pings end (the HTTP
agent has a timeout) and that a process that was terminated goes. That other
processes end, or that a wait fails, is not assumed, hence a request may wait for ever
on a child that taskkill could not end; `RequestsFinish` says so. `WorkflowEngine`: the
run's goroutine is scheduled and calls return; nothing is assumed of cancellation.
`LegacyMonitor`: the monitor and the handlers are scheduled and a call ends by a reply
or a timer; nothing is assumed of crashes, failures, the other client or the expiry of
a signature. `DocumentStore` and `TaskSchedule` have only safety properties.

## 4. What is proved

Checked by TLAPS for all values of the constants that satisfy the assumptions of the
modules (`ConstantsAssumption`, `StoreAssumption`, `ProcessAssumption` and so on): any
number of processes, streams, calls, shards, slots, tasks, runs, writers, threads,
faults and crashes, any workflow, document and schedule. Every safety property that a
passing run checks is a theorem. Each rests on an inductive invariant; the conditions
under which a theorem holds are in its statement.

`StreamRPC_proofs`

* `TypeCorrect`: `Spec => []TypeOK`. Its second invariant, `RefInv`, adds to the types
  where messages come from (`Provenance`: an entry, shard, goroutine or channel content
  of a reply exists only if the handler of its request was started, and one of a request
  only if it was called) and `CallShape` (the outcome of a call agrees with its step).

`StreamDelivery_proofs`

* `HandledAtMostOnce` needs to know where each part of a message is. `DeliveryInv`
  follows a part from the write cursor of its producer (`Cursors`) to one entry of one
  stream (`StreamOnce`) and one assembler (`AsmOnce`), and the whole message from there
  to the one place it has before its goroutine (`WholeOnce`): a complete assembler,
  `reassembledChan` or the loop that waits for a slot.
* `SemaphoreCounts`: the slots taken are the goroutines between `Acquire` and
  `Release`; pings run without one, which is part of `TaskOnce`.
* `AckedAfterHandling` for calls without shards: the loop acknowledges a shard when it
  has stored it, before its message is handled.
* `RepliesReachCallers` when no two instances read one stream: else an instance may
  take the reply to a call of another one. `StreamPlain`, which checks these two, has
  no shards and one instance per stream.
* `Implements`: `Spec => RPC!Spec`, the library implements `RPCCall`. The executions of
  a call are the counter `runs` of its request's goroutine, which every start
  increments: a second start would be a step that `RPCCall` does not allow. It needs all
  of `DeliveryInv`: the loop starts only a message that has no goroutine
  (`LoopSpawnsNew`), so the counter is 0 before and 1 after the one start
  (`StartedOnce`, `RunsCount`). `RefInv` gives the rest: `Execute` happens to a call
  that was made, and `Answer` to one whose handler was started. Every other step leaves the variables of
  `RPCCall` unchanged, and `Crash` maps to `Lose`, where one process may lose many calls.

`TaskManager_proofs`

* `TypeCorrect`. `TypeInv` strengthens `TypeOK` with the bound of the retry
  counter and of the rows in the file.
* `CreatedTasksSurvive`, `DeletedTasksStayDeleted`, `FileIsMemory`, from
  `StoreInv`. `StoreStep` classifies every step once by what it does to memory,
  file and history variables; the invariant is then preserved by class and not
  by action.
* `OneRunAtATime`, `NoStaleEntry`, `DeletionCancels`, under `Recreate = FALSE`.
  They rest on `LockInv`, whose part `Holds` says that a working run whose task
  exists owns the entry of its task. Without the assumption `Holds` fails, and the run
  `TaskRecreate` shows the behaviour.
* `StatusIsConsistent`, under the same condition. `StatusAddsUp` does not survive a
  restart by itself: `StatusInv` adds that the file adds up, without a run, while the
  server is down.

`DocumentStore_proofs`

* `DiffByIdentityIsExact`: what a comparison by identity counts, for documents of
  any length; it needs that the records of a document have distinct identities only
  through `Keys`, as the code's maps do.
* `TypeCorrect`, `WholeFiles`, `BaselineComesFirst`, for any number of tasks,
  attempts, faults and snapshots. Whole files rest on an invariant that relates
  `open` to the `.tmp` file: without a second run, a filled file is whole and the
  open one is the `.tmp`; a snapshot is written by the one writer that drew its
  number. The baseline rests on the order of the steps: a writer beyond the baseline
  has seen one, and nothing removes it. `BaselineIsKept` is an action property.
* `TemplateFailsFirst`, `SuccessLeavesAll`, `ChangeIsReported`, from `AttemptInv`: how
  far an attempt has come and what it has left in the directory (`Attempt`), and that
  the last successful document stays current until an attempt replaces it, which has
  then found it there (`LastInv`). They speak of runs that do not overlap, during which
  the other writers are idle.

`ProcessManager_proofs`

* `ProcessTypes`, `NoProcessIsLost`, `ClosingStopsAll`, `AtMostOneChild`, from
  `ProcessInv`: a handle in the map or in a thread's hands is that of a process of its
  service (`HandlesReal`), a child that runs has its handle in the map, with the thread
  that brings it or with one that waits for its end (`ChildHeld`), a service that is
  being started has none (`Free`), and the closing thread is still to stop every
  service that has one (`Closing`). All speak of processes outside `lost`. `LookTells`
  is why that suffices: a step that drops a handle after a look does so of a process
  that has ended or of one that the same step puts into `lost`.

`TaskSchedule_proofs`

* `CronIsExact`: for every expression that `parseCron` accepts and every calendar,
  the sets it computes hold the time exactly when the items mean it.
* `NoRunIsEarly`: a fresh goroutine was right to be started, and time does not make it
  wrong (`RipeInv`). `ClockInv` relates the history to the state: until the stamp of the
  last run is lost, `LastRunAt` is when that run began, whatever saves failed since. The
  three exclusions of `NoEarlyRun` are part of the statement.
* `NoMinuteMissed`: once a poll of a matching minute found the task idle, a run is
  owed, and the stamp of a run that has registered falls into that minute (`ChanceInv`).

`LegacyMonitor_proofs`

* `OneNoticePerError`: `NoticeInv` relates the notices to the signatures stored and to
  the report in progress.
* `MailNamesTheChanges`: `RoundInv` follows a round while no call failed. It says that
  there is an entry of `newCaches` left for each fragment left (`LoopOK`), that nobody
  else touches the fragments (`ReqOK`), what the cache holds of the settled, the
  current and the other fragments (`StoreOK`), and that the pointers so far are those
  of the changes so far, no fragment twice (`MailOK` with `Once`).

`WorkflowEngine_proofs`

* `EngineInvariant`: `EngineInv` is inductive. Its parts are `TypeInv` with `Linked`
  (each block was opened by the job at the head of the block below, and has its depth,
  plus one if it is a function), `JobsInv` (what is on the stack and in the functions
  is among the jobs that `Validate` looked at) and `HeapInv`.
* `HeapInv` is about sets of addresses. `Sound(h, P)` says that no object outside `P`
  refers into `P`. The objects of the task are such a set, and so are, for each call in
  progress, those that existed when it began and that functions do not share; the blocks
  above cannot reach them. This is kept for one reason: every operator of
  `WorkflowHeap` and every payload, given addresses outside `P`, writes, returns and
  allocates outside `P` (`SetPathExtends`, `LookupRef`, `CloneExtends`,
  `ResolveExtends`, `CopyAllExtends`, `BindRefs`; `RunningEffect` puts them together).
* `StackIsSound`: `DepthCounts` derives the number of calls from the depths.
  `OnlyValidatedJobsRun`: the jobs that `Validate` looks at are closed under nesting,
  as no program nests deeper than `Nesting`; it is about documents without padded
  service names. `CallerIsUntouched`, `LocalIsUntouched`: what is reachable from a root
  lies in its set (`ReachClosed`).

Recursive functions over data (`Unfold`, `Lookup`, `SetPath`, `ResolveAll` and others)
are reasoned about one round at a time: a set that contains 0 and the successor of each
of its members contains every number (`Induction`), and that set is the rounds at which
a fact holds. What such a function computes in full is not proved: that `Clone` copies
faithfully or `Lookup` finds what a path means is left to the runs.

Only model-checked: the liveness properties `CallReturns`, `HandlersFinish`, `PelDrains`,
`RunEnds` (of `TaskManager` and of `WorkflowEngine`), `RequestsFinish` and `JobEnds`,
because TLAPS as installed proves nothing under fairness. The properties that a run
finds violated have no theorem.

## 5. Not modelled

* The crawl history and log buffers of the web UI, its configuration editor and proxy:
  one file and two buffers behind one mutex each, with no protocol between them.
* The event feed: a full channel drops an event, and nothing in the system depends on one.
* `sendNotification` of the manager: one external call after a run whose result is ignored.
* The import of an old `state.json`: runs once. If the process dies between saving the
  imported state and renaming the file (`app.go:361`), it is imported again after all
  tasks have been deleted.
* `handleValidate` and `handleDryRun`: `Validate` and one attempt of `Execute` without a task.
* The early library in `MyTool/streamtool`, which no service uses; tools, terminal
  menus and the stateless crawler, parser, e-mail and calculator services.

## 6. Plan

Every component of section 1 that is to be modelled is, and no safety property waits
for its proof. What is left is to say more about the operators: that `getPath` finds
what `setPath` has stored, that `cloneMap` copies faithfully, and what the cache
promises its clients when they are alone with a key.
