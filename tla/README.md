# SunClaw in TLA+

TLA+ models of the concurrent parts of SunClaw (the Go program of this repository), the TLC
configurations that check them on small instances, and TLAPS proofs of what matters most for
every size. Paths below are relative to `src/internal/core/` unless they start with `src/`.

SunClaw receives messages from chat services (*channels*), hands them over a *bus* to *agents*
that call a language model in a loop, executes the *tools* the model asks for (some of them in a
*sandbox* of Docker containers), spawns *subagents*, runs *cron* jobs that publish messages of
their own, and delegates long sessions to external agent processes (*ACP*). A session's history is a file that
several workers read, append to and compact.

    channels ──PublishInbound──▶ MessageBus ──ConsumeInbound──▶ AgentManager workers
       ▲                             │                               │ runLoop
       └──── subscriptions ◀──fan-out┘◀──────PublishOutbound─────────┤
                                                                     ├─ tools ── sandbox pool ── Docker
    cron service ──executor──PublishInbound──▶ bus                   ├─ subagents ── registry ── follow-up queue
                                                                     └─ acp.Manager ── ActorQueue ── runtime

## 1. Inventory

| Component | State | Operations | Hard behaviour | Correct when | Status |
|---|---|---|---|---|---|
| ACP actor queue (`acp/manager.go:125-198`) | a channel and a pending count per session | `Run` | the channel is deleted and created anew while callers come and go; the token is returned before the count goes down | one operation of a session at a time; no entry left behind; everybody gets a turn | `ActorQueue`, `SessionLock`, proved |
| Message bus (`bus/queue.go`) | two bounded channels, subscriptions, `closed`, an `RWMutex` | publish, consume, subscribe, `Close`, the fan-out goroutine | callers block in a `select` with the read lock held; `Close` waits for them; full subscriber buffers | nobody sends on a closed channel; order kept, nothing twice; a subscriber loses only what its own buffer has no room for; `Close` and the fan-out end | `MessageBus`, proved |
| Cron service (`cron/service.go`, `types.go`) | jobs and their states, timer goroutine, mutex | add, remove, enable, disable, `RunJob`, `Start`, `Stop`, executions, persistence, restart | timer and `RunJob` meet; job pointers kept over unlocks; persisting outside the lock; kill and restart | no overlap; a one-shot job once; delays after errors; a due job runs; `Stop` returns | `CronService`, proved |
| Cron store (`cron/store.go`) | `jobs.json`, `.tmp`, `.bak` | `SaveJobs`, `LoadJobs` | a failed rename, a kill between two renames | the file always parses; a failed save keeps the old list; nothing acknowledged is lost | `CronStore`, proved |
| Subagents (`agent/orchestrator.go`, `manager.go`, `subagent_registry.go`) | runs and their counters, registry, follow-up queues | the loop of a run, spawn, completion, announcement, sweep | results arrive while the run polls, calls the model or has ended; spawn tool times out though the subagent starts; several runs of one session | the pending count is exact; no result is lost; a run waits for something that comes; runs end | `Subagents`, `ResultDelivery`, proved |
| Sandbox (`sandbox/pool.go`, `docker.go`) | the pool's entries and idle list, containers, the stream of a command | `Acquire`, `Release`, `Warmup`, background check, `Close`, `Execute` | containers are created, checked and destroyed with the mutex released | one container, one execution; no container left behind; `Close` removes all; `Execute` returns | `Sandbox`, proved |
| ACP manager (`acp/manager.go`, `cache.go`) | session handles, active turns, init slots | initialize, status, mode, turn, cancel, close, evict | eviction decides before it queues up; slots and cache change at different times; a close awaits a cancellation somebody else asked for | the limit on sessions holds; one turn per session; no agent process left behind; a close cancels first | `AcpManager`, proved |
| ACP threads (`agent/acp_thread_control.go`, `manager.go:1821-1916`) | per bound thread: the current message, the one queued, flags | begin, queue, interrupt, cancel, finish | the thread is looked at under one lock and changed under another; cancellations are late; two workers | a busy thread has somebody at work; every message comes to something, also after a turn that hangs; the latest is served | `AcpThreads`, proved |
| Sessions (`session/manager.go`, `agent/manager.go:1404-1680`, `context_compression.go`) | sessions in memory, a `.jsonl` file and its `.tmp` each | open, history for the model, append, save, compact, `/new`, load after a restart | several workers on one session; two saves share one temporary file; a kill between any two steps; a compaction reads, asks the model and replaces | a turn that returned is kept once, in memory and on disk; no tool result without its call | `Sessions`, proved |
| WeWork connection (`channels/wework/ws.go`) | the connection, pending acknowledgements by request id, reply contexts by message and by chat | connect, subscribe, read, send in parts, acknowledge, time out, `Stop` | the parts of a reply share a request id; acknowledgements come late or never; reconnections; `Stop` during a dial | a command ends well only by its own acknowledgement; nothing is left waiting; a context answers one message; no connection outlives the loop | `WeWork`, proved |
| Agent events (`agent/orchestrator.go:1013-1071`) | an event channel | emit, stop, dispatch | the channel is closed beside its senders | no send on a closed channel | not modelled, see *Not modelled* |
| Everything else | | | | | not modelled, see *Not modelled* |

`PROJECT.json` lists every component with its files, the hazards of the code at their lines with
the properties that cover them, and the map from definitions to source lines.

## 2. Modules

| Module | Models | Composition |
|---|---|---|
| `SessionLock` | abstract: each session is a lock that one of the waiting goroutines gets | |
| `ActorQueue` | `ActorQueue.Run` with its channels, token and counts | implements `SessionLock` |
| `MessageBus` | every operation of `MessageBus` | |
| `MessageBusProofs` | theorems | extends `MessageBus` |
| `CronService`, `MCCronService` | the service; the error delays for TLC | |
| `CronStore` | `SaveJobs` file operation by file operation | takes the step `SaveJobs` of `CronService` apart |
| `CronProofs` | theorems | extends `CronService` and `CronStore` |
| `ResultDelivery` | abstract: each result gets to the session that is owed it, once | |
| `Subagents` | runs, registry, follow-up queues | implements `ResultDelivery` |
| `SubagentsProofs` | theorems | extends `Subagents` |
| `Sandbox` | container pool, background check, execution of a command | |
| `SandboxProofs` | theorems | extends `Sandbox` |
| `AcpManager` | sessions with agent processes, their turns | each operation inside `SessionLock`, which `ActorQueue` implements |
| `AcpManagerProofs` | theorems | extends `AcpManager` |
| `AcpThreads` | a chat thread bound to a session | composed with `AcpManager`, whose actions its calls are |
| `AcpProofs` | theorems | extends `AcpThreads` and `ActorQueue`, lifts theorems of `AcpManagerProofs` |
| `Sessions` | a conversation session, its file and the turns on it | |
| `SessionsProofs` | theorems | extends `Sessions` |
| `WeWork` | the long connection of the WeWork channel | |
| `WeWorkProofs` | theorems | extends `WeWork` |

Each module has one action per operation, or per part of an operation between two points where
the code gives up a lock, blocks, or touches a file. A critical section is one action. The action
has the name of the function, or of what it does there. Definitions marked `mutant` are plausible
wrong versions of the definition that follows; no specification uses them. They record which
change of the code each property would notice.

### ActorQueue

`queues`, `pendingByKey`, `pendingCount` are the fields; `token[c]` is how much the channel `c`
buffers; `stage` is where a goroutine is in `Run`: *waiting* on `<-(*queue)`, *running* `fn`,
*releasing* between sending the token and the second critical section. `Fresh` says what a new
pointer is: no goroutine and no map entry refers to it. `fn` may take any time and may panic (the
deferred function runs all the same). Names like `QueueInit` and `QueueNext` are its own, so that
one module can extend it and `AcpThreads`.

### MessageBus

A blocked publisher or consumer holds the read side of `b.mu` (`Holding`); `Close` announces
itself as the writer, which keeps later readers out as `sync.RWMutex` does, and proceeds when the
readers are gone. The fan-out goroutine reads (`FanoutReceive`), looks whether anybody is
subscribed (`FanoutCount`) and sends (`FanoutSend`), three steps because the subscriptions' lock
is taken twice. Outbound messages are numbered as accepted. `joinedAt`, `received` and `overflow`
are history. `ConsumeOutbound` subscribes for the length of one call, so each caller owns a
subscription. A message published while nobody is subscribed is dropped, as in the code.

### CronService and CronStore

A job is a one-shot job (`at`) or an "every" job; cron expressions differ from the latter by data
only. `executeJob` is four steps: begin (critical section), end (critical section), collect and
save (`persistJobs` outside the lock). The job pointers a goroutine keeps (`job`, `due`) outlive
`RemoveJob`, and `executeJob` puts the job back into the map; `state` is therefore kept for every
job ever made. The timer takes a tick (`TakeTick`) and then needs the lock to look for due jobs
(`CheckAndRunJobs`). `Stop` holds the mutex while it waits (`stopping`), so every action that
needs the mutex has `~stopping` as a guard. `Crash` is a kill with the restart's `loadJobs`.

`CronStore` takes `SaveJobs` apart: temporary file, removal of the old backup, two renames, the
restoration after a failed one. Any single file operation may fail, and a kill (`Kill`) may come
anywhere. Its `StoreInit`, `StoreNext` and `StoreSpec` have names of their own so that one module
can extend both.

### Subagents

A run is the handling of one message, or a subagent; both execute `runLoop`. `pc` is where the
loop is: at the model call (`llm`), in the tool calls (`tools`), at the check for follow-ups
(`outer`), ended by itself (`finished`) or by a limit, an error or a timeout (`cut`). A subagent
then goes through `MarkCompleted` and the callback (`announcing`) to `over`. `pending` is
`PendingSubagents`. `parent`, `counted` and `taker` record who spawned, what was counted and who
took. The key of a run is its session, that of a subagent its own. `Started`, `OwedTo` and
`DeliveredTo` are what `ResultDelivery` sees of it.

Left out: steering messages (the runs of the manager have no source of them), the text of
messages, context compression, the reflection after errors in a row (it changes the conversation
and not the loop) and the cancellation of everything at shutdown.

### Sandbox

A container exists, and runs or not; a health check of a running container may fail all the same
(the caller's context is over, Docker is slow). IDs are never given out twice, so the branches
for an ID that is already in the pool cannot be reached and are left out. Removing a container is
assumed to succeed (the code only logs a failure). Of the execution of a command the model keeps
the copying goroutine and its one message on `copyDone`, the polling of `ContainerExecInspect`
and the two receives (an inspection that finds the command running and 100 ms that go by change
nothing and are no step). `Warmup` and `Close` of the pool are modelled as the package offers them,
although the program at this commit calls neither.

### AcpManager

`cache` is `RuntimeCache.states`, `idle` says whose `lastTouchedAt` is older than the TTL, `slots`
is `pendingSessionInits`, `active` is `activeTurnBySession`. `open` is what the runtime knows: an
agent process per handle. `pc`, `key`, `cand`, `h` and `tn` are the local state of the goroutines
that call the manager: a goroutine collects the idle candidates (`CollectIdle`), queues up for each
of them (`EvictNext`), takes its handle out of the cache and closes it (`EvictTake`,
`EvictClose`), and then queues up for its own operation (`Enqueue`). The first step inside `Run`
includes the grant of the lock (`Entered`); steps are split where the operation calls the runtime
or takes the manager's mutex. A turn goes from *running* to *ended* (the runtime closed its
channel) to *closed* (so did the tracker) and is then unregistered; `phase`, `on`, `of` and
`cancel` are its record. `FreshHandles` and `FreshTurns` are the handles and pointers nothing
refers to.

The runtime answers as `acp/sdk/adapter.go` does: an unknown handle is an error, and closing takes
effect also when an error is reported. Left out: the events of a turn, modes, options, counters
and latencies, thread bindings.

### AcpThreads

`current`, `suppressed`, `queued` and `cancelling` are the fields of `acpThreadSessionControl`.
A message is looked at (`LookAtThread`: idle or busy), then begun or queued in a second critical
section. Each message may have a goroutine that runs its turn and one that cancels; these are the
`Procs` of an instance of `AcpManager` with the one session of the thread, and `CallTurn`,
`TurnStarts`, `CallCancel` and so on are actions of that instance together with what the thread
makes of them. `fate` is history. Text messages and interrupts are told apart; a resume
command enters as a text message, and an empty text changes nothing and is left out. The events
of a turn are left out but for its end; `Read` says whether somebody reads them, because a turn
with more events than its channels have room for is stuck when nobody does.

### Sessions

One session key. `cached`, `msgs` and `summary` are the `*Session` in the cache of the manager
and the fields of each object; `main` and `tmp` are the names `<key>.jsonl` and its `.tmp`, `meta`
and `body` the two parts of a file by inode, `written` which of them it has. A turn is `Open` (`GetOrCreate`), `GetSummary`, `Run`
(`GetHistorySafe` and the run of the model, which works on a copy, so it is one step), `SetSummary`
if there is a summary, `AddMessage` one by one, and a Save; then `maybeCompactSession` in four
steps. A Save is four steps (`SaveCreate` truncates, `SaveMeta`, `SaveBody`, `SaveRename`), which
hold the read lock of the object (`Unlocked`). `Delete` and `NewSession` are `/new`. `Crash` keeps
the files. A message is known by its turn, its role and its number. The model answers at once, after a
round of two calls (`ToolRound`), or after an answer that was cut off for its length (`CutOff`:
its calls are not run, and a notice asks for the rest). After such a round a limit may end the run
with a last answer, whose calls are not run either (`LastAnswer`), and an interruption may end it
with no answer of its own (`Endings`). An assistant message is a `call` whose tools are run, an
`unrun` one, or a `reply`. The model may refuse the context as too long once, upon which
`Compressed` cuts it. `SafeStart` and `SafeBoundary` are the loops of `GetHistorySafe` and
`findSafeBoundaryFor` as functions of the history.

`said`, `reset`, `overlapped` and `spoiled` are history: what returned turns added since `/new`,
the turns before it, whether two handlings met, and what has happened that may lose messages.
Left out: the recovery from mismatched tool call ids (`agent/manager.go:1594-1660`; `runLoop`
returns no error that it could recognize), the unlocked write of the metadata in a reset, and the
child sessions of subagents, which are sessions of their own with one turn.

### WeWork

`conn`, `up`, `session` and `loop` are the connection in the state, the sockets that are open, the
session that is served and where the loop is; `reader` is the goroutine of each connection,
`stopping` and `stopped` the two halves of `Stop`, which closes the connection before the stop
channel. `pending` maps request ids to commands, `chan` is the channel each command waits on,
`at` and `req` where the command is and its id. A reply part takes the id of its message, any other
command one of its own, which is the command itself. `ResolveAck` (look up and delete under the
lock) and `SendAck` are two steps, as in the code. `byMsgID` and `byChatID` hold the reply
contexts; the order of a queue is the order of request ids. `sender`, `part` and `context` are the
callers of `Send` and `SendStream`. The server acknowledges each frame at most once on the
connection it came by, late or never, well or not.

Pings and the commands of an upload have ids of their own: they enter as their outcome (a ping
ends the session, an upload delays or fails its part). Connections are reused once nothing refers
to them.

## 3. What is checked

`tlc -config <cfg> <module>`; each run ends within three minutes with two workers.

| Run | Instance | Properties |
|---|---|---|
| `actor_queue` | 3 goroutines, 2 sessions, 3 pointers | `NoLeftovers`: an entry lives exactly as long as somebody is inside. `IsSessionLock`: refinement of `SessionLock`, mutual exclusion included. `EventuallyRuns`. |
| `message_bus` | 2 callers, 1 listener, capacities 1, 3 messages | `NeverOnClosedChannel`; `SubscribedGets`: whoever is subscribed gets every message accepted since, in order and once, but those its own full buffer refused; `CloseCompletes`: `Close` returns and the fan-out ends if every context ends. |
| `cron_service` | 1 job, a clock of 4, 2 delays, 1 runner beside the timer, 1 kill | `NoOverlap`: one execution of a job at a time, and the running mark is exact; `OneShotOnce`; `BackoffKept`; `TimerServes`: a due job runs, and `Stop` returns but for one that meets the timer where it needs the lock. |
| `cron_store` | 3 saves, 3 failures, 2 kills | `AlwaysLoads`: if there is a `jobs.json`, it parses; with at most two failures it is the list saved last or the one being saved, and one failed save leaves the old list. `Recoverable`: with at most two failures that list is complete in `jobs.json` or its backup. |
| `subagents` | 2 messages of a session, 2 subagents that may nest, 3 calls, 1 tool failure, 1 worker | `WaitsForSomething`; `IsDelivery`: refinement of `ResultDelivery`, a result gets to its session once; `RunEnds`. |
| `sandbox` | 2 users, 1 warmer, the background check, 2 containers | `Exclusive`; `NoOrphan`; `CloseAndExecutionsEnd`: `Close` removes every container, and an execution gives its container back but for one that receives the only message of `copyDone` in its select. |
| `acp_manager` | 2 goroutines, 2 sessions, 2 handles, 2 turns, a limit of 1 | `WithinLimit`; `OneTurn`; `NoOrphanRuntime`; `CloseCancelsFirst`: no runtime is closed by `CloseSession` under a turn whose cancellation has not succeeded. |
| `acp_threads` | 3 messages or interrupts, 2 workers, 1 handle, 2 turns | `ThreadHasRunner`; `Settles`: every message that was taken in comes to something, but the text that `acp_threads_latest` shows lost; also when a turn nobody reads hangs for ever. |
| `wework` | 2 sends, 1 chat with 2 messages, 1 connection (closed and dialled anew), 2 frames with a message, 3 commands | `AnswersOwn`; `NoWaiterLeft`; `AnsweredOnce`; `ClosedAtEnd`. |
| `sessions` | 2 turns and a `/new` on a session saved before or not, 2 workers, a history of 2, 2 kills | `KeptOnce`: what a returned turn added is in the session or its summary, once, in memory and after a restart, and nothing from before `/new` is; `HistoryPaired`: the history the model gets has each result after its call and each call that was run before all its results; an answer cut off, at a limit or before an interruption included. |

Every module also has its type invariant. Two more runs show violations, see *Findings*.

**Why the bounds suffice.** Each instance has the actors whose meeting is the question: a third
goroutine in `ActorQueue` comes while one leaves and one waits; capacity 1 makes every channel of
the bus full and empty; one cron job is enough because jobs share nothing but the lock (the timer
goes on to the next due job by the same steps); two subagents are needed for
one to be announced while the other is spawned, nested or not; two containers and two users for
one to be destroyed while the other is handed out; two sessions with room for one are needed for
initializations to overlap, and two goroutines for an eviction or a close to meet a turn (the
turns themselves are further actors); with three messages, one runs, one waits and one replaces
it; two sends are needed for one to take a context or an acknowledgement of the other, and three
commands for two parts of one reply under one id beside another command; two turns and two workers
for one to append while the other reads, saves or compacts, and a history of two messages makes
every cut fall inside a round of tool calls (the session that was saved before has one). The counters bounded by guards or constants
are: `MaxOut` accepted messages, `MaxNow`, `MaxErrors` (counting stops there) and `Crashes` of
the cron service, `MaxVersion`, `MaxFaults` and `MaxKills` of the store,
`LastReq` and `MaxParts` of the WeWork connection, `MaxCrashes` of the sessions, `Messages` and `Subs`
(each is used once) and the limits `MaxIterations` and `MaxToolFailures`, which the code has too,
and `Containers` (each is made once). `Sessions` follows a behaviour until
something has spoiled the session (the constraint `Bounded`, of which `Unspoiled` is a part): beyond
that point `KeptOnce` says nothing, see *Limits*. The same constraint allows one odd turn (one that
is cut off, ends at a limit or is interrupted) and, with it, one kill less: what it leaves in the
session stays there for the turn after it, which may be any other. Its symmetry and that of `WeWork` permute names only, and both check safety
only. The clock of `CronService` stops at `MaxNow`; liveness is
stated so that this does not matter (a due job stays due).

**Fairness.** Goroutines that can proceed do. Beyond that:

- `ActorQueue`: strong fairness of `Acquire`, because the Go runtime serves the goroutines blocked
  on a channel first in, first out; `fn` is assumed to return.
- `MessageBus`: a context that can end does (the command cancels its context before it closes the
  bus, `src/internal/app/cli/commands/gateway.go:194-208`), except for the publishers in
  `Background`, who use `context.Background()`. Strong fairness of the fan-out's lock: `sync.Mutex`
  hands itself over to whoever has waited too long. Nobody is obliged to make a call.
- `CronService`: executions end (`DefaultTimeout`), the ticker ticks; operators owe nothing, and
  nothing obliges the two sides of a `Stop` that met the timer to proceed.
- `Subagents`: model calls and tools end (their timeouts), the context of a subagent expires.
  Nothing bounds the wait of a message's run, which is why `RunEnds` is worth checking.
- `AcpThreads`: the runtime answers, every turn that is read ends (`TurnEnds` is the agent's doing;
  the program relies on it), and goroutines proceed. A turn whose reader left may hang. One weak fairness condition covers them all,
  because each of the finitely many goroutines takes a bounded number of steps. No message is
  obliged to arrive and no handle to become idle.
- `Sandbox`: Docker answers; a command ends, so that one of the inspections says so.
- `Sessions`, `WeWork`, `CronStore` and `AcpManager` are checked for safety and state none.

**Deadlock** is checked for `ActorQueue`, `MessageBus` and `AcpManager`. The other systems come to
rest legally (all messages handled, the clock at its bound, the pool closed, all containers used).

### Findings

Two runs show a place where the code does not do what its documentation says.

| Run | Violated | What happens |
|---|---|---|
| `subagents_workers` | `RunEnds` | Two runs of one session share a follow-up queue; one takes the other's result, and the other waits for ever (`agent/manager.go:1553`). With one worker the property holds (`subagents`). |
| `acp_threads_latest` | `LatestIsServed` | The turn ends between the look at the thread and the queueing: the message is acknowledged and dropped (`agent/acp_thread_control.go:100`). One worker is enough for it. |

The models also show the following, which have no run of their own:

- `Stop` of the cron service waits for the timer goroutine with the mutex that goroutine needs
  (`cron/service.go:116`); when it comes while the timer looks for jobs or executes one, both wait
  for ever. `TimerServes` names exactly these states; without them in it, it fails.
- `executeInContainer` may receive twice from a channel that gets one message
  (`sandbox/docker.go:183`, `197`): a command whose output ends between two inspections is never
  returned from. `CloseAndExecutionsEnd` names the state; without it, it fails.
- Of a session (each is a member of `spoiled`, or `overlapped`): after the context of a run was
  compressed, the messages after the *old* history are taken for the new ones, so old messages are
  saved again or the question is lost (`agent/manager.go:1934-1939`, "只保存新产生的消息"); a turn
  that comes between what a compaction reads and the history it puts in place loses what it
  added (`context_compression.go:249-286`); a `/new` beside a turn lets that turn's Save bring the old
  session back; two overlapping Saves write one `.tmp`, so a kill may leave a file that is partly
  written under the final name (`session/manager.go:258-287`); and of two turns that append beside each
  other a third may be told a tool result without its call.
- A publisher with `context.Background()` that is blocked on the full inbound channel holds the
  read lock, and `Close` never gets the write lock (`bus/queue.go:150`). With such callers in the
  constant `Background` of `MessageBus`, `CloseCompletes` fails.
- A process killed during an execution leaves `RunningAt` in the store; after the restart the job
  is "running" for ever and never due (`cron/service.go:469`).
- Killed between the two renames there is no `jobs.json`, which the next start takes for an empty
  list although the backup is complete (`cron/store.go:51`): `AlwaysLoads` is about an existing file.
- A third failed file operation can cost the backup: hence the conditions on `faults` in
  `AlwaysLoads` and `Recoverable`.
- The calls of an answer that is cut off for its length, and of the last answer at a limit, are
  never run, yet the message is kept in the session with its calls (`agent/orchestrator.go:311-318`,
  `194-202`, `227-235`, `helper.go:43-51`): the next history has calls without results. `Paired`
  asks for results of the calls that were run (`call`); asked for those of the others (`unrun`)
  as well, it fails.
- `GetHistorySafe` moves its beginning back over a call without all its results
  (`session/manager.go:127-149`), so such a message may take the one before it into the history.
- A job that is removed while it is due or being executed comes back (`cron/service.go:377`, `435`).
- A record that is archived before its subagent ends leaves the requester waiting
  (`agent/subagent_registry.go:345`, the constant `EarlyArchive`).
- An eviction does not notice that the session was used after it was collected (`acp/manager.go:1065`),
  so it may close a runtime under a turn; `CloseCancelsFirst` is about `CloseSession`.
- Two workers may find a thread idle and begin a turn each; the second one overwrites the entry of
  the first, whose outcome is then not told (`fate` *untold*). `ThreadHasRunner` holds all the same.

## 4. What is proved

`tlapm <module>`; nothing is assumed but the named `ASSUME`s of the modules.

**SubagentsProofs**, for any number of messages, subagents, sessions and workers, nested or not:

- `Invariance`: `Spec => []IInv`. The invariant says of what is in a queue that it is over, not
  taken, and was spawned by a run of that session (`QueuesHoldResults`, so no result is in two
  queues), and of a subagent that it has a parent from its spawn on, is counted only if it started
  and taken only after its announcement (`LifeOfSubagents`). `Accounting` is then inductive: what
  a run takes is disjoint from what it took before, and `CardinalityOfUnion` adds the sizes up.
- `PendingIsExact`, `FinishedRunsTookAsMany`: the count is exact and a run that ends by itself
  took as many results as it spawned, *with any number of workers*. What several workers break is
  not the number but whose results they are, and so liveness.
- `ResultsNotLost`: unless records are archived before runs end, the result of a subagent that is
  over was taken or is in the queue of the session that spawned it.
- `ImplementsResultDelivery`: each step is a step of `ResultDelivery` or a stutter. A result is lost
  only with `EarlyArchive`, gets to no other session than the one that started the subagent, and to
  that one once, *with any number of workers*. Which run of the session takes it is not said, as it
  is not so.
- `WaitingIsNotInVain`: with one worker, a run with something pending has a subagent of its own
  whose result is on its way. It needs `OneAtATime`: one run at a time is handled, so nobody else
  can have taken it.

**AcpManagerProofs**, for any finite sets of sessions and goroutines, any handles and turns, any limit:

- `Invariance`: `Spec => []IInv`. Everything rests on `LockHeld`: the holder of a session's lock is
  the one goroutine whose `pc` is inside `Run` for that session. Then `SlotsCounted` (the slots
  are the goroutines between taking and giving back) carries `WithinLimit`, where a session being
  cached is counted twice for a moment and never not at all; `StartedIsAlone` (no turn is
  registered while one is started and not yet registered) carries `OneTurn`; `HandlesDistinct` and
  `CacheWhileInside` carry `NoOrphanRuntime`, for a handle is neither cached twice nor overwritten;
  and `CancelledBeforeClosing` says of the goroutine that waits to close that it waits for the
  turn the session has.
- `LimitRespected`, `TurnsSerialized`, `RuntimesOwned` and `TypeCorrect` follow;
  `ClosesCancelled` is an action property, from the invariant and the one action that closes.

**MessageBusProofs**, for any numbers of callers and listeners, any capacities and messages:

- `Invariance`: `Spec => []IInv`. The outbound channel holds the messages accepted last without a
  gap and the fan-out goroutine the one before them (`Numbered`), so one number, `Handled`, says
  what is done; what a subscriber received comes before what its channel buffers (`InOrder`), and
  of what was handled since it subscribed it has each message, or had no room for it (`Covered`).
- `ChannelsOpen`, `SubscribersServed` and `TypeCorrect` follow. The first rests on who holds the
  read lock while blocked, the second on `InOrder` and `Covered`.

**CronProofs**, about `CronService` for any jobs, goroutines, times, delays and kills:

- `Invariance`: `Spec => []IInv`. `Marks`: two goroutines never execute one job, for a job is
  looked at and marked in one critical section, and in the first process no other job has a mark.
  `OneShots`: once the timer has executed a one-shot job its time is past, so whatever enables it
  from then on leaves it without a next run. `Delays`: the end of a backoff is counted from the end
  of the last execution, on disk from an end that is not known.
- `NeverExecutedTwiceAtOnce`, `OneShotsRunOnce`, `BackoffIsKept` and `TypeCorrect` follow.

and about `CronStore`, for any number of saves, failed operations and kills:

- `StoreInvariance`: `StoreSpec => []StoreIInv`. Only the temporary file is ever written in part
  (`Complete`); an outdated backup outlives a failed removal, and is put back only when two more
  operations have failed (`BackupCurrent`); `FirstProcess` says the same step by step for one failure.
- `StoreAlwaysLoads`, `NothingSavedIsLost` and `StoreTypeCorrect` follow. What they say about the
  list being current has at most two failures as its condition; the rest holds for any number.

**SandboxProofs**, for any finite sets of executions, warm-ups and containers and any pool size:

- `Invariance`: `Spec => []IInv`. `Exclusive` is not inductive by itself: two goroutines may well
  hold one container, namely when the background goroutine is about to destroy what was acquired
  after it had listed it (`HeldApart`, which says that this is the only case, and never a container
  that was just made). It rests on the idle list having an ID once (`ListedOnce`, with the lemmas
  `AppendList` and `RemoveFromList` about the two ways the list changes), on nothing idle being
  held (`HeldNotIdle`), on a new container being known to its maker only (`NewUnknown`) and on
  what is about to be destroyed being out of the pool (`TakenOut`). `AcquiredKnown` and `Closing`
  then carry `NoOrphan`: a container that exists has an entry, or is in the hands of somebody who
  adds or destroys it.
- `ContainersExclusive`, `NoneLeftBehind` and `TypeCorrect` follow.

**WeWorkProofs**, for any messages sent and received, parts, chats and connections:

- `Invariance`: `Spec => []IInv`. The key is `InOnePlace`: a channel somebody waits on is open and
  is either in the map of pending acknowledgements or with the one reader that took it out, so
  nobody answers or closes it twice. With `FramesOpen` (an unanswered frame is that of the last
  part of its Send, or its Send has returned) and `IdsApart` (a request id of the server is in one
  queue or was taken by one Send) the id of an acknowledgement determines the command, although
  the parts of a reply share it.
- `AnswersReachTheirCommand`, `NobodyLeftWaiting`, `ContextsTakenOnce`, `ConnectionsClosed` and
  `TypeCorrect` follow.

**AcpProofs**, about `AcpThreads` for any messages, workers, handles and turns:

- `TypeCorrect`, and `BusyThreadHasRunner`: a thread with a current message has a goroutine that runs it. It needs
  that a message whose handling is not through is in no entry (`HandledOnce`) and that the message
  queued is another one than the current (`AnotherWaits`).
- `StepsOfTheManager`: each step of `AcpThreads` is a step of the instance of `AcpManager` or
  leaves its variables alone; a thread asks nothing of its session that the manager does not allow.

- `ThreadTurnsSerialized` and `ThreadRuntimesOwned`: what `AcpManagerProofs` proves of every
  behaviour of `AcpManager` holds of the manager under a thread as well. The inductive invariant
  of that module is taken over step by step (`ManagerStep`), so the composition needs no second
  proof; it assumes, as the instance does, that the model values of the two modules differ.
- `RepliesApart`: two messages of a thread never have their turns read at once. A turn that is
  read has not ended for good, so the invariant of the manager (`StartedIsAlone`) keeps another one
  from starting beside it.

and about `ActorQueue`, for any finite set of goroutines and any sets of sessions and pointers:

- `QueueInvariance`: `QueueSpec => []QueueInv`. `MutualExclusion` alone is not inductive: it needs
  that everybody inside `Run(k)` refers to the channel registered for `k` (`SameChannel`), which in
  turn needs that the counts are exact (`CountsExact`), for otherwise the entry would be deleted
  under somebody; and that the token of a registered channel is missing exactly while somebody runs
  (`TokenOrHolder`).
- `SessionsSerialized`, `NothingLeft` and `QueueTypeCorrect`: mutual exclusion, clean maps and the
  types follow from `QueueInv`.
- `ImplementsSessionLock`: each step of `Run` is a step of `SessionLock` or a stutter.

**SessionsProofs**, for any turns, resets, workers, objects, files, kills and lengths of history:

- `Invariance`: `Spec => []IInv`. `KeptOnce` speaks of what returned turns added, so the invariant
  follows each turn through its handling as long as nothing has spoiled the session (`Clean`):
  all handlings work on the object in the cache (`OneObject`); what a turn adds is its run
  (`Runs`: question, rounds and ending), and
  the summary it is about to set is the session's, or it compacts alone and what it keeps and what
  the new summary tells cover the session (`Handled`). A message that is in memory or in a file is
  of a turn that came after the last `/new` and has added it (`Known`): this is why nothing is
  added twice. The file has what the turns that saved have added if it is complete, and is
  complete when nothing is cached (`Disk`), because whatever overlapping Saves have written so far,
  into a temporary file or one renamed already, is what is in memory (`Saves`).
- For `HistoryPaired` the same step by step while handlings do not meet (`Alone`, `OneByOne`):
  memory, the file and what a compaction keeps consist of whole turns. `OnlyCompression` says that
  nothing else can have spoiled such a session.
- The lemmas are about the operators: the search of `GetHistorySafe` ends at a place of a
  whole history that is no tool result, so no result is cut from its call (`SafeStart` is a recursive function over places; the
  least place at which a claim about it fails is shown not to exist), `SafeBoundary` falls right
  before a user's message, what is cut there and appended to is whole again.
- `MessagesKeptOnce`, `HistoriesPaired` and `TypeCorrect` follow.

Every safety property that a passing run checks is a theorem. Only model-checked, because the
prover does not reach it: all liveness under fairness (`EventuallyRuns`, `CloseCompletes`,
`TimerServes`, `RunEnds`, `CloseAndExecutionsEnd`, `Settles`).

## 5. Not modelled

- Streaming bus, fail-over provider with its circuit breaker, pruner, cache and tree of sessions:
  nothing creates them but their tests, so there is no use of them to be faithful to.
- Rotation of API profiles, agent routing, thread bindings, session switches, the registry of
  runtimes: a map in one critical section per operation. What a rotation tries next is an order
  of data.
- Agent events: for display only. Their channel is closed beside its senders
  (`agent/orchestrator.go:1020`), which the hazards list.
- Gateway: its connections are `Listeners` of `MessageBus`; its protocols translate messages.
- The other channel adapters: one loop that receives and one call that sends over HTTP or a
  library each. WeWork is the one with a correlation protocol of its own in this repository.
- LLM clients, tools, skills, memory, prompts, configuration, command line, user interface: I/O,
  text and numerics. They enter the models as outcomes (a call ends well, fails or does not end).

By lines these are most of the repository; the state that several goroutines share and that
outlives a call is mostly in the rest. What could follow, in this order: `CronStore` composed into
`CronService`; the event channel.

## 6. Limits

- Go's memory model is taken as sequentially consistent. Where the code reads shared data without
  its lock (`persistJobs` iterating the map, `ShouldRun` on a job pointer) the models give the
  access an atomic outcome; the end of the process is `Crash`.
- `ShouldRun` is evaluated for all jobs in one step, and the time of a tick is taken to be the time
  of the look for due jobs.
- `KeptOnce` speaks of sessions that nothing has spoiled: none of the steps in *Findings* that may
  lose messages came before. `HistoryPaired` speaks of sessions of which no two handlings overlapped and
  no context was compressed, and of calls that were run, see *Findings*. The ways in which
  compressions, compactions beside turns and kills between overlapping Saves lose messages are
  hazards that the findings describe and no property denies.
- Of the run of a model, a cut-off answer and a last one have calls; without them they are kept
  and paired like a reply. A run has one round (more add no kind of neighbour to what is cut);
  reflections after errors are left out (a notice more, by the user as far as cuts are concerned),
  and so is a failing call at a limit, which leaves the notice alone or with what it had of the
  answer. A context is refused, and compressed by `forceCompression`, once, where the code
  tries up to three times: the second cut is one of what the first one left, and any compression is
  beyond what both properties speak of.
- Creating, writing and renaming the file of a session succeed but for a rename of a file that
  another Save has renamed; an error of a write (a full disk), which
  callers ignore or log, is not modelled.
- In `CronService` saving succeeds (`CronStore` has the failures of the file operations, not what
  the service makes of them: an added job is taken out again, `cron/service.go:164`, an update or a
  removal stays in memory, `205`, `226`), and `CalculateNextRun` does too: the branch that disables
  a job of a malformed schedule (`410-420`) is left out.
- The server of the WeWork connection acknowledges a frame at most once. An acknowledgement is late
  or of another part under the same id, and messages are delivered again; one frame acknowledged
  twice is not modelled, so that `AnswersOwn` says nothing of it.
- Pings and uploads of the WeWork connection are outcomes; the server may answer in any order.
- The hazards in `PROJECT.json` without a property (`acp/manager.go:1065`, `agent/orchestrator.go:1020`,
  `cron/service.go:377` and `462`, `agent/subagent_registry.go:345`, `sandbox/docker.go:197`) say why none is stated.
