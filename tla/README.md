# moziBot: a TLA+ verification project

moziBot is a chat-bot runtime. Channel adapters (Telegram, Discord, a local
desktop widget) hand inbound messages to a *kernel*, which stores them in an
SQLite table, serves them session by session, and lets the *host* run one agent
turn per message. Around this core live agent jobs, detached subagent tasks,
commands the agent executes, reminders and cron jobs, a heartbeat, an ACP
control plane and its bridge to editors, a browser relay, and services for
memory, models and context.

The project models these, from the durable queue to the inside of a turn. Paths
below are relative to the repository, in the tables of section 1 to `src/`.

## 1. Inventory

### Durable queue: `src/storage/repos/runtime-queue.ts`, `src/storage/migrations.ts`

* **State.** One row per message: `id` (primary key), `dedup_key` (unique),
  `session_key`, `status`, `attempts`, `enqueued_at`, `available_at`.
* **Operations.** `enqueue` (INSERT OR IGNORE), `mergeQueuedInbound`,
  `listRunnable`, `claim`, the `mark...IfRunning` family, interruption by
  session, by ids, and of everything a dead process left running.
* **Hard.** Every statement is guarded by its WHERE clause only; the callers
  race, and a redelivered message meets rows in any status.
* **Correct when** rows stay unique, and a row that ended stays ended.

### Runtime kernel: `src/runtime/core/`

* **State.** `queueConfig.mode`, `stopped`, the pump's `activeSessions` and
  `pumpScheduled`, the continuation registry.
* **Operations.** `enqueueInbound` (five queue modes, `/stop`, collecting,
  steering, preempting, trimming), the pump, `processQueueItem`,
  `handleDetachedTerminal`, the error policy, continuations, `start`, `stop`,
  `updateQueueConfig`.
* **Interacts** with the queue by its statements, with the host by
  `startDetachedRun`, `isSessionActive`, `steerSession`, `interruptSession`, and
  is called back when a run ends.
* **Hard.** Admission, pump, processing and callbacks interleave at every
  `await`; a row may be ended by `/stop` or a newer message at each of them; the
  process may die anywhere and only the table survives.
* **Correct when** a session is served one item at a time and in order, a lane
  is never lost, a row is running only while somebody will settle it, a trimmed
  backlog loses only its oldest rows, and every row ends.

### Detached runs of the host: `src/runtime/host/message-handler.ts`, `services/run-lifecycle-registry.ts`

* **State.** `byRunId`, `runBySession`, `detachedTerminalCallbacks`,
  `activePromptRuns`.
* **Hard.** A task, a superseding run, a timer, an abort and an interrupt race
  to end a run; the terminal callback is a microtask of its own, after the
  `finally` that drops it from its table.
* **Correct when** the index names exactly the live runs, the callback of a run
  executes exactly once, nothing leaks, and every run ends.

### What the host executes

| component | source | state and operations | what is hard | correct when |
|---|---|---|---|---|
| Agent jobs | `runtime/jobs/` | active jobs, snapshots, waiters; create, run, cancel, wait, prune, deliver with retries | an id used twice, a completion racing a cancel, a waiter that gives up | a waiter is told one outcome, once |
| Subagent tasks | `runtime/subagent-registry.ts`, `runtime/host/sessions/subagent-registry.ts` | slots and waiting spawns of a parent; records in memory and in a file; spawn, end, stop, clean, reconcile, restart | two writes around an announcement, refused and failing spawns, orphans of a restart | slots do not leak, no task disappears, an outcome stays |
| Processes | `process/`, `runtime/exec-runtime.ts` | rows of the process table, runs and timers; execute, yield, abort, kill, two timeouts, sweep | a call is answered while its process goes on; rows outlive the host | row, answer and process agree, and runs end |

### Services

| component | source | state and operations | what is hard | correct when |
|---|---|---|---|---|
| Reminders | `runtime/host/reminders/` | rows; create, edit, snooze, cancel, tick over a batch | the batch is a copy that ages while jobs are awaited; a death in the middle | what fires is asked for, once, and is not forgotten |
| Cron | `runtime/host/cron/scheduler.ts` | jobs and timers; add, update, remove, callback, stop | the callback schedules the object it was made for after its handler; a schedule may have no next run | a recurring job that has a next run goes on, no timer is out of reach |
| Heartbeat, system events | `runtime/host/heartbeat.ts`, `infra/` | bounded event queue, wakes; beat in three segments | beats overlap, events come during a triage, the queue evicts, and much may keep a beat from the events | an event is lost only to a triage or to a full queue, and served once nothing keeps the beats away |
| ACP control plane | `acp/control-plane/` | actor queue, runtime cache, active turns, meta | a failing operation must release the next; cancel and eviction go past the queue | one operation at a time, all end |
| ACP bridge | `acp/bridge/` | `pendingPrompts`, session store; prompt, cancel, streams | both tables are keyed by session while streams overlap | every prompt is answered |
| Browser relay | `runtime/browser/extension-relay.ts` | sockets, pending commands, targets | the close event of a socket that was replaced | books belong to the socket there is |
| Turn: models | `message-handler/services/prompt-runner.ts`, `agent-manager/` | override, base model, agent of a session | routing, fallbacks, compactions and superseding turns all set the model | the user's model comes back, turns end |
| Turn: reply | `.../streaming.ts`, `.../reply-dispatcher.ts` | buffer, flights, message | edits in flight when the final text is written | the final text remains |
| Memory index | `memory/embedded/` | rows of files, dirty flags; list, compare, forced sync | files change while they are read | the index catches up |
| Context | `context-management/`, `context-pruning/`, `payload-sanitizer/` | pure functions of a transcript | interrupted turns, limits that cut between call and result | the provider accepts it |

`PROJECT.json` lists every component, also those that are not modelled (section
6), with its status, and every hazard at its line.

## 2. Modules

| module | models |
|---|---|
| `RuntimeQueue` | the table and its statements, one action each |
| `DetachedRuns` | registry, callbacks, active prompts, turns, `interruptSession` |
| `RuntimeKernel` | admission, pump, processing, continuations, crash and restart; extends `RuntimeQueue`, instantiates `DetachedRuns` |
| `SessionLanes` | the abstract queue the kernel implements |
| `SubagentTasks` | slots, records, the file, stop, reconciliation, restart |
| `AgentJobs`, `Futures` | registry, runner, delivery; the promise to those who wait, which they implement |
| `ProcessRuns` | calls, processes, runs, rows, timers, signals |
| `ScheduleTimes`, `Reminders`, `CronTimers` | `computeNextRun`; rows and runner; timers |
| `Heartbeats` | events, wakes, beats |
| `AcpSessions`, `AcpBridge` | the session manager; the bridge to an editor |
| `ExtensionRelay` | the relay to the browser extension |
| `PromptAttempts`, `StreamingReply` | inside a turn: which model, and what the user reads |
| `MemoryIndex`, `Transcripts` | the embedded index; the context of a prompt |
| `MCRuntimeKernel`, `MCExecution`, `MCServices` | instances for TLC |
| `RuntimeQueueProofs`, `SessionLanesProofs` | theorems about the table and about the abstract queue |
| `RuntimeKernelProofs`, `KernelRunsProofs` | theorems about the composition of kernel, queue and runs |
| `ExecutionProofs` | theorems about `ProcessRuns`, `SubagentTasks`, `AgentJobs`, `DetachedRuns`, and about the four in `MCExecution` |
| `ServicesProofs` | theorems about relay, heartbeats, ACP manager, cron, reminders, reply, models |
| `TranscriptsProofs` | what the context of a prompt is, by induction over its messages |
| `ServicePartsProofs` | theorems about bridge, memory index and the types of reminders and turns, and about all services in `MCServices` |

### What an action is

The program is one JavaScript process. Between two `await`s a segment runs alone,
so an action is a *segment*: it makes every state change of the segment, and the
place a call has reached is kept in a variable (`enq` for `enqueueInbound`,
`proc` for `processQueueItem`, `turn` for the task of a run, `opAt` for an ACP
operation, `turnAt` for a turn, and so on). Microtasks are segments like others;
the models let them interleave in any order, which is more than the event loop
does.

Three exceptions. The pump loop has no `await` of its own but takes many rows, so
it is several actions, and while `pumping` holds no other segment begins
(`Quiet`). A `/stop` is one segment up to the wait of `interruptSession`. In
`PromptAttempts` a call of the agent manager, whose awaits only look up
credentials or build an agent, is one step.

### The kernel and what it uses

*RuntimeQueue.* `status`, `attempts`, `stamp` and `due` are the columns; `due` is
`available_at <= now`, and time is the action `BecomeDue`. A row is addressed by
the envelope it was made from; `RowId` and `DedupKey` say which envelopes
collide. `QueueSpec` lets any caller issue any statement at any time.

*DetachedRuns.* `run` is `byRunId`, `current` is `runBySession`, `callback` the
keys of `detachedTerminalCallbacks`, `prompt` is `activePromptRuns`, `micro` the
callback microtasks that are queued. A run id is made from the queue item, and a
retry creates the run of that id again only after the former attempt has run its
`finally`, so runs are items. `waitForAgentIdle` is a fixed delay that looks at
nothing, hence `InterruptEnd` is enabled whatever the agent does.

*RuntimeKernel.* `Receive(m)` is the first segment of `enqueueInbound`, by mode:
`ReceiveStop`, `ReceivePreempting`, `ReceiveInterrupting`, `ReceiveInjected`,
`ReceiveCollected`, `ReceiveQueued`. `Decided(m)` inserts after the helper that
was awaited, `Enqueued(m)` and `Collected(m)` trim the backlog after the session
bookkeeping, `EnqueueFails(m)` is that bookkeeping throwing. The pump is
`PollTick`, `PumpBegin`, `PumpClaim(i)`, `PumpEnd`; `Pages` are the pages
`listRunnable` may return. Processing is `Launch` or `LaunchFails` after the
awaits that follow the claim, `OnTerminal` for the callback of the run,
`JobBegin`, `JobEnd` and `Refuse` for continuations, which run as agent jobs;
`Consume`, `EnqueueContinuation`, `Conclude`, then `Release`. The environment is
`Stop`, `Reconfigure`, `Crash`, `Start`. `MaxAttempts` is one less than the
policy's `maxRetries`: the bound is the code's.

Left out: text, agents, egress, hooks and events; the `sessions.status` column,
on which nothing decides; the path of `processQueueItem` for a handler without
`startDetachedRun` (the host always has one); rows of internal events
(`enqueueEvent` leaves out a NOT NULL column and its insert throws, see finding
7); the bypass commands other than `/stop`, which queue nothing; a change of mode
while a message is between two branches of `enqueueInbound`.

*SessionLanes.* Rows are absent, waiting, served or ended; a session has a
holder; the process is alive or not. The refinement mapping (`Lanes` in
`RuntimeKernel`) reads rows from `status`, the holder from `proc` (not from
`lanes`, so that `LaneDiscipline` is a separate fact) and `alive` from `up`.

### What the host executes

*SubagentTasks.* `activeCount` and `spawnQueue` are the `SubagentRegistry`;
`record` the memory and `saved` the file of the `DetachedRunRegistry`, which a
failing write (`Persist`) leaves apart. The end of a task is its terminal
callback: pending, written, announced, delivered, written. A restart drops what
is in memory and reconciles what the file says.

*AgentJobs* has one action per transition of `AgentJobRunner.run`; several runs
may use one job id. `ImplementsFutures` maps `snapshot` to the outcome of a job
and `told` to the answer of a waiter.

*ProcessRuns* keeps apart the row (`execRow`), the managed run (`managed`), the
process itself (`process`), the reason a run is to end (`forced`, `why`), and
what the call was answered (`call`). `Stubborn` processes ignore SIGTERM.

### Services

*Reminders.* The tick works on copies (`batch`), and every write to a row is the
optimistic UPDATE of the repository. *CronTimers.* The callback keeps the job
object it was made for. `Unplannable` are the objects for which
`calculateNextRun` finds nothing (jobs come unvalidated from the configuration):
`ScheduleJob` leaves them enabled and without a timer. *Heartbeats.* A beat is
three segments: `FileRead` (which reads the events), `Triaged`, `Enqueued`.
`obstacles` is what makes a beat leave the events of the session where they are:
the session is active, the agent is paused or has no heartbeat, its last route is
missing or leads elsewhere, it has no home directory, a directive in HEARTBEAT.md
disables it. They come and go at any time (`Obstruct`, `Unblock`), and
`HandleWake`, `Tick` and `FileRead` each read those the code reads there.
`accepted` is the order in which the queue took events, for the property.
*AcpSessions.* A handle is named by the
operation that opened it, so that the use of a closed handle shows.
*AcpBridge.* `stream` is how far the stream of a prompt is and `answer` what its
request was answered; `overlapped` records the sessions where two streams were
under way at once. *ExtensionRelay.* `replaced` are sockets that left OPEN and
whose place another one took. *PromptAttempts.* `model` is the model state of the
session, `picked` what the user asked for; `Compacted` prompts again after an
overflow, as often as the context overflows. *StreamingReply.* A text is the number
of deltas it shows, so that an older text is a smaller number. *MemoryIndex.* The
content of a file is the number of the edit that wrote it; `Search` is whatever
asks for an unforced sync: a search, or the interval where one is configured.
*Transcripts.* The
history grows by actions of the agent library (external); `Context` is the
composition the host applies: limit, prune, repair, order.

## 3. Checks

A configuration named `Find...` checks one statement of the documentation, a
comment or a test that the code does not keep; TLC's counterexample is the
demonstration (section 5). The others pass.

| run | instance | question | distinct states |
|---|---|---|---|
| `KernelAdmit` | 3 messages, 2 sessions, modes collect and steer, backlog of 1 | lanes, turns, order of service, backlog, injection, pump | 410 K |
| `KernelPreempt` | 3 messages of one session, modes interrupt and steer-backlog | is a lane waiting only for a callback that comes? | 547 K |
| `KernelStop` | a message, a `/stop`, a continuation, one retry, one crash, modes followup and interrupt | ownership of running rows, cancelled continuations, refinement, liveness | 19 K |
| `MCExecution` | runs: 2 of a session, one a `/new`, one timed, an interrupter; tasks: 3 for one slot, one failing write, one restart; jobs: one id used twice, 2 waiters; execs: one of three calls, a restart | do runs, tasks, jobs and processes keep their books and end? | 33 K |
| `MCServices` | see below | does each service keep its books, and get done what it is asked? | 111 K |

`MCExecution` and `MCServices` are sums of independent components: the initial
state picks a `part`, and only that part moves, so that the states add up and do
not multiply. A part that does not move must not owe a step to its fairness. In
their initial states none of the fair actions of the components is enabled (a
heartbeat has no route before the first message), so that `MCSpec` takes the
fairness of the modules as it is.

`MCServices`: two reminders, two edits, a death of the process, batches of two;
four cron job objects of one id, one of them firing once and one without a next
run; two system events for a queue of one, two beats, one retry of a wake and one
obstacle at a time; a turn, an ensure and a close of one ACP session
with one eviction; two connections of the extension, a client, a command and a
target; a turn with media and one without, a default model, a fallback that needs
the other kind of tools, a model for media, a switch by the user, any number of
compactions and a failing call of the agent manager; three deltas and two failing calls of
the channel; two memory files and three edits; every history
of six messages with two calls; three prompts of two editor sessions for a store
of one, with a cancel.

### The properties

Kernel and runs:

* `LiveIndex`: `setTerminal` deletes the entry of the *session* of a run without
  looking whose it is. It is right only because at most one run of a session is
  ever live, which is the other half of the property.
* `EntriesOwned`, `TerminalOnce`, `RunsFinish`: no leak, one callback, an end.
* `LaneDiscipline`: `activeSessions` is exactly the set of sessions of the items
  in hand, and no session has two.
* `TurnsSerialized`: turns of one session never overlap, and a prompt that steer
  mode would inject into has the lane of its session, so that the injected
  text, which is stored nowhere else, is still answered. True as long as no
  message aborts a run: the callback of an aborted run frees the lane while its
  turn still goes on, for `/new` and `/reset` (finding 2), where nobody expects
  it, as for `/stop` and the modes that interrupt.
* `OldestFirst`, `TrimKeepsYoungest`, `PumpExhausts`: order of service, what a
  full backlog gives up, and that a pump run leaves no due row of a free session.
* `CallbackOwed`: an item handed to the host waits for a callback that is queued
  or owed by a live run.
* `RunningIsOwned`: also after a crash and a restart, a row is running only while
  an item of this process is in hand.
* `RunIdFree`: a retried item is launched under the run id of its first attempt;
  nothing of that attempt is left by then, or its `finally` would drop the entry
  and the callback of the second.
* `CancelledHasNone`: a cancelled session has no continuation left.
* `ImplementsLanes`, `RowsEnd`, `LanesFreed`: the kernel implements
  `SessionLanes`; every row ends unless the kernel is stopped; every lane is given
  back.

What the host executes:

* `SlotsHeld`, `SpawnsServed`: the counter of a parent is the number of its tasks
  under way, nobody waits while a slot is free, and who waits is served.
* `NoBlackHole`, `OutcomeKept`: what ended is delivered or pending, in memory and
  in the file, and an outcome is not replaced once the run is over.
* `ImplementsFutures`, `WaitersServed`: those who wait for a job get one outcome,
  the same for all, in the step that decides it; and they do get it.
* `RowsHonest`, `RunsEnd`: when a command was answered "completed" or "error", or its
  row says exited, its process is not alive, and no row goes on saying "running" of
  a command that was answered so; this holds through a restart of the host. While
  the host lives, a row says "running" only of a command that runs, and the reason a
  run ended for is the one it was ended for. What is to end ends, whatever the
  process ignores.

Services:

* `FiredAsAsked`, `DueFires`: what fires is due, has the current message, and is
  later than what was fired before; what is due fires.
* `CronAlive`: a recurring job that has a next run has a timer, or a handler that
  will set one, also when it replaces one that had none; every armed timer is the
  one the table has for its id.
* `EventsAccounted`, `EventsServed`: an event leaves the queue without being read in
  two ways only: it came while a beat was in its triage, or the full queue evicted
  it, after `MaxEvents` younger ones were accepted. No event stays for ever unless
  an obstacle meets the beats again and again (then it does, see section 5).
* `OpsSerialized`, `OpsFinish`: one operation of a session at a time, a turn
  streams from an open runtime unless an eviction closed it; every operation ends.
* `PromptsAnswered`: the editor gets an answer to every prompt, whichever of the
  stream, its failure, a cancel and an eviction comes first. The property
  excludes sessions where a prompt was sent while an earlier stream went on; there
  it is false (observations).
* `RelayConsistent`: one open socket, clients told of the targets there are,
  nothing pending that was sent nowhere.
* `ModelsRestored`, `TurnsEnd`: between turns the session has the model the user
  asked for; a turn ends unless its context overflows for ever after compactions
  that succeed, which is a cycle the code does not bound (observations): routing
  and fallbacks make no other, whatever number of compactions is between them. Both
  exclude turns that one run took from another, where they are false
  (observations).
* `FinalTextWins`: the message the turn reports ends with its text, unless the
  channel failed twice.
* `IndexCatchesUp`: when nobody edits any more the index comes to say what the files
  say, provided that searches (or an interval, off by default) go on and that the
  provider does not fail for ever. Without a search it may stay stale
  (observations).
* `ContextAccepted`: whatever interrupted the session, what the provider is given
  pairs calls and results, alternates as it wants, and keeps what the user said.

`KernelTypeOK` and `ServicesTypeOK` are the type invariants; those of the
components of `MCExecution` are proved (section 4).

### Bounds, and why they suffice

*Kernel.* The races of one session need a message that is served, one that
interferes and, for the order of service, one that waits: three. A second
session is needed where a page or a lane is shared (`KernelAdmit`). Two messages
have the same timestamp so that ties are explored. One retry gives first, last
and refused attempts; one crash gives every point of death, and a second would
only start from the same empty memory. Two modes per instance let `Reconfigure`
switch between handlers that read each other's traces; the five modes occur in
one run or another. The page of `listRunnable` (64) is 2 or 8 rows here, enough
for every due row that may meet a busy session: `PumpExhausts` is a statement
about queues whose busy sessions do not fill a page. Beyond that the rows of idle
sessions do wait.

*Others.* A hazard of these components is a race of two actors over one entry, so
two of a kind, and a third where one has to stay behind or be replaced. Faults
are bounded by one or two: one places a fault anywhere, and the properties whose
hypothesis counts faults (`FinalTextWins`, `SlotsHeld`) see the case beyond it.
Where a loop has no bound in the code it has none in the model: compactions of a
turn, failures of the embedding provider, searches, obstacles of a heartbeat (one
at a time, any number of times).
The reminders' horizon of 3 lets a schedule fall behind and catch up; a queue of
one event overflows at the second; a store of one session evicts at the second.

### Fairness

Weak fairness says: an `await` of the program's own code settles, a timer fires, a
microtask runs. It is never assumed of messages, users, commands, edits, faults,
crashes or reconfiguration.

* `DetachedRuns`: tasks, callbacks and `interruptSession` go on; the end of a task
  is strongly fair because a fallback model may begin another prompt any number
  of times in the model and only finitely often in the code.
* `RuntimeKernel`: the interval of `start()` keeps the pump going; segments are
  strongly fair because the pump disables them while it runs, and the event loop
  returns to them in between. Restart is fair because a service manager starts
  the process again.
* `SubagentTasks`, `AgentJobs`: a prompt has an execution timeout, so a task that
  executes ends.
* `ProcessRuns`: the overall timeout and the SIGKILL after the grace; a process
  need not end by itself.
* `Reminders`, `Heartbeats`: the interval ticks, and a job or a triage returns.
* `AcpSessions`, `AcpBridge`: calls of the backend return, because its process has
  a timeout or is killed by the abort signal.
* `PromptAttempts`: a prompt returns, fails or overflows; that it may overflow for
  ever is the exception `TurnsEnd` states.
* `MemoryIndex`: a sync that is under way goes on. Nobody has to search:
  `intervalMinutes` is 0 by default and then no timer is set
  (`backend-config.ts:60`, `embedded-manager.ts:883`), so that searches going on is
  a hypothesis of `IndexCatchesUp`.

The browser relay, cron, replies and transcripts are checked for safety only.

## 4. Proofs

`PROJECT.json` lists the theorems. They hold for every value of the constants under
the `ASSUME`s of the modules: types of the tables, that a "none" is not one of the
things it stands for, finite sets where something is counted.

*Queue.* `QueueTypeOK /\ UniqueRows` is inductive: the only statement that
makes a row present is `Insert`, whose guard is the absence of a conflict, and
`LEMMA StatusWhere` says that no guarded UPDATE makes or removes one. A statement
inserts at most one row, so the table is finite (`TableIsFinite`) although the set
of envelopes need not be: what counts rows (pages, backlogs) rests on this.

*Detached runs.* `LiveIndex` alone is not inductive: an entry that is live must
also have its callback stored, and a callback must not be queued for a run that is
still live. `RunsInv` is `RunsTypeOK /\ LiveIndex /\ EntriesOwned /\
NoEarlyCallback`, and has one lemma per action. `TerminalOnce` follows from it
step by step (`OnceStep`).

*Kernel and queue.* A first pass over the actions shows that each is one
statement of `RuntimeQueue`, so the results about the table are inherited. A
second pass sorts the steps into five kinds (`StepKinds`): a claim, a release, a
crash, a start, and a `Segment`, which keeps all lanes, starts no row, and moves at
most one item on that stays in hand. `LaneDiscipline` and `RunningIsOwned` need
each other: a claim keeps the first because its lane is free, a release keeps the
second because a settled item is out of hand. The same five kinds are mapped to
the steps of `SessionLanes`; `Holders` says that the `CHOOSE` of the refinement
mapping is determined, which is `LaneDiscipline` again. `OldestFirst` concerns
claims only, and is read off the definition of a page.

*Kernel and runs.* `CallbackOwed` and `RunIdFree` are not inductive. The proof
follows an item through its attempts: a row that waits has no run
(`WaitingIsFresh`), a row in hand does not wait (`InHandRow`), and the one
outcome after which a row may wait again, "failed", is delivered after the
`finally` of its task (`FailedIsGone`). Hence every abort must end the row and
not retry it, which is what `handleDetachedTerminal` does.

In the kernel the runs share prompts with the turns of jobs, and the process may
die. `RegistryConsistent` and `CallbackOncePerRun` prove again, there, what
`ExecutionProofs` proves of the host on its own; `LiveRunsHoldLanes` adds that a
run that may still answer is that of the one item in process for its session.

*Turns one after the other.* `TurnsSerialized` is false when a message aborts a
run: TLC refutes it in the instances of `KernelPreempt` and `KernelStop` too, where
a turn that was aborted before it prompts registers its prompt after its lane was
freed. It is proved for a system where no message does so
(`Uninterrupted`: no `/stop`, no `/new` or `/reset`, and none of the two queue
modes that interrupt), which is also how the run `KernelAdmit` checks it. The
invariant is `SerialInv`: who takes a turn holds its lane, a callback is queued
only after the task is over, a registered prompt is that of a task that prompts,
and nobody waits in `interruptSession`.

*Counting rows.* `PumpStopsForFullPage` says for any table when a pump run ends:
no due row of an idle session is left, or the oldest due rows, as many as a page
has, all wait for sessions in process. The second case is real
(`pump-runner.ts:88`, a hazard), so `PumpLeavesNothing` states `PumpExhausts`
only where there are no more items than a page has. `TrimSparesYoungest` needs no
such hypothesis: the rows to drop are those that are not among the `cap`
youngest, whatever their number.

*Jobs.* `JobsInv` adds to the types that listeners are exactly the open promises
(`WaitersKept`) and that sends are bounded by the retries; each step is then one of
`Futures` or a stutter.

*Commands.* `ExecInv` adds to `RowHonest`, per call, what holds before its process
exists and after its run is settled (`CallBooks`), and what a restart leaves of an
answer (`SaidToEnd`): the part of `RowsHonest` about answers does not suppose that
the host is the one that gave them. *Tasks.* `SlotInv` keeps the
waiting spawns apart and waiting (`Waits`) and counts the holders (`SlotsOf`, which
is why sets of tasks must be finite); `Books` relates a record in memory to the one
in the file: memory never says ended while the file says otherwise.
`ExecutionStaysSafe` carries all of it to the composition that TLC runs.

*Relay.* What is pending was sent on a socket, a client asks nothing before it
connects. *Heartbeats.* The queue holds an event once, and what a beat in its
triage has not read came while it was there. The queue is the end of the sequence
of accepted events (`QueueIsEnd`), so the event a full queue evicts is followed by
as many accepted ones as the queue holds. *ACP.* The chain of promises is a rank
of the operations of a session (a function the invariant quantifies
existentially): who is not the first waits for the one before, so one runs.
*Cron.* Armed timers are those of the table, what has a timer has a next run, and
what a handler will schedule recurs. *Reminders.* A row asks for a time after the last it was fired for, and a
copy is of a time that is over: until the row asks for a later one it has the
message of the copy. `LEMMA Steps` is the arithmetic: the steps of an "every"
schedule go past any elapsed time. *Reply.* Where the turn is bounds what the
buffer can still do; while no call failed the channel shows what was sent last.
*Models.* While nothing failed and no run superseded another, one turn is under
way; the recorded model is the pick, and an override that differs from it is
cleared by the turn or by what it restores.


*Types.* The state of a turn (which models are recorded, and that a prompt has one)
and the rows of the reminders (no time is past the horizon, `RunnerBounds`) have
inductive types that say more than membership. *Bridge.* `EntryBooks`: as long as
no prompt has overtaken a stream of its session, one stream of it is under way
and the entry is that of the request that waits; hence no request is orphaned
(`NoRequestIsOrphaned`). The hypothesis is the bug of section 5 stated the other
way round. *Memory index.* `HashTellsText` is why a file may be skipped by its
hash; beside it `SyncBooks` says what is left to compare, and a sync during which
nothing changed leaves the index equal to the files (`QuietSyncsCatchUp`).

*Context.* `ContextIsAccepted` is about recursive functions of a sequence, for any
length. The library's induction theorems take an operator, which the provers
cannot instantiate; `TranscriptsProofs` makes induction a fact about a *set* of
numbers (`UpTo`, from the well-foundedness of Nat), shows by it that a recursion
whose step is a function defines something (`Recursion`), and from both derives
one rule for each kind of fold: what holds of every prefix holds of the result
(`FlattenBy`, `MergedBy`). The argument then has five parts:

1. `TranscriptsInv`: the histories that can be written have calls with one caller
   each (`OneCaller`) and no reply in a turn that has ended (`RepliesInTurn`). The
   second needs that a turn runs only while it is open, the first that a tool
   executes only if it was called. Without them the property is false: a call id
   used twice loses a result, and two replies in a row would remain.
2. Limiting (`LimitIsWritten`), pruning (`CutIsWritten`) and the repair of inputs
   (`CallInputsAreWritten`) keep such a history one, and what the user said.
   Pruning changes results before the cutoff only (`PruneCuts`).
3. `PairingWorks`: the repaired transcript is a concatenation of pieces, a caller
   with its answers and what was said meanwhile, or one message, or nothing. Each
   piece is paired and alternates, no two replies meet (`OpenReply`), and what the
   user says inside a span is counted when its caller is met (`Ahead`).
4. For Google nothing is left to merge (`GeminiTurnsAreLeft`), and a first reply
   gets a message before it.
5. For Anthropic user messages are merged, which moves all that follows. What is
   owed to a caller is therefore seen from the end (`OwesAlike`): a prefix of the
   merge and the prefix it comes from owe the same results in the same order.
   `OwesMerge` is the crux: no result is owed when a user speaks.

*Composition.* `MCServices` and `MCExecution` pick one part at the start;
`PartsRunAsSpecified` shows that each behaviour is one of every part's
specification, so `ServicesKeepTypes`, `ServicesStaySafe` and `ExecutionStaysSafe`
state of it every safety property that the two runs check.

Every invariant and every action property of the runs is stated by a theorem. Only
model-checked is liveness (`RunsFinish`, `RowsEnd`, `LanesFreed`, `SpawnsServed`,
`WaitersServed`, `RunsEnd`, `DueFires`, `EventsServed`, `OpsFinish`, `TurnsEnd`,
`IndexCatchesUp`, `PromptsAnswered`), which the prover does not reach. Two
theorems have a hypothesis that the code does not guarantee, and say so in their
statement: `TurnsFollowEachOther` (`Uninterrupted`) and `PumpLeavesNothing` (a page
as long as the table can get); what happens without it is finding 2 and
`PumpStopsForFullPage`.

## 5. Findings

1. `FindRowId`: the host uses the channel's message id as the primary key, so a
   message of another chat with the same id is ignored although its dedup key is
   new (`kernel.integration.test.ts:255` expects the opposite).
2. `FindReset`: `/new` and `/reset` interrupt the session of their own run; its
   callback frees the lane while the turn goes on, and the next turn runs beside it.
3. `FindStop`: a `/stop` between claim and launch marks the row interrupted, and
   the run is started all the same.
4. `FindLateAbort`: `interruptSession` aborts the run the session has after its
   wait, which may answer a message newer than the interrupting one.
5. `FindTwoLive`: in interrupt mode two messages may both interrupt before either
   is inserted; both rows are alive and the older is served first.
6. `FindRetry`: a continuation marked for a retry is refused by the job registry,
   which still knows its id, and fails.
7. `FindResult`: `enqueueEvent` inserts NULL into a NOT NULL column, so the event
   that was to tell the parent of a subagent's result never exists; the record says
   delivered all the same.

Observations that no document contradicts, and so are no findings:

* *ACP bridge.* A prompt sent while an earlier stream of its session goes on, also
  one that was cancelled, may never be answered: `finishPrompt` and the failure
  path of `runAdapterStream` delete the entry of the session whoever it is of. The
  run of a deleted entry may stay active in the store, and its session is never
  idle again.
* *ACP manager.* The cancel inside `closeSession` is dead code; a cancel during the
  ensure of a turn is lost; an eviction goes past the queue and closes what a turn
  is about to use.
* *Turns.* Abort reasons are strings, so `isAbortError` is false for them and the
  prompt runner goes on to every fallback after an abort. Turns that supersede one
  another may swap overrides for ever; retries after an overflow are unbounded
  (`prompt-runner.ts:517-521`): compactions that succeed and do not shrink the context
  enough keep the turn going for ever. An override leaks when the capability check throws.
* *Replies.* `NO_REPLY` stays visible on streaming channels; the text of an error is
  lost when the send of `finalize` fails.
* *Heartbeat.* Events enqueued during a triage are drained unread; the oldest of a
  full queue is evicted unread (`system-events.ts:46`). Events wait, without an end
  and without a notice, while the agent is paused, has no heartbeat or no home
  directory, its HEARTBEAT.md disables it, or its last route is that of another
  session than the one the event was posted for (`heartbeat.ts:178-180`, `294-317`,
  `338`).
* *Cron.* A job whose expression does not parse, or whose schedule is of no known
  kind, stays enabled and never runs (`scheduler.ts:88-95`, `118-123`), with a line in
  the log at most. A job that is removed during its own handler gets a timer again.
* *Memory.* A content that comes back while its other version is indexed keeps the
  wrong chunks; an edit that is noticed when the running sync has listed the files
  already is given that sync, which then clears the dirty flag: by default it stays
  stale until the next search; a forced sync returns the one that runs; the orchestrator drops
  unforced requests while one is under way.
* *Relay.* The close event of a replaced socket returns early: its commands wait
  for the 30 s timeout, its targets stay listed.
* *Subagents.* Records of `sessions_spawn` are opened and closed by nobody.
* *Context.* A call id used twice loses the result of the later call; a failed
  reply is merged with the next one for Gemini.
* *Auth profiles.* A late rate-limit failure clears a billing disable.
* *WeChat.* The cursor is saved before the batch is emitted; a crash in between
  loses messages.

## 6. Not modelled

* **Tape**: synchronous appends to one file; the body between fork and merge has no
  `await` in its only caller, so nothing interleaves.
* **Auth profiles**: bookkeeping of cooldowns without awaits, reached by unit tests.
* **Session manager and store**: synchronous file and table I/O; nothing decides on
  the status column, which is written late.
* **Announcement texts, watchdog**: the watchdog's wake is an event that is never
  inserted; the rest is a periodic log.
* **ACP client, dispatch and backends; MCP client manager**: wire formats and child
  processes; the models have what they do to a turn.
* **Channel adapters**: calls of third-party SDKs; `draft-stream.ts` and
  `lane-delivery.ts` of Telegram have no importer.
* **Hooks and extensions, host lifecycle and wiring, configuration, CLI, TUI,
  daemon**: called in order, or parsing of files and terminal input.
* **Multimodal and speech, sandbox, secrets**: conversions, third-party services,
  containers, encryption.
* **Desktop widget, browser extension, container runner**: user interfaces apart
  from the runtime.
* **`compaction.ts`**: no production caller.

Most of the repository by size is in this list, which is why the map covers a
small share of all its lines: it covers the stateful core.

Left for later, in order of value: the identity reconciliation and
`updateRuntimeOptions` of the ACP manager; the due times of heartbeats and the
interval and prompt directives of HEARTBEAT.md; search and the other backends of the memory; the
sanitizers of thinking blocks and ids. `Transcripts` has no reply all of whose
calls lack their arguments (`tool-repair.ts:123-127` would drop it whole) and no two
replies in a row, so that the merge of replies for Gemini finds nothing to do;
`StreamingReply` leaves out the "(no response)" message of a turn that says
nothing, on which no property depends.
