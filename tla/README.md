# A verification project for the AIO agent platform

TLA+ models of the parts of this repository whose correctness depends on the order of things:
tasks that outlive a request, leases, stops, confirmations, agents taking turns, queues, locks over
two stores, and requests that overlap. TLC checks every model on small instances; TLAPS proves the
most important safety properties for every value of the constants. Paths below are relative to
`src/backend/src/aio_agent_platform/`, those of the browser to `src/frontend/src/`.

`PROJECT.json` lists the components, the runs, the lines each definition stands for, the hazards at
their lines, the disagreements between documents and code, and the theorems.

## 1. The system and its hard parts

| component | state | operations | interacts with | model |
|---|---|---|---|---|
| Durable chat runs (`core/chat_runs.py`) | rows of `chat_runs`, their numbered event log, the workers of a process | reserve, start, produce, append, finish, heartbeat, expire, stop, shutdown | the chat route supplies the events; readers poll the log; a row lock and a partial unique index serialise writers | `ChatRuns`, `RunLedger` |
| Chat event stream (`subscribe`, `watch_chat_run`) | a cursor per connection | poll, yield, end, reconnect | reads status and rows that the worker writes | `ChatStream` |
| Chat route and history (`interface/routes/chat.py`, `core/chat.py`, `core/chat_history.py`) | messages, summary and title of a session | load, request, checkpoint, rescue, summarise, title, clear, delete | feeds the run; loads what other turns left | `ChatTurns` |
| Context budget and compaction (`core/context.py`) | none of its own | split, truncate, summarise, cut after an overflow | called by turns, loops and rooms | `ChatTurns`, `AgentLoop`, `RoomRuns` |
| Agent loop, delegation (`core/agent.py`, `tools/executor.py`, `delegation/`) | messages and cards of one run, results to reuse | model step, tool batch, UI flow, delegate, compress | events go to the run or the room | `AgentLoop` |
| LLM client (`llm/client.py`) | one stream | open, read, retry, record | the loop puts the calls together | `LlmStream` |
| MCP servers (`tools/mcp/`) | connections, owner tasks, the map of tool names | register, remove, refresh, call, reconnect | agent loops call | `McpServers` |
| UI actions and confirmations (`core/ui_action.py`, `core/confirmation.py`) | `_pending` actions and cards, dangerous references, failure counts, in memory | create, wait, resolve, cancel | agent loops wait, REST routes answer | `UiActions` |
| Browser runner (`lib/uiActions/`) | a queue, pumps, the lock of the tab, executions | take, perform, abort, watchdog, sign in and out | actions come from the stream, answers go over REST | `UiRunner`, `UiActions` |
| Chat page (`hooks/useChatStream.ts`, `stores/chatStore.ts`) | what a tab shows, its connection, queue and messages | send, queue, stop, resume, recover, change the session | posts to and watches the runs | `ChatPage` |
| Rooms (`rooms/`) | room, messages, runs, tasks; workers of a process | create, edit, delete, submit, retry, stop, respond; worker, monitor, expiry | agent loops speak in turn; the page of a room expires lapsed runs | `RoomRuns` |
| Scheduled jobs (`cron_jobs/`) | jobs, run records, claims in Redis | reload, fire, claim, execute, run now, notify | agent loop, channels | `CronScheduler` |
| Channels (`channels/`) | queue and consumer per chat, cards, adapters, bindings, long connections | submit, /stop, recall, reply, shut down, bind, administer, connect | agent loop, task registry | `ChannelPipeline`, `StreamingReply`, `ChannelAdmin`, `ChannelBindings`, `BotTransport` |
| Task registry and pet events (`core/task_registry.py`, `core/task_events.py`) | a Redis hash, subscriber queues | started, tool, finished, stream | channels write, pets read | `TaskEvents` |
| Sandbox, workspaces, storage (`sandbox/`, `storage/workspace.py`, `workspaces/`) | containers, a user's lock over a file lock, two copies of the files | create, recover, load, execute, sync, destroy, clean up | tools, pages | `Sandboxes` |
| Skills (`skills/`) | rows, versions, packages in object storage | create, edit, import, restore, delete, clean up | agents and pages | `SkillPackages` |
| Graph knowledge (`graph_knowledge/`) | documents, chunks, entities, edges, jobs | upload, OCR, extract, review, delete | background tasks of a process | `GraphKnowledge` |
| Long-term memory (`memory/`) | memories, versions, changes, plans, days | edit, reconcile, merge, undo, restore | agents and pages | `Memories` |
| Agents, models (`interface/routes/agents.py`, `agent_api.py`, `admin_models.py`) | rows, hierarchy, versions, the default model | CRUD as READ COMMITTED transactions, publish, run | external callers | `AgentCatalog`, `ModelCatalog` |
| Pets (`pets/`) | packages, adopted pets, limits | upload, adopt, activate, delete, name, speak | agents | `Pets` |
| Lifecycle, hooks, recorder (`interface/lifecycle.py`, `hooks/`, `observation/`) | exit stack, bounded queues, batches | start, fire, flush, shut down | everything | `Services` |

Everything in the backend is asyncio: a process interleaves only at awaits, several processes share
PostgreSQL, Redis and object storage, and a row lock makes a transaction one step. JavaScript is the
same within a tab. That decides the grain of the models: an action is what a task does between two
awaits at which something else can matter. What is hard, and what makes it correct:

* **Chat runs**: a stalled process goes on writing after its lease was taken over; a cancellation is
  delivered at any await, also inside `finally`; a batch is committed and then cleared; a resumed
  task must not repeat a call. Correct: one running task per session, no call twice along a chain of
  continuations, no hole in the log, an ended task is never touched, a stop ends it.
* **Stream and page**: the status is read before the rows; a reconnection replays the log; a recovery
  goes on after its await on a page that has moved. Correct: every event once and in order, the end
  only with the whole log, a browser action carried out once, and the page follows what runs.
* **Turns**: several turns of a session write and load side by side. Correct: what is loaded is
  accepted by a model, what was told is stored.
* **Agent loop**: batches with reused results, denials, delegations and cancellations. Correct:
  every request is well formed, grants only narrow, one attempt is shown, cards end, and whoever
  waits does so for a model, a tool or a user in the end.
* **MCP**: an owner task holds a session that calls replace under one another. Correct: no owner
  without a connection that leads to it, names lead to connections, operations end.
* **UI actions**: the server decides on a card from a cached list, the page decides again. Correct:
  a dangerous operation was approved in that very call; flows and pending actions match.
* **Rooms**: worker, monitor, expiry, stop and a new request share a row. Correct: one active run,
  an ended run is final, members speak in turn, messages agree with tasks, a stop holds.
* **Jobs**: replicas, claims, outages. Correct: at most one attempt per occurrence, a delivered
  report is recorded, an outcome is final.
* **Channels**: consumer, stop, recall, card and heartbeat race. Correct: in order and at most once,
  a card never goes back, what the user sees at the end is what happened.
* **Two stores** (sandbox, skills): one is changed before or after the lock or the commit. Correct:
  files are kept, stores agree.
* **Catalogues**: READ COMMITTED transactions overlap. Correct: chains of history are whole; what
  one request at a time keeps is broken only where requests really overlapped.

## 2. Modules

A component's module declares its constants with a named assumption, its state, one action per
operation or step, a type invariant, the properties, and beside a definition a variant `...Bug`: a
plausible mistake under which the named property fails (`PROJECT.json`, "mutants"). An `MC` module
gives the constants small sets. A `...Proofs` module holds theorems. Components that share no state
run one per behaviour in a common MC module: `part` says which one moves, the others stay in their
first state, in which nothing is enabled that fairness speaks of.

### Chat runs, their readers and the page

* `RunLedger`: what the table of chat runs promises. Tasks are opened, grow, close once, and a call
  takes effect once per chain of continuations.
* `ChatRuns` implements it. `row[r]` is a row of `chat_runs` with its log (the snapshot column is a
  fold over the log, computed by `Called`, `Succeeded`, `DoneLogged`, `Uncertain`); `wk[r]` the
  asyncio task started for it; `proc[p]` a process (an `OWNER` uuid: a restarted process is a new
  one). The program counter of a worker names the awaits of `produce`: pulling from the source,
  inside `append`, between the commit and its return, the `finally` block with its children, the
  leftover batch, the check of `stop_requested`, the last write. `Deliver` is the cancellation that
  arrives at one of them; `wk.cancel` separates requested from delivered, because asyncio delivers
  one `CancelledError` per request, and the source or `finally` may swallow it: a worker cancelled with
  text pending appends it, checks and finishes like any other. `Reserve` includes the expiry of the
  active row and the copy of completed calls on a resume. `Mishap` switches stops, shutdowns, crashes,
  stalls, database errors and abandoned requests on.
* `ChatStream`: `sub[c]` is a connection with its cursor, what a poll fetched, and the status that
  the poll had read first. `Connect` takes the cursor the client remembers, as `watch_chat_run` does.
* `ChatTurns`: the rows of a session's messages and its turns of six kinds (web, channel, REST,
  agent API streamed or at once, slash command), each with load, request, tool calls, checkpoints,
  rescue and background summary. A message counts one token.
* `ChatPage`: `tab` holds the connection, what is shown, the queue, stops, loads and recoveries that
  are suspended at an await; a generation counter of the code is only ever compared with a copy, so a
  suspended function carries whether its copy is current.
* `UiRunner`: the store's queue, the bag of suspended pumps (any change of the store starts one), the
  lock of the tab, executions with watchdog, Esc and a change of identity.

### Agents

* `AgentLoop`: `loops` holds every loop started, `up` leads to the one that waits for it. A loop's
  conversation is what the next request sends; a batch records results, denials, reused results and
  delegations; `halt` and `snap` are the end of the run around the root with its reaping of children.
* `LlmStream`: one step of the model: the service sends whatever its protocol allows, the loop puts
  calls together from pieces and tries again.
* `McpServers`: `_connections`, `_tool_to_server`, the locks, owner tasks, and operations between
  their awaits.
* `UiActions`: `cards` and `acts` are the two `_pending` dictionaries, `ctx` and `fails` the caches
  of a session; `page` has the elements present, those a snapshot would judge dangerous, those last
  reported; `inbox`, `running` and `replies` carry an action to the browser and back, as sets, so
  answers may be late or reordered and a watchdog's answer does not end the execution.
* `RoomRuns`: an action is a transaction under the room's row lock, or what a worker does between two
  awaits. `Visit` is any request that loads the room, which expires a lapsed run on the way; `why` of
  a worker is the reason its monitor cancelled it; a summary is the set of messages it stands for.

### Channels, jobs, services

* `ChannelPipeline`: deduplication, the queue of a chat and its consumer, the turn with its rollback
  and shielded finalization, /stop, recall, shutdown and restart. `StreamingReply`: the card; a text
  is the number of its deltas, `TextLimit` and the place `brk` stand for the limit of bytes and the
  newline or space at which a text that is too long is cut; a message may be refused, which nobody
  notices. `TaskEvents`: the Redis hash with the age of its entries, the publications, the listener and
  the pet's view, of which the page hides what it heard nothing of.
  `BotTransport`: run loop, heartbeat, and answers matched by request id. `ChannelAdmin`: requests on
  one channel with the row as they read it, and the adapters of a process. `ChannelBindings`: codes,
  bindings, session mappings, pending files.
* `CronScheduler`: per replica a scheduler, claims, attempts with their records and reports.
* `Services`: every service of the lifespan, the recorder and the hooks with queue, batch and flush.

### Stores

* `Sandboxes`: the holder of the user's lock step by step, interleaved with all that takes no lock.
* `SkillPackages`: rows, versions and objects; a transaction's uploads before, cleanups after it.
* `GraphKnowledge`, `Memories`, `AgentCatalog`, `ModelCatalog`, `Pets`: transactions of several
  statements under READ COMMITTED, each statement a step where another request can come between. A
  deletion of `GraphKnowledge` holds what its statements found (`drop`, `wipe`), which others neither
  see gone nor can change until the commit; `late` is what was committed too late to be found. Where
  no other request can tell (a first look at a base that may be gone by the commit), look and commit
  are one step without the look in its guard.

## 3. What the runs check

| run | instance | shows |
|---|---|---|
| `chat_run` (`MCChatRuns`, `ChatRunsOne.cfg`) | 1 process, 1 task, a plain and a delegated call, 3 events, every mishap, fair | `LogIsWhole`: a completed task has its answer and a result of each call, no log has a hole; `TerminalIsFinal`; `StopTakesEffect`, `OrphanEnds` |
| `chat_run_resume` (`ChatRunsResume.cfg`) | 2 processes, 2 tasks, 1 call, 2 events, stalls | `OneRunningPerSession`; `NoReexecution` by the old and the resumed worker; `ResumableIsCertain`; `ImplementsLedger` |
| `chat_run_chain` (`MCChatTurns`, `ChatRunsChain.cfg`) | 3 tasks, abandoned requests; 2 turns of six kinds, 1 call, 1 of them disturbed | `LinearContinuation`; `TurnsKept`: what is loaded is accepted, what was told is stored |
| `chat_stream` (`MCChatStream`, `ChatStream.cfg`) | 1 client, pages of 2 rows, 1 task, 3 events, stall and stop; 2 actions of 2 sessions, 1 sign-in; a page with 2 sessions, 2 texts, 2 tasks, a queue of 1, 1 trouble; fair | `ReadsTheLog`, `ReaderIsTold`; `ActsOnce`, `EveryActionAnswered`; `PageFollows` |
| `ui_actions` (`MCUiActions`) | 2 loops of a session, 2 calls each, an element and a declared action | `DangerousIsApproved`, `FlowsAndActions` |
| `room_run` (`MCRoomRuns`, `RoomRuns.cfg`) | 1 run, 2 members, 3 tasks, messages and cards, every mishap, fair | `ResultsAgree`, `StopHolds`, `DoomedEnds` |
| `room_runs` (`RoomRunsTwo.cfg`) | 2 requests, 2 runs, 1 card, every mishap | `OneActiveRun`, `EndedIsFinal` |
| `agent_loop` (`MCAgentLoop`) | depth 2, 3 loops, 3 steps, 4 calls, one of them a question to the user; 1 MCP server, 2 prefixes, 2 requests, 3 connections and owners, 2 upsets; a stream of each kind, 2 calls in 2 pieces, 2 tries | `RequestWellFormed`, `NarrowedAllTheWay`, `StepIsTrue`, `McpWhole`, `WaitersReturn` |
| `channels` (`MCChannels`) | 2 messages, a /stop, 1 restart; 3 deltas, a card for 2; 1 chat of 2 turns, a queue of 2, 1 outage; 2 connections of a bot, 3 heartbeats, 2 frames | `QueueSafe`, `UserSees`, `NeverBack`, `NoneForgotten` |
| `scheduled_job` (`MCCronScheduler`) | 2 replicas, 2 attempts, 2 ticks, 1 trouble; 2 turns, 2 rows, 1 hook call, 2 mishaps | `AtMostOnce`, `ToldAndServed`, `OutcomeIsFinal` |
| `sandbox` (`MCSandboxes`) | 2 workers, tasks, workspaces and files, 2 containers, 2 failures; 2 attempts at 2 requests, 2 skills, 1 mishap | `FilesKept`, `StoresAgree`, `SkillHistory` |
| `stores` (`MCStores`) | two or three of each actor, 3 memories, 4 changes, 2 edits, 4 requests, 3 adapters, 1 restart, 2 codes, 3 requests about pets | `GraphWhole`, `MemoryHistory`, `CatalogsHold` |

`ActsOnce`, `StepIsTrue`, `UserSees`, `ToldAndServed` and `CatalogsHold` are conjunctions over the
components that share a run: `RunOnce` and `PageFaithful`; `ShownAsIs` and `StreamHolds`;
`FinalShown`, `ViewConverges` and `LinkHolds`; `TellsWhatIsRecorded` and `ServicesHold`; the
invariants of agents, models, channel administration, bindings and pets.

`tlc -config X.cfg M` with the module named above; `CHECK_DEADLOCK FALSE` is set everywhere because
each instance is bounded: the last task may end and nothing is left to do.

### Bounds

Every counter has a named bound (`Max...`, `Limit`, `Pieces`, `Tries`), chosen from the hazards. A
hole in a log or a batch stored twice needs two batches, hence two events, and a third to see a call
between two of them. A stale worker needs a second process and task, a fork of a chain a third task.
Two loops are enough for the busy check, two calls for a late answer to meet the next action, three
loops for a grant to narrow twice. A run of a room needs two members for turns and stale answers and
a second run to follow an expired one. Two owners of one connection, and a second server
configuration, are what an MCP call can hold on to; a third of each lets the second be replaced. Two
replicas and two ticks make an occurrence contested, then missed. A card needs three deltas for a
late update to be two behind. Two transactions overlap; a third actor adds only another pair. Where a
bound stops a resource (events, tasks, frames), the code's own end (finish, fail, leave) stays
possible at every point, so no liveness run passes because of a bound. Symmetry is used where the
members of a set are only compared, and in no run with a liveness property.

### Fairness

A component takes its own steps; the model, the tools and the user are under no obligation, and the
network only where a page or a reader goes on trying.

* `ChatRuns!Fairness`: a request that reached `reserve` starts its worker or fails; a live worker
  begins and finalises; its heartbeat loop wakes every second (`chat_runs.py`, `_heartbeat`); a lease
  that nobody renews passes; a client that shows the session keeps polling `/runs/latest`, which is
  what expires a dead run (the code has no janitor: without a visitor an orphan stays marked
  running); shutdown ends. `ChatStream!SFairness` adds the generator of an open connection.
* `RoomRuns!Fairness`: the body of a live worker, its monitor (every second), a lease that passes,
  a page that keeps the room open.
* `AgentLoop!Fairness`: each loop's own steps, the unwinding of what was cancelled, the reaping and the
  end of the run. No model, tool or user need answer: `WaitersReturn` says that loops never wait for
  each other alone, and that a run whose root is over ends although its delegations wait for ever.
  `McpServers!McpFairness`: operations and closers run on the event loop, an owner that was told to
  stop does, a refresh has a timeout; a server need not answer a call nor open a session.
* `UiRunner!RFairness`: suspended pumps resume, the watchdog fires, an execution that was let go
  ends. `ChatPage!CFairness`: the network comes back and the reconnection loop, recoveries and loads
  are answered. `ChannelPipeline!PFairness`: turns, consumers and handlers run, shutdown closes.
* `UiActions!FairSpec` is stated for a reader; no run uses it.

## 4. Stated and not kept

Where a document, a comment or a docstring of the repository says what the code does not do, the
module states the document's sentence as a property of its own, outside the runs, and `PROJECT.json`
("findings") quotes both. The most consequential ones:

* `StoredOnce`, `CompletionIsKept`, `UnknownIsMarked` (`ChatRuns`): a cancellation between the commit
  of a batch and `pending.clear()` commits it again; `done` is durable and the task may still end as
  stopped, failed or interrupted and be offered for resumption; an answer is written without the fence
  of the log.
* `BreakerTrips`, `ReissueIsConfirmed`, `JudgedAtClick`, `CardTimesOut`, `CardsAreLive` (`UiActions`):
  the failure counter is reset before each failure is counted; a call the page refused as dangerous is
  issued again without a card; the page may turn dangerous under the moving cursor; a card has no
  timer and outlives its loop.
* `NothingForgotten`, `StoppedHadStarted` (`RoomRuns`): a summary's boundary passes the user's request;
  a member that meets a stop when it starts is recorded as stopped.
* `ThreeRetries`, `EveryRequestRetried`, `ExecutedAsMeant`, `SuccessIsReal`, `EveryAnswerRecorded`
  (`LlmStream`); `InCallOrder`, `LabelTrue`, `DelegationReturns`, `SubtreeEnds` (`AgentLoop`);
  `RefreshRevives`, `ListedIsCallable` (`McpServers`).
* `AskedOnce`, `SentIsAccepted`, `AnsweredOnce`, `SummaryIsLatest`, `DeletedIsGone`, `RetryKnows`,
  `TitledAtFirst`, `RetriedAsTold` (`ChatTurns`); `ShownEnds`, `SentIsShown`, `StopsItsChat`,
  `StopsItsTurn`, `StaysInSession`, `QueueMoves` (`ChatPage`); `OneAfterTheOther`, `RefusedAtOnce`
  (`UiRunner`).
* `OneAtATime`, `FinalizationRuns`, `RegistryFollows`, `ReplayEnds`, `AttachmentKept`
  (`ChannelPipeline`): a second stop or a failing rollback before the shield skips the finalization;
  `InterruptionShown`, `FinalArrives` (`StreamingReply`): a refused message is taken for shown; `NothingLost`, `RunningIsListed` (`TaskEvents`);
  `StreamToOwnChat`, `AckIsOwn`, `OpenIsUpdated` (`BotTransport`); `EnabledIsCurrent`,
  `DisabledIsReleased`, `DeletedIsReleased`, `EnabledIsServed` (`ChannelAdmin`); `OneLiveCode`,
  `AtMostLimit`, `SessionIsOwn`, `SessionExists`, `FilesReachable`, `CodeIsUnique` (`ChannelBindings`).
* `NoRunIsStuck`, `RunsAtItsTime`, `ActiveIsAhead` (`CronScheduler`); `NothingLeft`,
  `UsageHasItsDatabase` (`Services`); `UploadKept`, `DeletedStaysDeleted` (`Sandboxes`);
  `ImportIsWhole`, `LostReplyKeepsPackage` (`SkillPackages`); `DayTellsAll` (`Memories`);
  `ChunksFollow`, `GoneWithBase`, `EndsExist`, `SourceExists`, `NeverStuck`, `CountsAll`
  (`GraphKnowledge`): what is committed between the statements of a deletion stays, a job goes on with
  names it read, a dead one blocks its base; `AdoptedStays`, `FallsBack`, `DistinctNames`,
  `WithinLimits`, `RowsOfSheet` (`Pets`): the rows of a sheet of nine are told of smaller ones.

A few disagreements concern data that the models leave out (what an external run takes of the live
agent, a vote that is never written, a disabled provider that goes on being used): they are in
"findings" only.

What the checked properties say of these places is what the code does keep there: a property that
holds only while requests do not overlap has the overlap as a history variable in its hypothesis.

## 5. What is proved

`PROJECT.json` ("theorems") names every result and the property of a run that it states. A run shows
the property on its small instance, the theorem for every value of the constants, under the
assumptions that the modules declare and TLC evaluates (bounds are numbers, names used as markers are
not members of a set, sets of names that are counted are finite). Eight modules hold the theorems:

| module | about |
|---|---|
| `ChatRunsProofs` | `ChatRuns` and its refinement of `RunLedger` |
| `ChatStreamProofs` | `ChatStream`, `UiRunner`, `ChatPage` |
| `AgentLoopProofs` | `AgentLoop`, `LlmStream`, `McpServers` |
| `RoomRunsProofs` | `RoomRuns` |
| `CronSchedulerProofs` | `CronScheduler`, `Services` |
| `ChannelProofs` | `ChannelPipeline`, `StreamingReply`, `BotTransport`, `TaskEvents` |
| `ToolsProofs` | `Sandboxes`, `SkillPackages`, `UiActions` |
| `StoresProofs` | `GraphKnowledge`, `Memories`, `AgentCatalog`, `ModelCatalog`, `ChannelAdmin`, `ChannelBindings`, `Pets` |

Each proof follows one pattern: an inductive invariant, which TLC has checked on the run's instance
before it was proved; `Init` establishes it; one lemma per action (or per group of actions with the
same effect) preserves it; it implies the property. What has to be strengthened says why a component
is correct:

* **Chat runs.** `Inv` adds to the properties that a call is in the log before it is executed
  (`WorkerInv`), that the log of a task that can be resumed no longer grows, and that a continuation
  starts from all of it (`LineageInv`). `NoReexecution` speaks of executions and the code compares
  recorded calls, so neither implies the other without these. From it: `TypeCorrect`, `OneRunning`,
  `Linear`, `NoCallTwice`, `Certain`, `Final`. `LogInv` relates, for each task, what is stored to what
  its worker holds: stored numbers have no hole, a held event is either not stored yet or landed
  unheard, an announced call is still to be executed or has its result, `done` comes last. From it:
  `LogHolds`, and `Implements`: a reservation opens a task of `RunLedger`, an execution is an effect, a
  commit a write, all else closes a task or changes nothing that can be seen.
* **Readers, runner, page.** `ReadersInv`: what a client consumed and fetched are the first events of
  its row's log, and the end is handed out only when the row has ended for good (`ReadersServed`). `RunnerInv`:
  the queue holds distinct actions that were delivered and not taken, and an execution about to act
  has not acted (`CarriedOutOnce`). `PageInv`: what is shown is the log up to the cursor of the open
  connection, actions are handed out no further than the cursor has ever been (`PageShowsTheLog`,
  `EachActsOnce`).
* **Agent loop.** `LoopInv`: each loop's conversation has its calls and results paired, except the
  message whose batch is executing; grants shrink along `up`; a loop that is reaped has its cards
  closed (`TypesHold`, `RequestsAreWhole`, `GrantsNarrow`, `ShownHolds`). `StreamInv`: the calls put
  together so far are a prefix of those sent, whatever the order of pieces and retries (`StepAsSent`);
  together `StepsAreTrue`. `McpInv`: for each operation the locks it holds and its connection, for
  each connection the server it is of and the owner that knows it, for each owner who will end it; the
  map of names is exact when no call is under way (`ServersWhole`).
* **Rooms.** `StoryInv`: per run, tasks, messages, speakers and the worker agree, and workers that
  outlived a run are apart from the one that writes (`OneRunAtATime`, `StoryHolds`, `EndedStaysEnded`).
  `StopStays` needs nothing more than types: it is proved action by action.
* **Jobs and services.** A claim carries the time of an occurrence and at most one attempt has it
  (`OccurrencesRunOnce`), records follow attempts (`ToldIsRecorded`, `OutcomesAreFinal`). `ServInv`:
  services come and leave in order, work goes on under a service that is there, and a row is in one
  writer's hands (`ServicesServe`); together `ToldAndServedHolds`.
* **Channels.** `QueueInv`: an item is queued once and in line, a consumer lives while something
  waits, a stop or recall takes the turn it means, and a turn that unwinds does so by way of its
  rollback (`QueueHolds`). `ReplyInv`: updates are numbered and their texts grow with their numbers, but
  for a first chunk that was cut (`Numbered`), one at a time waits for its answer (`InHand`), it was the
  newest text when it was sent (`Newest`), what `finish` sends is the head of the final text
  (`Headed`), the card is not behind the last flush that succeeded (`Settling`), and what `finish` takes
  for shown is shown (`Visible`): `CardNeverBack`, `ReplyShown`. `LinkInv` counts missed beats and
  matches waiters with frames (`LinkServes`). `EventInv`: a writer knows what the registry holds of its
  session (`WriterKnows`), and the publications under way lead from what a pet shows to what the
  registry lists (`Converging`), of sessions that one chat drives (`Own`) and of which nobody let go
  untold (`faded`): `PetConverges`; together `UserSeesWhatHappened`.
* **Tools.** `SandInv`: a workspace loaded in the running container is whole in it, one that is not
  is whole in object storage; and what a half-done load or sync has in hand is everything it will
  write, because it holds the lock. `FilesKept` alone is not inductive: it says nothing of that hand
  (`FilesSurvive`). `SkillInv`: a transaction under the lock writes the version that there is or adds
  the next, a row seen without the lock is of a version that never comes again, and the uploads that a
  cleanup will remove are no version's (`PackagesMatch`, `SkillsKeepHistory`). `PairInv` and `Consent`
  for actions on the page (`PairsHold`, `DangerNeedsConsent`).
* **Stores.** `GraphInv`: a document's chunks are just those it was cut into, a parser works only on a
  document without chunks, a deletion has all chunks of its document in hand unless one is late, what
  was found in a base is locked by the base's deletion or late, a process has one job at most, and that
  job knows every relation that any job of its process has found; this last part is what makes
  `FoundOnce` inductive (`GraphStaysWhole`). `MemInv`: a memory is its last version, a change wrote the versions right after
  those it saw, a merge is of versions that can never be the last again (so no second merge has seen
  the same), and a writer that decides holds the lock of its scope while no automatic memory there
  tells what it is about to add (`MemoriesKeepHistory`).
* **Catalogues.** What a request holds between its statements fits the tables. `AgentInv`: a version is
  known by its publication, which retires all that are active, an update has read the row as it is, and
  the relations an edit is about to write fit those there are, each unless two edits of the kind that
  matters overlapped (`AgentsKeep`). `ModelInv`: one default unless requests overlapped
  (`ModelsKeepDefault`). `AdminInv`: an adapter that is up is registered, one that drains has its
  request, and of requests made in turn one is at work (`ConnectionsAreOwned`). `BindInv`: a code is
  spent once, one works of an identity that asks in one chat at a time, and what a chat leads to is
  somebody's who held the identity (`IdentitiesAreBound`). `PetInv`: a sheet is there while its package
  is, one pet is active, and there is room for the one request under way unless two of a kind overlapped
  (`PetsKeep`). Together `CatalogsKeep`, from a start with no pet or with one.

The attempts found errors in the models, which were corrected: arms of a CASE that overlapped
(`StreamingReply`, `RoomRuns`), markers that could have been members of a set (`ChannelPipeline`,
`McpServers`, `Sandboxes`, `SkillPackages`, `GraphKnowledge`, `Memories`), and sets that had to be
finite or not empty. Each is now part of a named assumption.

Only model-checked:

* every liveness property (`StopTakesEffect`, `OrphanEnds`, `ReaderIsTold`, `PageFollows`,
  `EveryActionAnswered`, `DoomedEnds`, `WaitersReturn`, `NoneForgotten`): liveness under fairness and
  ENABLED are out of the prover's reach;
* `TurnsKept` (`ChatTurns`): what is loaded is a fold over the history of a session, and what a fold
  computes for every history needs an induction over data that the provers cannot instantiate.

## 6. How to run

In this directory, with the community modules on the path:

    tlc -workers 2 -config ChatRunsOne.cfg MCChatRuns     # a run: table of section 3
    tlapm ChatRunsProofs.tla                              # the proofs of a module

Every run takes under five minutes with two workers. `AgentLoopProofs`, `ToolsProofs` and
`StoresProofs` take several minutes from nothing; each leaf is proved with half the default time of
the provers.

## 7. Abstractions, and what is not modelled

* Payloads, prompts, wording, rendering and logging are left out, except where a property is about
  them. A text is a length or a member of a small set; a token count is a number of messages.
* A transaction of one statement, or under a row lock, is one step; under READ COMMITTED each
  statement is. Database errors strike where the code handles them in a way of its own (the append,
  the heartbeat and the last write of a chat run; the commit of a skill); elsewhere a failed
  transaction is the step that does not happen.
* There is no common clock: a lease, a timeout or a watchdog may pass at any moment it is armed, so
  what holds does so for every speed of every process. Ticks exist where the code compares times
  (jobs, bind codes, heartbeats).
* Redis, object storage, Docker, the platforms of the channels, MCP servers and the models are
  modelled from how the code uses them: they answer, fail or stay silent.
* Components that share no state are not composed with one another, and a component that uses
  another meets only the interface it relies on.
* Partly modelled, with the rest named in `PROJECT.json`: the LLM client, the chat route, memory
  (portraits are text), skills, storage, tools, knowledge bases (retrieval is a query), pets, the
  database schema (constraints where a model relies on them), the chat page, the agent catalogue.
* Not modelled: remote and web tools (one call, no state kept), authentication and tenants (a filter
  in each query), HTTP routes, commands and the command line (they decode and call what is modelled),
  pages and stores of the frontend other than the chat page and the runner (they show what a request
  returned).

Left to do: five hazards have no property (`PROJECT.json` says why: the code does not keep what there
was to say, which the modules state outside the runs).
