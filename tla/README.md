# Agent Mesh Client: a formal model

TLA+ modules for the parts of Agent Mesh Client that keep promises across
processes, databases and failures, TLC configurations that check them on small
instances, and TLAPS proofs of the most important of them for every instance.
Paths are relative to the repository, under `src/`; `src/src` is the
implementation (47 TypeScript files, about 10,900 lines).

## 1. The system

One **daemon** per host runs any number of **lanes**.  A lane is an agent with
an identity on the mesh, a runtime (Codex, Claude or Antigravity), and channels
(Discord) that people write to.  Everything in the daemon shares one JavaScript
event loop: code runs atomically from one `await` to the next.  Channel drivers,
Claude's MCP server and the Hub are other processes.

    provider --gateway--> driver --lane socket--> LaneServer
                             ^                        |
                             |                 DurableChannelHandler
              channel.message.send                    |
                             |            record() -> LaneOutbox, BlobSpool
                         #reply, drain                |   onAccepted
                             ^                        v
                       RuntimeWorker  <---------  RuntimeInbox <-- mesh.message
                                                      
                 LaneOutbox --listDue--> AuditWorker --MeshClient--> Hub

    agent-mesh, TUI --save--> config.json --load--> daemon (control socket)
    RuntimeWorker --CodexAppServerAdapter--> app-server <-- attached operator
    tmux session, its MCP server --runtime.claim, reply, fail--> daemon

| component | source | state it keeps | operations | what makes it correct |
|---|---|---|---|---|
| lane outbox | `outbox/lane-outbox.ts` | `outbox.sqlite3`: events, blobs, delivery outcomes | record, listDue, mark*, replay, reserve/complete action | an event is never lost, ACKED only after the Hub's ACK, states move as in `docs/outbox.md` |
| blob spool | `outbox/blob-spool.ts` | content-addressed files | ingest | bytes are flushed before a row names them |
| audit worker | `hub/audit-worker.ts` | the batch and the locals of `#process` | prepare, upload, append, retry, quarantine | every event is delivered or quarantined |
| mesh connection | `hub/mesh-client.ts`, `hub/lane-hub-connection.ts` | socket, pending calls, status | connect, call, close, reconnect | a call is answered at most once; a lost connection is noticed |
| lane server | `channel-rpc/lane-server.ts` | drivers, pending requests of each | register, handle, requestDriver, close | one driver per instance id; every request ends |
| channel handler | `lane/channel-handler.ts` | locals of `handle` | channel.message.received | accepted means durable; a redelivery changes nothing |
| runtime inbox | `runtime/inbox.ts` | `runtime.sqlite3`: turns, conversations | enqueue, next, claim, complete, fail | one turn per message; every turn ends |
| runtime worker | `runtime/worker.ts` | the current turn | run, reply, error reply, stop | a turn is completed only when its reply was delivered |
| daemon | `daemon/agent-mesh-daemon.ts` | maps of the above, drain timer | start, stop, reload, reply, drain, control calls | outbound audit frames the delivery; no double delivery |
| Discord driver | `channel-driver/discord.ts`, `client.ts` | action table, sockets | gateway session, handleLaneRequest | action id is an idempotency key |
| driver supervisor | `channel-driver/supervisor.ts` | child, back-off | start, status, maintain, stop | a driver that exits is restarted, one that was stopped is not; no child is lost |
| Codex runtime | `runtime/codex-app-server.ts`, `ws-unix-client.ts` | child, WebSocket, pending requests, the active turn | warmUp, run | run() returns the answer of its own turn, and returns |
| Claude runtime | `runtime/claude-supervisor.ts`, `claude-channel-mcp.ts` | tmux session, notified turns | start, stop, poll, reply | a completed turn has an answer at the Hub; a turn is not forgotten |
| Antigravity runtime | `runtime/antigravity.ts` | one child process per turn | run | |
| configuration | `config/store.ts`, `cli.ts`, `tui/app.ts`, `daemon/agent-mesh-daemon.ts` | the file; the daemon's maps | load, save, config.reload | what runs is what the file says |
| keys | `identity/key-manager.ts`, `hub/provisioning.ts` | files | ensure, provision | an identity keeps its key |
| diagnostics, CLI, TUI, service | `diagnostics/`, `cli.ts`, `tui/`, `service/` | ring buffer | | |

How they interact: the driver and the lane server exchange JSON-RPC frames over
a Unix socket, each side calling the other, with timeouts of 30 s; the daemon
calls the Hub over one WebSocket with timeouts of 30 s and PUTs blobs over HTTP;
the inbound path writes two SQLite files that no transaction spans; the worker,
the drain timer (1 s) and the control socket share the inbox and the outbox
through the event loop.

What is hard about it, with the line where it bites, is the list `hazards` in
`PROJECT.json`: batches and lists that go stale over awaits, a blob shared by
events in different states, answers lost or late, two databases and a provider
written in an order a crash can cut anywhere, two deduplication keys for one
message, a drain that races the worker, LIMITs that can starve, close and exit
callbacks that come after their successor, notifications matched against a turn
that changed meanwhile, a reload between the awaits of a
start, an answer nobody puts a timer on.

## 2. Modules

| module | models | checked by |
|---|---|---|
| `AuditDelivery` | what the outbox promises of one event | as a property of `AuditOutbox` |
| `AuditOutbox` | `lane-outbox.ts` (events, blobs), `audit-worker.ts`, the Hub as its calls reveal it | `MCAuditOutbox`, three runs |
| `AuditOutboxProofs` | theorems about it | `tlapm` |
| `IntakePromise` | what a lane promises of the events of a provider | as a property of `ChannelIngress` |
| `ChannelIngress` | `channel-handler.ts`, `record()`, `ingest()`, `enqueueChannel` | `MCChannelIngress`, two runs |
| `ChannelIngressProofs` | theorems about it | `tlapm` |
| `ReplyPromise` | what a lane promises of the turns of its channels and their replies | as a property of `ReplyDelivery` |
| `ReplyDelivery` | `worker.ts`, `#reply`, `#completeChannelAction`, the drain, `requestDriver`, `#handleLaneRequest` | `MCReplyDelivery`, three runs |
| `ReplyDeliveryProofs` | theorems about it | `tlapm` |
| `MeshConnection` | `mesh-client.ts`, `lane-hub-connection.ts`, `provisioning.ts`, `ensure` and `rememberAgentType`, `SecretStore.set` | `MCMeshConnection`, two runs |
| `MeshConnectionProofs` | theorems about it | `tlapm` |
| `DriverLink` | `supervisor.ts`, `client.ts`, the loop of `discord.ts`, the connections of `lane-server.ts` | `MCHost` |
| `DriverLinkProofs` | theorems about it | `tlapm` |
| `ClaudeTurns` | mesh turns of `inbox.ts`, `runtime.start/claim/reply/fail`, `claude-supervisor.ts`, `claude-channel-mcp.ts` | `MCHost` |
| `CodexTurns` | `codex-app-server.ts`, `ws-unix-client.ts`, the worker above them | `MCHost` |
| `RuntimeProofs` | theorems about `ClaudeTurns` and `CodexTurns` | `tlapm` |
| `ConfigReload` | `store.ts`, the writers in `cli.ts` and `tui/app.ts`, `start`, `reload` and `stop` of the daemon, `host-daemon.ts` | `MCHost`, and a run of its own |
| `ConfigReloadProofs` | theorems about it | `tlapm` |
| `MCHost` | `DriverLink`, `ClaudeTurns`, `CodexTurns` and `ConfigReload` in one instance, one at a time | run `Host_run` |
| `HostProofs` | theorems about the four together | `tlapm` |

Conventions.  An action is what the event loop runs between two awaits, named
after the function or what becomes of it; `pc` (`wpc`, `dpc`) is the await a
function is suspended at; variables of a group called `durable` survive
`Crash`, the others do not.  Times are abstracted to the truth of the comparison
the code makes (`due`, `aged`).  A definition whose comment says *Mutant* is not
part of the model: it is a deliberately wrong variant of the definition after
it, which must break the property named in `PROJECT.json`.

### AuditOutbox

| TLA+ | code |
|---|---|
| `state`, `resume`, `due`, `attach` | columns `state`, `resume_state`, `next_attempt_at <= now`, `attachment_blob_keys` |
| `confirmed` | `blobs.hub_confirmed = 1` and `hub_blob_key` set: `markBlobConfirmed`/`markBlobUnconfirmed` write both |
| `snap` | the array `listDue` returned, still to be worked off; what matters of a stale row is the phase it resumes in |
| `pc`, `cur`, `from` | the await of `#process`, its event, its `resumeState` |
| `todo`, `missing` | the prepared blobs not gone through, and which of them carry an upload grant |
| `answer`, `late` | the Hub's answer to the append in flight; appends the client gave up on that still may arrive |
| `Record`, `Replay` | the transaction that ends `record()`; `outbox.replay` with some or all ids |
| `ListDue`, `Begin`, `Prepared` ... `AppendFails` | `#run`, `#process`, `#uploadBlobs`, `#append` and the catch block |

`Transition` is unconditional as in the code, so that nothing but the event
loop's order protects a row that a stale batch names.  The Hub is external: it
appends idempotently by event id, wants every blob of a new event, may refuse
the events in `Rejectable` for good, and may discard a blob no accepted event
references (`AUDIT_MISSING_BLOBS` exists because it can).  The steps between the
last upload and `#append` and between `markPendingAppend` and the append are
separate, since a crash may fall between two writes.

Abstracted: error codes to three outcomes (transient, permanent, missing
blobs), back-off lengths, the operator-facing status, attempt counts, and the
connection state, which only delays `ListDue` and fails calls.  `stop()` of the
worker ends it between two events, which is a special case of `Crash`.

### ChannelIngress

| TLA+ | code |
|---|---|
| `rows`, `spool`, `turns` | tables `events` and `runtime_turns`, files of the spool |
| `pc[c]` | the await the handler of connection `c` is at: `summary()`, `ingest()`, the gap between the two databases, writing the response |
| `Receive` | `handle` up to `record`'s first await: looks the key up |
| `HasCapacity`, `Ingest`, `Commit`, `CommitConflicts` | `record`: the second look-up, one await per attachment, the transaction with its UNIQUE key |
| `Enqueue`, `EnqueueFails` | `onAccepted` |
| `Reply`, `ReplyLost`, `RecordFails` | what the driver hears |

Two connections of one driver may be handling at once because a registration
replaces the entry in `#drivers` and merely half-closes the older socket.
`MessageOf` maps provider events to provider messages: the handler deduplicates
the former, the inbox the latter.  `broken` is a history variable: events whose
handler stopped between the two databases.

### ReplyDelivery

| TLA+ | code |
|---|---|
| `turn`, `response` | `runtime_turns` |
| `requested`, `outcome` | the two audit events of a reply, by their dedup keys |
| `action`, `stored`, `aged` | `delivery_outcomes`: state, `request_json`, `updated_at` five seconds ago |
| `wpc`, `item`, `text`, `apology` | `RuntimeWorker.#runTurn` and `#reply` under it; `apology` is the reply of the catch block |
| `dpc`, `list` | `#drainPendingDeliveries` |
| `calls` | requests sent to the driver, from `requestDriver` to the answer's arrival; `for` is who still waits |
| `driver`, `posts`, `twice` | the driver's `actions` table; what the provider accepted |

A turn is named by its number and its action is `act-<turn id>`, so the two
share an index.  A request whose sender gave up goes on at the driver, which is
what makes late answers and double posts possible.  `Disconnect` may lose frames
not read yet (any set of them), `DriverCrash` loses the handlers too, `Crash`
and `Stop`/`Stopped` end the daemon.  A reply in several parts is one
`ProviderPosts`; a part that fails is `PostFails` at `posted`.

### MeshConnection

| TLA+ | code |
|---|---|
| `disk`, `record`, `stray` | the key file; `IdentityKeyManager.#record`; a `.tmp` file of this process that a failed `set()` left |
| `holder`, `approved` | the key the Hub records for the identity: one of this host's, another host's, or none; its review |
| `pc`, `aborted` | the await `#run` and `connect()` are at; the abort signal |
| `mesh`, `socket` | `MeshClient.#status.state`, `#socket` |
| `sock`, `heard`, `mine` | every WebSocket alive, whether `connect()` has hung its listeners, and the one `connect()` awaits |
| `call` | `#pending`, by the WebSocket each caller sent on |
| `EnsureLoads` ... `Confirm` | `#run` up to `connect()`: key, lookup, create-only registration, read-back |
| `Connect`, `Opens` ... `HelloFails` | `connect()` around its two awaits |
| `CloseEvent`, `UnheardClose` | a close with and without the listener; the listener is `#handleClose`, whichever WebSocket it hangs on |
| `WatchEnds`, `Retry`, `ConflictEnds`, `Stop` | the rest of the loop, and `stop()` |

A number in `Socket` stands for a WebSocket object and is used again, lowest
first, when it is closed and no call refers to it.  A process generates one key
at most, so keys are numbered by processes.  The Hub is external: it may know
the fingerprint from another identity and then answers 2xx without recording
anything (`ProvisionIgnored`, the case `lane-hub-connection.ts:131-136`
describes), and another host may take the identity at any time (`Claim`).  An
answer other than the ones named (a Hub error, an ambiguous 404, a timeout) ends
the attempt, as `LookupFails` and `ProvisionFails` do.  The delivery of
`mesh.message`, the status for operators and the length of the back-off are left
out; a retry is possible at any time.

### DriverLink

| TLA+ | code |
|---|---|
| `up` | the daemon: running, in `stop()` of its supervisors, in `LaneServer.stop()`, gone |
| `child`, `due`, `kin` | `#child`, `now >= #nextStartAt`, the processes this daemon spawned |
| `proc` | a process; `exited` until the callback of `child.exited` has run |
| `loop` | the await of `DiscordDriver.#run`: connecting, registering, a REST call, a gateway session, the retry delay; `stuck` is a REST call that outlives the abort |
| `sock`, `wire`, `served` | the client's `#socket`, the connection itself, the server's `DriverConnection`: each end hears of the end by itself |
| `drivers`, `latest` | the entry of `#drivers`, and which connection registered last |
| `Maintain`, `ReadStatus`, `ExitHeard`, `BackoffEnds` | `maintain()`, the getter `status`, which drops an exited child, the exit callback and the back-off |
| `Dial` ... `RegisterTimesOut`, `Disconnected` | `ChannelDriverClient` |
| `Register`, `CloseHeard` | `LaneServer.#process` for a registration, the close listener |
| `GatewayOpens` ... `RetryDelayOver` | `#run` and `#gatewaySession` as far as they decide when the loop connects again |
| `StopDaemon`, `Abort`, `Kill`, `StopServer`, `ServerClosed`, `CrashDaemon` | the ways down |

A process or connection number is used again when nothing refers to it.  What
ends a session, and which REST call fails, is nondeterministic.

### ClaudeTurns

| TLA+ | code |
|---|---|
| `session` | the tmux session: none, showing start-up prompts the daemon is answering (`gates`), showing one nobody answers (`asking`), or on |
| `row`, `born`, `recorded` | `runtime_turns`: state, `created_at`, `response` |
| `claimed`, `notified` | what the MCP server's poll has claimed and what Claude was told |
| `calls` | `runtime.reply` handlers at `await mesh.send` |
| `kept` | what the Hub keeps under `runtime-<turn>` |
| `Reply`, `HubKeeps`, `Sent`, `SendFails` | the handler up to its await, the Hub, and the two ways on |
| `GatesEnd`, `PersonAnswers`, `RuntimeStart`, `SessionExits`, `RestartDaemon` | `#confirmStartupGates`, an operator, `runtime.start`, the end of the session, a new daemon |

The handler checks `RUNNING` before its await and completes the turn after it
whatever the turn is by then, so a `runtime.fail` or a second reply falls in
between.  A restart of the daemon makes RUNNING turns PENDING again and keeps
the session if the process died, or ends it (`stop()`); a session that is there
is taken as it is, prompts included.

### CodexTurns

| TLA+ | code |
|---|---|
| `server`, `codex`, `linked`, `socket` | child processes, `#child`, sockets whose close was not heard, `#socket` |
| `ready`, `start`, `via` | whose start `#ready` is; what the `#start` of `warmUp()` and of `run()` waits for (the process, the socket file, the upgrade, `initialize`); the connection each waits on |
| `run`, `job`, `thread` | the await of `run()` and of the worker above it, its turn and thread |
| `warming`, `warm` | `warmUp()` and `#warmThread` |
| `active` | `#active`: the turn id notifications are matched with, `lastAgentMessage`, and what it was resolved with |
| `conv`, `threads`, `playing` | the conversations stored, the threads opened, the turns the app-server runs, an attached operator's included |
| `early` | history: the jobs that took a message or the end of another turn for theirs while their turn id was not known |
| `Boot`, `Bind`, `Upgrade`, `Initialize` and their failures | `#start` and `#connectSocket`: 15 s of polling for the file, the WebSocket upgrade, `initialize` with its 30 s |
| `Resumed` ... `Started`, `RequestFails` | the requests of `run()` with their 30 s timers |
| `ItemCompleted`, `Completed` | `item/completed` and `turn/completed`, matched by the turn id or, without one, by the thread; the latter falls back to the message of the former |
| `Returns`, `Deadline`, `Interrupted`, `Replies` | the end of `run()`, the turn's timeout and its interrupt; the worker keeps the conversation once the reply went through |
| `Exit`, `ExitEvent`, `SocketCloses` | the end of a server and the two events that tell of it; both fail every pending request and the active turn, whichever server they are of, while a start that polls for the file goes on polling and one that waits for the upgrade goes on waiting |

The upgrade alone has neither a timer nor a close handler
(`ws-unix-client.ts:111-152`), so a server may answer it, refuse it or leave it,
and nothing obliges it.

### ConfigReload

| TLA+ | code |
|---|---|
| `file`, `doc` | the configuration file; what each operation loaded |
| `at`, `held` | the await of each operation (a writer's edit and reload, or the daemon's start and stop), and the thing whose end it awaits |
| `daemon.hub`, `.lane`, `.entry` | `#config.hub`, the controller, and the maps of workers, supervisors and lanes |
| `daemon.things` | what really runs, in the maps or not |
| `Load` ... `AskAgain` | `mutateConfig`, the commands and screens that edit, `reloadIfRunning`, `daemon reload` |
| `Reads`, `Decides`, `TakesDown`, `Stopped`, `Applies`, `SyncStopped` | `reload()` and `#syncChannelSupervisors` |
| `Created`, `Listens`, `Added`, `Spawned`, `CreateFails` | `#createController`, `HostDaemon.start`, `addLane` and what follows |
| `Start`, `Stop`, `Closed`, `KillDaemon` | the daemon as a whole |

One lane with one channel: a lane is the same lane when its configuration
without channels is unchanged (`Core`), as in `reload()`.  Operations of the
daemon overlap at every await, as the code lets them.  `overlapped` is a history
variable: the daemon that runs was asked for something while it was busy with
something else.  `ReloadApplies` and `NothingStray` speak of a daemon until then,
and of the next one however the last one ended; what an overlap does is shown
by `ConfigReload_overlap`.

### MCHost

The four modules share no variable that changes: what one relies on of another
is in its environment (a driver that exits, a session that ends).  `MCHost`
declares them together, and each behaviour is of one `part`; that it is then a
behaviour of every part is `HostRunsItsParts` of `HostProofs`.  It bounds two
parts further, `CodexBound` and `ReloadBound`, see section 3.

## 3. Runs

| run | instance | shows |
|---|---|---|
| `AuditOutbox_safety` | 2 events, 2 blobs (symmetric), both events refusable, 1 discarded blob, 1 crash | the safety invariants, and that `AuditDelivery` is implemented |
| `AuditOutbox_live` | 3 events, batches of 2, 1 blob, event 2 refusable, event 1 may never be answered; 1 discarded blob and 1 crash in the behaviours of up to 2 events | `AnsweredSettle`: every event the Hub answers is settled in the end, or blocked by one that is quarantined or never answered, or crowded out by such ones |
| `AuditOutbox_stuck` | 2 events, 1 blob, event 1 refusable, 1 discarded, 1 crash | violates `EverySettles`, see 6 |
| `ChannelIngress_safety` | 2 connections (symmetric), 3 events of 2 messages, 4 requests, 1 crash, failing inbox | the safety invariants, and that `IntakePromise` is implemented |
| `ChannelIngress_lost` | 1 crash | violates `AcceptedReachesRuntime`, see 6 |
| `ReplyDelivery_safety` | 2 turns, 2 answers (symmetric), 1 loss, 1 restart, failing audits | the safety invariants, `SilentAfterSuccess`, and that `ReplyPromise` is implemented |
| `ReplyDelivery_live` | 3 turns, a list of 2 actions, the first of a removed driver, 1 loss or 1 restart | every turn settles, every other action is delivered although the list leaves some out, a delivered turn is completed unless a restart intervened |
| `ReplyDelivery_twice` | 1 turn | violates what the protocol document says, see 6 |
| `MeshConnection_run` | 3 WebSockets, 1 caller, 1 restart, 1 disk failure | the safety invariants, that the key on the disk is never replaced, that `stop()` returns, and that an approved lane is connected after the last outage unless a mute connection is in the way |
| `MeshConnection_mute` | 2 WebSockets, 1 caller, 1 restart, 1 disk failure | violates `ConnectsAfterOutage`, see 6 |
| `Host_run`, part link | 2 processes, 2 connections, 1 end of the daemon, 1 exit | `NewestIsActive`, `OneChild`, and that a channel's driver is registered again and again |
| `Host_run`, part turns | 2 turns, one of them an answer, 2 texts, 4 faults | `CompletedIsKept`, and that a waiting turn ends |
| `Host_run`, part codex | 2 turns of one context, 2 servers, 2 threads, 1 break or 1 turn of an operator | `AnswerIsOwn`, and that `run()` ends unless a server leaves the upgrade unanswered for ever |
| `Host_run`, part reload | 2 writers, 2 Hubs, 2 lane configurations (one of Claude), 2 channels, 2 edits, 1 failure, up to the first overlap in a daemon | `ReloadApplies`, `NothingStray` |
| `ConfigReload_overlap` | the same with 1 channel, no failures, and past overlaps | violates `FileAlwaysApplied`, see 6 |

Bounds and why they suffice.  In the safety run of the outbox `NEvents = 2` gives
the interactions of an event with another of the same batch, which is what the
code shares (the batch and the blobs); a third event adds no new pair, and the
proofs of section 5 have no bound.  Whether the LIMIT of `listDue` cuts matters
to liveness: `AuditOutbox_live` has three events and batches of two, so that the
youngest waits for a place, and the one event that may never be answered takes
one of them for ever.  As many such events as the batch has places would keep the
younger ones out, 20 in the code, where they are back each time their back-off
is over; `AnsweredSettle` excepts that (`Crowded`).  `MaxMishaps = 0` leaves the
behaviours that record all three events without crash and discarded blob: those
two meet with one other event, not with the cut.
In `ReplyDelivery_live` the first turn's action is pending for a removed driver
from the start (`Undelivered`, a state the lane reaches from `Init`), so one
place of the list of two is taken and the other two turns compete for the other;
`OneMishap` bounds it to a loss or a restart, and the safety run has both.
`MaxForgets`, `MaxCrashes`, `MaxLosses`, `MaxRestarts` bound the environment,
one or two of each, enough to hit each await once; `MaxSends` bounds the
requests of a driver to one original and redeliveries over both connections.
`NSlots = 2` lets the worker's and the drain's request be under way together; a
third request waits for a free slot, which only delays it.  `NSockets = 3`
has one WebSocket in use, one that was given up while it opened and one that is
closing, which are the ways two can meet; `MaxDiskFaults` bounds the failing
`set()`s, and a stray temporary file makes later ones fail without a bound.  All
callers are alike to the client, and the invariants over them are proved for any
number.  In `Host_run` two processes, connections and servers are the old one and
the new one, which is how a late exit or close meets its successor; two turns of
one context share a thread; four faults are a session that ends, a restart, a
failed turn and one more; two edits are one that races the other, and each may
follow any earlier document.  `CodexBound` has a break or an operator's turn in a
behaviour, the latter beside one job: an operator's turn is mixed up with one job
at a time.  `ReloadBound` follows a daemon in which two requests met only to its
end, from every state in which they can meet: the invariants are silent about
the rest of it.  Deadlock is not
checked: when every event is settled, every turn answered and the bounds are
used up, the system rests.

## 4. Fairness

* The loops of the audit worker (1 s), the runtime worker (250 ms), the drain
  (1 s) and every handler that has started run on: weak fairness of their next
  step.  They are promises and timers of one event loop; each await they are at
  ends by a result, an error or a timeout (30 s for calls, the upload timeout
  for PUTs, the turn timeout for a runtime).
* Time passes: weak fairness of `BecomeDue` and `Age`.
* Outages end: from some time on the calls for an event that is not `slow`
  succeed (`<>[][Fails => cur \in slow]`), which is the recovery `AUD-002` speaks
  of; before that they may fail any number of times.  Of a slow event nothing but
  the timeouts is assumed, so each of its attempts fails.  The operator does not
  replay quarantined events for ever.
* A lost driver comes back: weak fairness of `Reconnect`.  The driver's own loop
  reconnects when its gateway session ends (Discord asks for it, or an inbound
  message fails on the dead lane socket and rejects the session), and
  `ChannelProcessSupervisor` restarts it when it exits.
* A daemon that was stopped is started again, so `Stopped` leads to a new run.
* The mesh connection: weak fairness of the loop's steps when its requests are
  answered, of a WebSocket that opens, of the close of one that is closing, and
  of the end of a call, which has a timer.  `<>[][~Outage]_vars` says that
  outages end: from some time on no request fails, no open connection is lost,
  and a close that was asked for comes before the back-off (a second at least)
  is over.
* The driver link: timers fire (`maintain()` each second, the back-off, SIGKILL
  5 s after SIGTERM, the retry delay, the 30 s of a registration); the event
  loops of server and driver hear what happened to their sockets; messages keep
  coming while a gateway session is open.  That a session ends or a REST call
  succeeds is not assumed: it is the message that finds no connection that ends
  the session.
* Claude turns: the MCP server polls each 500 ms and tells Claude; Claude answers
  what it is told; the Hub answers, and an outage ends (`<>[][~SendFails]`); the
  30 s of the start-up prompts pass.  A person who answers a prompt is not
  assumed, nor that a session that ended is started.
* Codex: every request has a 30 s timer, the turn a deadline, and the polling for
  the socket file ends after 15 s; an exit is heard.  That anything succeeds is
  not assumed, and of the upgrade nothing at all: a server that is alive may
  leave it unanswered.
* Nothing obliges a crash, a refusal, a loss, an operator or a new message.

## 5. Proofs

`AuditOutboxProofs` proves, from `OutboxAssumption` alone (any number of events
and blobs, any limit, any bounds):

* `OutboxInvariant`: `Spec => []IInv`, and from it `OutboxTypes`,
  `AckedOnlyAtHub`, `SnapshotNeverStale` and `UploaderRemains`;
* `OutboxRefinesDelivery`: `Spec => DeliverySpec`, by `InitRefines` and
  `StepRefines` under the invariant.

Why a strengthening is needed: `SnapshotHolds` alone is not inductive, because a
step of `#process` writes its row unconditionally; that this row is not named by
the rest of the batch, is still waiting, and is in the phase `#process` believes
is `CurrentWaits`.  `UnconfirmedHasUploader` is kept by `Uploaded` only because
an event that moves to its append has confirmed every blob it has in the very
pass (`UploadProgress`).  `AckedAtHub` needs `AnswerTrue`: an `ok` in hand means
the Hub holds the event.  `RowsExist` ties row numbers to states.  The step
lemma has one step per action and, where an action disturbs more than one part,
one per conjunct.  The runs check what `IInv` implies; to try a change of the
model before its proof, add `IInv` to the INVARIANTS of `AuditOutbox_safety.cfg`
(and likewise for `ChannelIngress` and `MeshConnection`).  The refinement maps `ACKED` to delivered, `DEAD_LETTER` to
quarantined, the other states to queued, and `hubEvents` to accepted; `Deliver`
needs `AnswerTrue` again, and every change of phase is a stutter.

`ChannelIngressProofs` proves, from `IngressAssumption` alone (any number of
connections, provider events, messages and attachments, however shared),
`IngressInvariant` and from it every safety invariant of the run.
`AcceptedIsDurable` needs what a handler is about to answer (`FoundIsCommitted`)
and the order of `record()` (`IngestProgress`, `RowsHaveBlobs`); `SameAnswer` is
`AcceptedIsDurable` with `OneRowPerEvent`, which the second look-up and the
UNIQUE key keep; `AcceptedHasTurnUnlessBroken` needs `RowsPublished`, and there
the guard of `Receive` is used: a duplicate is not looked up while another
handler is between its commit and `onAccepted`, or it could be answered before
the turn is queued.  `InsertStep`, `LeaveStep`, `ProceedTypes` and `EnqueueTurns`
say once what several actions share.

`IngressKeepsPromise`: `Spec => IntakeSpec`.  `IntakePromise` has five steps: an
attachment is stored, an event is recorded once, with its attachments and under
the next number, its message is queued once and as a turn of that row, a handler
stops, and the driver is told of a row, of a queued message or of one whose handler
stopped.  Rows, turns and files are mapped to themselves and `broken` to
`stopped`; what the driver was told is `answered` without the flag `duplicate`.
Every await of a handler is a stutter but the ones that write.  `Commit` is
`Record` because its attachments were ingested (`IngestProgress`), `Enqueue` is
`Queue` because the row in the handler's hands is that of its request
(`FoundIsCommitted`), and `Reply` is `Accept` by `RepliesPublished`.  A crash is
`Stop` of the rows whose handlers it ends.

`MeshConnectionProofs` proves, from `ConnectionAssumption` alone (any number of
WebSockets, callers, restarts and failing writes), `ConnectionInvariant` and from
it every safety invariant of the run.  A step is looked at once for the types
(`TypeStep`), once for the key (`KeyStep`) and once for the sockets
(`SocketStep`).  `ConnectsWithOwnKey` and `KeyIsKept` are not inductive:
registration records `record`, which must exist by then and be on the disk
(`HasKey`), and a new key must not replace another one on the disk, which is the
clause on `saving`.  That keys differ from one process to the next needs
`OneKeyPerProcess`.  `ConnectedIsAlive` is kept by `HelloAccepted` because the
answer to `mesh.connect` can only arrive while the WebSocket it was sent on is
still `#socket`, open and listened to (`HelloIsCurrent`); any close before that
fails the call.  `NobodyWaitsOnClosed` needs `CalledWasOpen`: a WebSocket that
is still opening carries no call.  `KeyStays`: `Spec => KeyIsNeverReplaced`
needs one more clause of `HasKey`, that a process which has a key while there is
one on the disk has that one: only then does the `set()` of `saving` find no key.

`ReplyDeliveryProofs` proves, from `ReplyAssumption` alone (any number of turns,
of requests under way, of losses and restarts), `ReplyInvariant`, from it every
safety invariant of the run, and `NoPostAfterSuccess`: `Spec => SilentAfterSuccess`.
The invariant has one part for the tables, one for the worker, one for the drain
and one for the requests.  `AuditedAround` is kept by `WorkerAnswered` because an
answer in the hands of a sender is true (`CallInv`) and is for the turn the
sender is at; that in turn needs that a sender has one request at most.
`CompletedWasPosted` is `AuditedAround` with `RowsAgree`; `RunningIsWorked` needs
that the error reply goes out for a turn that is not RUNNING (`WorkerAt`).
`CallsFollow` says once what answers, timeouts and cut connections share.  For
`NoPostAfterSuccess`, `PostsOnArrival` goes through all steps: only `Arrive` begins
a post.

`RepliesKeepPromise`: `Spec => ReplySpec`.  `ReplyPromise` knows of no worker, drain
or driver; of each reply it has the state of its turn, the intent on record, the
texts the provider took, and whether the lane knows it delivered and has its
outcome on record.  The rows of the inbox are mapped to the state, `requested` to
the intent, actions that are `SUCCEEDED` to the delivered ones, and recorded
outcomes to the audited ones.  Requests, answers, timeouts and lost connections
are stutters.  `Deliver` is an answer `WorkerAnswered` or `DrainAnswered` acts on:
that a message was posted is `CallInv` with `AuditedAround`.  `Complete` is the
confirmation of either, and needs that the action is `SUCCEEDED` by then and that
outcome and row are written in one step (no await lies between them); the one
that comes second changes nothing.  `Intend` and `Fail` need that the turn in the
worker's hands was taken (`WorkerAt`: its row is not PENDING), and `Intend` that
only the first `record()` of its key changes anything.  That a turn can go from
completed to failed is in the promise because the code does it: the worker's
catch block does not know of a drain that completed the turn meanwhile.

`DriverLinkProofs` proves `NewestStaysActive` and `NoChildIsLost`; the two
properties with the types are inductive.

`RuntimeProofs` proves `CompletedStaysKept`, of `ClaudeTurns`.  `CompletedIsKept`
speaks of turns to which Claude gave one answer; what is inductive is that whatever
is recorded or kept was given (`CallsWereGiven`, `KeptWasGiven`, `CompletedHasBoth`).

It also proves `AnswersAreOwn`, of `CodexTurns`.  `CodexInv` has one part for the
processes and sockets, one for the starts, one for the threads and turns, and
`RunnerInv` for `run()`; a step is looked at once for each (`AppStep`,
`StartStep`, `WorldStep`, `RunnerStep`).  Notifications are matched with
`#active.id` and what they bring is kept, so the strengthening `ActiveIsOwn` is
that this id is the job's or null, and that the last message and the result are
the job's unless it is in `early`; `RunnerWorks` says that nothing is active
between jobs.  `FailAllKeeps` and `StartFailsKeeps` say once what the many failing
steps share.

`ConfigReloadProofs` proves `FileIsApplied` (`Spec => []ReloadApplies`) and
`NothingIsLost` (`[]NothingStray`) for any number of writers, edits, failures and
documents, and however requests overlap; nothing is assumed of the operator.
`ReloadInv` has a part that overlaps do not disturb, `ReloadTyped`: the types, that
what runs is a finite set, and that a lane is being created only for a document
that has one (`TypedStep`, with `Goes` for what the actions share).  Until two
requests meet, it has besides:

* `Sequential`: one operation is at an await, and `Progress` says how far it is
  there: which parts are down by now (those before the awaited one in `Parts`),
  which are up (`Begun`), and that the daemon's maps name everything that runs
  (`Known`); when none is, what runs is whole (`Whole`): the parts the lane in the
  controller asks for, each under its key;
* `Heard`: once the daemon has read what was saved last, the operation works with
  that document, and what runs when it is done is what the document asks for, or
  the lane could not be created.

Each start of the daemon and each end of it establishes these two again, whatever
an overlap left behind (`FreshStep`).  Every action ends in an await or in rest,
so one notion, `Lands`, says that what it leaves is right for the document;
`SyncedLands`, `AppliesLands` and their neighbours prove it of the functions the
actions share, and the step lemmas only combine them.  `FreeNumber` is pigeonhole:
a finite set leaves a number between 0 and its size to spare for the next thing
that starts.

`HostProofs` proves `HostRunsItsParts`: `HostSpec` implies the specification of each
of the four parts, so every theorem above about a part holds of the host
`Host_run` checks.  `HostTypes` and `HostIsSafe` draw that conclusion for the types
and for the six safety properties of the run.

All theorems hold for any number of turns, processes, connections, threads, texts
and documents, and every invariant and action property of the passing runs is
stated by one.  Model-checked only: what is about liveness (`AnsweredSettle`,
`TurnSettles`, `DeliveredInTheEnd`, `DeliveredIsCompleted`, `ConnectsUnlessMute`,
`StopReturns`, `DriverReturns`, `TurnEnds`, `RunEnds`), since fairness and ENABLED
are outside the prover's reach.

## 6. Where the code and its documents differ

* `AuditOutbox_stuck`.  Two events share an attachment.  One is told
  `AUDIT_MISSING_BLOBS`, which unconfirms the blob, and is then refused for
  good.  The other waits at its append: `#append` throws `Blob was not
  confirmed` before it sends anything, the catch block schedules a retry of the
  append, and no attempt ever prepares the blob again, although `AUD-002` wants
  un-ACKed events retried after recovery.  An operator's replay of the
  quarantined event is the only way out (`UnconfirmedHasUploader` says that
  there always is one).
* `ChannelIngress_lost`.  A crash between the outbox commit and the runtime
  queue loses the turn: the redelivered event is answered `accepted,
  duplicate` without `onAccepted`, and start-up does not look for committed
  events that have no turn (`docs/outbox.md`, section 4, steps 6 and 7; AT-005).
* `ReplyDelivery_twice`.  The drain resends an action after five seconds while
  the worker waits up to thirty, and the driver treats only `SUCCEEDED` actions
  as duplicates: a slow post is enough for two messages
  (`docs/local-channel-protocol.md`, section 6; CHAN-004).
* `MeshConnection_mute`.  `connect()` gives an opening up after 15 s and leaves
  the WebSocket in `#socket`.  When it opens after all, nobody listens to it and
  `mesh.connect` is never sent, yet every later `connect()` returns at once
  because `#socket` is open: the lane stays unconnected until the peer closes
  that connection (`AUD-002`, AT-007).
* `ConfigReload_overlap`.  `start()`, `reload()` and `stop()` work on the same maps
  and nothing keeps them apart.  The control socket listens before `start()` has
  added its lanes: a `config.reload` that drops the lane in that window ends its
  controller, and `start()` adds its socket all the same, so a lane runs that the
  file no longer has (`docs/control-plane.md`, line 17).  Two reloads, or a reload
  and `stop()`, leave supervisors behind in the same way.

Noticed while modelling, without a run of its own:

* The error reply goes out under the action id of the answer, whose intent
  `record()` keeps (`worker.ts:104`): what is posted may differ from the intent
  recorded (`docs/local-channel-protocol.md`, section 6).
* An inbound call that fails leaves the earlier gateway WebSocket open; its close
  later clears the heartbeat of the newer session (`discord.ts:202`).  Staged files
  are deleted before the ACK (`discord.ts:292`).  The driver registers again only
  when a message or the end of a session makes it, while section 8 of the
  protocol document has it reconnect.  A `stop()` during the REST call for the
  gateway hangs until SIGKILL, and a daemon that dies leaves its drivers running.
* `LaneServer.stop()` destroys registered connections only and waits for the
  others.
* The response recorded for a turn can differ from the one the Hub delivers when
  Claude replies twice with different texts, which is why `CompletedIsKept` is
  qualified.  A turn whose session ended stays RUNNING until the daemon restarts,
  and start-up prompts a daemon was answering when it died are left on screen,
  both exempted by `TurnEnds`.
* While the adapter does not know the id of its turn, any turn on the thread is
  taken for it (`codex-app-server.ts:369,392`).  A `turn/completed` of an operator's
  turn, or of one that timed out, then ends the run with the other's text; an
  `item/completed` leaves its text in `lastAgentMessage`, and the own completion
  returns that text when it carries no agent message (`:402`), long after the id
  is known.  So the response the daemon routes is not always the one to that
  message (`README.md:181`).  `AnswerIsOwn` excepts these jobs, and only these
  (`early`); without the exception TLC finds a counterexample.
* A server that leaves the WebSocket upgrade unanswered, closes the connection
  without an error or exits in the middle of it leaves `run()`, and the worker
  above it, waiting for ever: `connectWsUnix` has no timer and no close handler
  (`ws-unix-client.ts:111-152`), and the deadline of the turn is looked at only
  after `turn/start` (`codex-app-server.ts:241`), though
  `docs/runtimes/codex.md:13` has a timeout end the turn.  `RunEnds` excepts a wait
  for the upgrade that lasts for ever, and no other wait.
* The exit or close of an earlier server fails the current turn
  (`codex-app-server.ts:313,495`), and the start of an earlier one that gives up
  clears `#ready` of a newer one (`:285-286`).
* Pending actions of removed drivers are passed over by the drain
  (`agent-mesh-daemon.ts:414`) and never leave its list of the 20 oldest
  (`lane-outbox.ts:510-521`): 20 of them keep every younger action out, and a reply
  whose request was lost is not sent again although its driver is connected
  (`README.md:181` promises that the daemon routes it).  `DeliveredInTheEnd` excepts
  that (`Starved`): as long as one place is left, every action gets it.
* `start()` that cannot add a lane closes the control socket and leaves the
  connections to the Hub; an edit saved while the daemon is between reading the
  file and listening is not applied until the next reload; `requestControl` never
  settles if the daemon dies in the middle of a request; the revision of the file
  is not compared, so the later writer wins; `lane remove` does not retire the
  ids of channels.
* The close listener does not look whose close it is (`mesh-client.ts:87,199`).
  The late close of an older WebSocket takes `#socket` away from the newer one
  and fails its calls; the newer one stays open, referred to by nobody, while
  `#run` opens a third.
* `stop()` while `#run` looks the identity up or registers it closes nothing:
  `connect()` follows, and the loop then ends with a WebSocket open.
* A failed `SecretStore.set` leaves its temporary file, and the next `set()` of
  the same process fails because the file exists.  `ensure()` does not write
  again what it has in `#record`, so the key is registered and used, and lost
  with the process: `KeyIsKept` is qualified by `unsaved` because of this.

A difference no run is about: `docs/outbox.md`, section 5, says that the audit
path treats unclassified codes as transient, while `audit-worker.ts:170-183`
leaves it to `errorClassOf`, which takes unknown codes of the mesh's own range
as permanent.

## 7. Not modelled, and what could follow

In this order:

1. `IntakePromise` and `ReplyPromise` in one composition, from a provider's event to
   the reply to it: the turns the one queues are those the other takes.
2. `ConfigReload` with several lanes.
3. Pure algorithms against reference definitions: `Framing` (NDJSON),
   `RingBuffer`, back-off functions, message chunks, identifiers.
4. Two managers of one identity beside `MeshConnection`; conversations and their
   reset; heartbeats and the resuming of a gateway session.

Left out for good: the Antigravity runtime (one process per turn, whose outcomes
are `Runs` and `RunFails` of `ReplyDelivery`), screens and the parsing of commands
beyond what they do to the configuration, service files, the text of a tmux pane,
observers and read-only control methods (input and output without protocol
state); cryptography, canonical JSON and redaction (string work whose errors a
unit test does reach); attachment path checks (a pure predicate on the file
system).
