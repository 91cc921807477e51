# TLA+ models of the daemon-IDE agent host

daemon-IDE is a fork of VS Code with a Solana tool set. Most of its files are
VS Code itself; the part with the hardest state of its own is the **agent
host** (`src/vscode/src/vs/platform/agentHost`): a process that owns the state
of all agent sessions, keeps any number of clients in step with it, and drives
agent backends whose calls and events overlap. Around it the models cover the
handler that shows agent sessions as chats, the service of the workbench that
connects to remote agent hosts, and the Solana chat under
`src/vscode/src/vs/workbench`: the model provider's loop, its paid requests
(x402) and the MCP tool router.

Paths below are relative to `src/vscode/src/vs/platform/agentHost/` unless they
start with `src/`.

## 1. Inventory

| Component | State | Operations | What makes it correct |
|---|---|---|---|
| Session reducer, `common/state/protocol/reducers.ts` | one `ISessionState`: lifecycle, turns, active turn with its response parts, steering message, queue, metadata | one case per action type | history is final; a tool call follows its life cycle; queue ids are unique; a reorder loses nothing |
| State manager, `node/sessionStateManager.ts` | session states, `_activeTurnToSession`, root state, `_serverSeq` | create, restore, remove, dispatch | turn tracking and the root count (sessions with a turn in progress) agree with the states |
| Side effects, `node/agentSideEffects.ts` | `_toolCallAgents`, event mappers | `handleAction` for client actions, the progress listener for agent events | every started turn reaches the agent and ends; confirmations have a route; the queue drains |
| Event mapper, `node/agentEventMapper.ts` | open text part per session and kind | `reset`, one case per event | text goes to a part of the active turn |
| Agent service, `node/agentService.ts` | session to provider map | create, dispose, subscribe, restore, dispatch | sessions exist exactly from creation to disposal, also across the awaits |
| Copilot agent, `node/copilot/*.ts` | SDK client, sessions by id, pending permissions, active tool calls | send, steer, abort, resume, permission requests | one live SDK session per id; no client is left without being told to stop; a permission request is answered once |
| Protocol server, `node/protocolServerHandler.ts` | clients, subscriptions, replay buffer, reverse requests | initialize, reconnect, subscribe, broadcast | each client sees every action it is subscribed to once, in order |
| Client state, `common/state/sessionClientState.ts` | confirmed and optimistic states, pending actions | snapshot, optimistic action, envelope | optimistic = confirmed + pending; converges to the server's state |
| Plugin manager, `node/agentPluginManager.ts` | nonces, LRU order, cache file, directories | sync, copy, evict, persist, load | a directory handed out holds the plugin; at most `maxPlugins` |
| Session restore and database, `node/agentService.ts`, `node/sessionDatabase.ts` | turns on disk | restore, persist | a restored session has one live SDK session, which its disposal destroys |
| Remote hosts and SSH, `electron-browser/remoteAgentHostServiceImpl.ts`, `node/sshRemoteAgentHostService.ts` | connection entries, back-off timers, waits | reconcile, connect, reconnect, add, remove | one live client per address; a wanted host stays connected or has a way to it; waits on a promise in the map are answered |
| AI provider, MCP router, chat loop (`src/vscode/src/vs/workbench/services/aiProvider`, `.../contrib/chat/browser/solanaIdeLanguageModel.contribution.ts`) | recent payment signatures, requests under way | request, paid retry, tool call | no signature twice; no question waits for good; what is paid is answered |
| Chat session handler, `src/vscode/src/vs/workbench/contrib/chat/browser/agentSessions/agentHost/agentHostSessionHandler.ts` | invocations on screen, pending requests, last turn seen | start and observe turns, confirm tools, sync the queue | each turn is followed once and each waiting call asked about; what the user did is what is dispatched; the queue follows the chat's list |
| Wallet (`.../contrib/solanaWallet`) | wallet list, secrets, active alias | generate, import, remove | every listed wallet has its secret |

How they interact: a client sends an action over the protocol server; the agent
service applies it through the state manager, which runs the reducer and emits
an envelope to all subscribed clients, and then hands it to the side effects.
The side effects call the agent, without waiting for it. The agent's events come
back through the progress listener, are mapped to actions for *the turn that is
active when they arrive* and applied the same way. Clients run the same reducer
on their own copies.

What is hard: the calls to the agent are not awaited and may fail late or
overtake one another; events name a session, not a turn; clients act on views
that are behind; a session may be disposed at any time; and several parts
(tracking, routing, mapper, permissions) duplicate facts of the session state
that have to stay in step with it. Inside the Copilot agent every operation is
an async function, and several of them may be anywhere between their awaits; the
same holds for plugin copies, remote connections and the chats that share one
quick input.

The full hazard list, each at its line and with the properties about it, is in
`PROJECT.json`.

## 2. Modules

| Module | Models |
|---|---|
| `SessionReducer` | the reducer as operators: `Reduce(s, a)` is `sessionReducer`, with one operator per helper and case |
| `ToolCallLifecycle` | abstract specification of tool calls: the states of `ToolCallStatus` and the edges the protocol documents |
| `ReducerMachine` | one session to which every action may be applied at any time |
| `SessionHost` | state manager, side effects, mapper, and the agent as far as its calls and events overlap |
| `Subsequences` | filtering of a sequence, in a form that can be proved about |
| `ReplicatedLog` | abstract specification of a log whose copies follow it |
| `ProtocolSync` | protocol server, connections and the client's state: how clients keep up with the host |
| `CopilotSessions` | Copilot agent and agent service: the SDK client, and creating, resuming, refreshing, restoring and disposing of sessions |
| `PluginCache` | plugin manager: copies, nonces, LRU order and cache file |
| `RemoteHosts` | remote agent host service of the workbench |
| `AgentLoop` | Solana chat: loop of requests and tool calls, paid requests, tool approvals |
| `ChatSessionHandler` | chat of the workbench on one agent session: who follows which turn, tool questions, the queue, stopping |
| `MCReducer`, `MCSessionHost`, `MCClients`, `MCServices` | the instances that TLC checks, liveness, and claims of the documentation |
| `SessionReducerProofs`, `ReducerMachineProofs` | proofs about the reducer: one action, and any sequence of them |
| `SessionHostProofs` | proofs about the host: types, tracking and the mapper; turns, queue, steering, runs and permissions |
| `SubsequenceLemmas`, `ProtocolSyncProofs`, `CatchUpProofs` | induction over numbers and sequences; proofs about the protocol: types, registration and single views; what reaches clients |
| `HandlerProofs` | proofs about `ChatSessionHandler`: turns followed, questions asked, the queue mirrored |
| `ServicesProofs` | proofs about `CopilotSessions`, `RemoteHosts`, `AgentLoop` and `PluginCache` |

`ReducerMachine`, `SessionHost` and `ChatSessionHandler` use `SessionReducer`; `ReducerMachine`
implements `ToolCallLifecycle` and `ProtocolSync` implements `ReplicatedLog`.
`CopilotSessions` opens up what `SessionHost` has as one call in `calls`: the
awaits of `sendMessage` before the agent takes the message. `PluginCache` opens
up what `CopilotSessions` has as the two ends of a plugin sync. `ChatSessionHandler`
is the code behind the clients that `SessionHost` leaves free to do anything, on
a channel like that of `ProtocolSync` while its connection holds.

### SessionReducer

A session is a record with the fields of `ISessionState`. Texts are members of
small sets; a streamed text is the sequence of its chunks, so that a lost or
misplaced chunk would be seen. Title, model and server tools are last-writer-wins
fields of no consequence to other fields and share one action, `metaChanged`.
`queuedMessages` being absent and being empty are both the empty sequence: no
case of the reducer or of its callers tells them apart.

`UpdateToolCall` is `updateToolCallInParts` (reducers.ts:100-132); its third
argument is the updater. `AppendText` replaces `updateResponsePart`, which
changes the first part with an id: ids of text parts are fresh uuids, so there is
only one. `Reordered` states the result of `queuedMessagesReordered` by a sort
key; `CodeReordered` in `ReducerMachine` is the two passes of the code, and
`ReorderIsStable` compares them.

Left out: `toolCallDelta` (the partial input of a streaming call), display
texts, cancellation reasons, time stamps, and response parts that only refer to
stored content.

### SessionHost

The host is a single JavaScript thread: whatever it does between two awaits is
one action. One action of the model is one client action with everything
`handleAction` does before it returns, or one agent event with the whole of the
progress listener. What runs later is a variable:

| Variable | Code |
|---|---|
| `host.sessions`, `host.tracked`, `host.activeSessions` | `_sessionStates`, `_activeTurnToSession`, `rootState.activeSessions` |
| `toolCallAgents` | `_toolCallAgents` of the side effects |
| `mapper` | `_currentMarkdownPartId`, `_currentReasoningPartId` |
| `pendingPermissions` | `_pendingPermissions` of the Copilot session |
| `calls` | promises of `sendMessage` and `abortSession` that the agent has not taken |
| `steers` | promises of `sendSteering` |
| `runs` | messages the agent process has accepted; it works on the first |
| `created`, `turnOf`, `toolOf` | history: uris in use, the session of each turn, the turn of each call |

| Action | Code |
|---|---|
| `CreateSession`, `DisposeSession` | `AgentService.createSession`, `disposeSession` with the manager's part |
| `StartTurn`, `CancelTurn`, `ConfirmToolCall`, `ChangePending` | `dispatchAction` with the cases of `handleAction` |
| `SendAccepted`, `SendFailed` | `sendMessage` resolves at the agent, or rejects and its `catch` runs |
| `AbortTaken` | the agent process stops the message it works on |
| `SteeringTaken`, `SteeringFailed` | the two ends of `sendSteering` |
| `AgentText`, `ToolStart`, `ToolComplete`, `AgentIdle`, `AgentError` | an agent event through the progress listener |
| `AskPermission` | `handlePermissionRequest` with `tool_ready` and automatic approval |

The agent process is external. Its events reach the host in order, and delay
between the two processes is modelled on the way to the agent only: a call may
take effect at any later time. A `sendMessage` may be overtaken by later calls
while it waits for the plugin check or for its session to be resumed; an
`abortSession` does not wait and nothing overtakes it.

Assumed of the external agent, from its scripted stand-in in the tests and from
how the code listens to it: it runs one message at a time and one tool at a time, ends each run with one idle
or error event, answers an abort with silence, and takes steering calls in order.

Left out: a session without provider (`noAgent`); reads approved inside the
working directory, which change no state; the refresh of a session whose plugins
changed (it drops steering and aborts that hit the gap); metadata and
customization actions, which the host passes on; `usage` and `title_changed`
events; the wait inside `disposeSession`, as the Copilot agent's part of it is
synchronous.

`Environment` says what clients, user and agent may do besides starting turns:
`overlap` (start a turn on a stale view), `late` (cancel or confirm what is
over), `cancel`, `dispose`, `fail`, `tools`, `queue`, `steer`. It lets one
specification serve for the properties that hold under anything and for those
that hold only while everybody acts on what the host shows.

### ProtocolSync

The state of a resource (the root state or a session) is the sequence of the
actions applied to it. The reducer is a function of that sequence, so client and server agree
on a state when they agree on the sequence; what the actions do is the matter of
`SessionReducer`.

| Variable | Code |
|---|---|
| `server` | `_serverSeq` and the states of the state manager; `_replayBuffer` and `_clients` of the protocol server |
| `conns` | per connection: the `client` variable of `_handleNewConnection`, its subscriptions, and subscribes that have their snapshot but are still behind the `await` (`jobs`) |
| `line` | a connection is unused, open, cut (broken, the server has not noticed) or closed |
| `up`, `down` | messages on their way, in order, per connection |
| `clients` | `RemoteAgentHostProtocolClient`: connection, handshake answered, subscribes without answer, `_nextClientSeq` |
| `views` | `SessionClientState`: last seen number, confirmed and optimistic states, pending actions |

| Action | Code |
|---|---|
| `Connect`, `Reconnect` | `connect` with `initialize`; a `reconnect` request with the last number seen and what the client holds |
| `Subscribe`, `Unsubscribe`, `Dispatch` | the client's requests; `unsubscribe` drops the resource, `applyOptimistic` shows the action at once |
| `Receive` | an envelope, a replay or snapshots through `receiveEnvelope` and `handleSnapshot` |
| `Cut` | the connection breaks; messages on their way are lost, to the server any number of the last ones |
| `HandleInitialize`, `HandleReconnect` | `_handleInitialize`, `_handleReconnect` |
| `HandleSubscribe`, `FinishSubscribes` | the `subscribe` handler before and after its `await` |
| `HandleUnsubscribe`, `HandleDispatch` | the notifications of the same names with the broadcast (`_broadcastAction`) |
| `AgentAction` | `ApplyAndEmit` for everything no client dispatched, root actions included |
| `HandleClose` | `transport.onClose` |

What one client sees of another client's actions is what it sees of the agent's:
envelopes with an origin that is not its own. An action with its consequences
(the root count, a consumed queue entry) is several envelopes in the code; here
each consequence is an `AgentAction`, which may also come later.

Assumed: a handshake that has not arrived when its client gives up the connection
never arrives, so it cannot overtake that of the next connection (`Cut`). While a
subscribe is between its two steps, the server takes no other message unless it arrived
together with it (`Burst`): the wait in between is over within the same turn of
the event loop when the session exists.

No product code sends `reconnect`: the clients of this repository take a fresh
client id for each connection, and wait for the answer to a subscribe before they
act. `Reconnect` is the client that the handler, its tests and protocol.md are
made for; `Burst = TRUE` is the client that does not wait.

Left out: resources that do not exist, are restored or disposed; a server that
restarts; `rejectionReason` (the server never sets it); requests from server to
client; notifications; protocol versions; requests that only pass through.

### CopilotSessions

Each operation of the agent is an async function; `calls` has, for each one under
way, the await it stands at, and a step runs one call from one await to the next.

| Variable | Code |
|---|---|
| `token`, `client`, `starting` | `_githubToken`, `_client`, `_clientStarting` of the agent |
| `clients` | every SDK client made so far: with it one sees a client that nobody knows |
| `sessions`, `objects` | `_sessions`, and every `CopilotAgentSession` made so far with its SDK session |
| `synced`, `requested` | the plugin syncs that have ended; how many were asked for, the last being `_lastSynced` |
| `calls` | `createSession`, `sendMessage` and `restoreSession` under way |
| `states`, `stored` | sessions in the state manager; sessions the SDK knows |
| `orderly` | an assumption about users: in these sessions they wait for one operation before the next |

| Action | Code |
|---|---|
| `Authenticate`, `ClientStopped` | `authenticate` up to the `await` of `client.stop()`, and that call's two ends |
| `ClientStarted`, `ClientFailed` | the two ends of `_ensureClient` |
| `SetClientCustomizations`, `SyncDone` | the plugin controller's `sync`, chained to the one before |
| `CreateSession`, `SendMessage`, `RestoreSession`, `DisposeSession` | up to their first await; the last has none that matters |
| `GotClient`, `GotPlugins`, `Initialized`, `InitFailed` | `createSession` and `_resumeSession` behind their awaits |
| `Checked` | `sendMessage` behind the plugin check: send, or refresh |
| `Listed`, `Answered`, `Publish`, `Fails` | `restoreSession` and the ends of the other calls |

The SDK is external: it starts a client or fails to, answers or refuses a
request, and keeps the sessions it has made. A client that is replaced is `stopping`
until its `stop()` resolves (`stopped`) or rejects (`unstopped`); the agent has forgotten
it before, so a new one may start and run beside it. Left out: models, working
directories, stored metadata, the shutdown of the agent, and the events of a
session, which are the matter of `SessionHost`.

### PluginCache

`tasks` has what is left of each plugin's task in the call of
`syncCustomizations` under way; a task runs from one file operation to the next,
next to the others of its call. A plugin's content is a version number, which is
its nonce as well, as nonces are hashes of the content.

| Variable | Code |
|---|---|
| `nonces`, `lru`, `loaded` | `_cachedNonces`, `_lruOrder`, `_cacheLoaded` |
| `dirs`, `cacheFile` | the disk: directory of each plugin, `cache.json` |
| `version` | what the client has |
| `doubtful` | history: plugins of which `SyncedIsOnDisk` claims nothing, see below |

| Action | Code |
|---|---|
| `SyncCustomizations`, `SyncReturns` | both ends of the call, the loading of the cache included |
| `SyncPlugin`, `Copied`, `CopyFailed`, `Hashed`, `HashFailed` | `_syncPlugin` between its awaits |
| `Evicted`, `Persisted` | the loop of `_evictIfNeeded`, `_persistCache`; each may fail |
| `Restart` | the process ends anywhere and starts again |
| `ClientEdits` | the client changes a plugin, also in the middle of a copy, to any other content |

Any number of plugins may be in a call, the client may return to earlier content, and
the process may end anywhere. In three of these cases the code can hand out a directory
that is gone or of another version, and the plugin is `doubtful` from then on: its content
went back to an earlier one (a copy or hash that failed has left the old nonce); a task
evicted it while the call syncs it, too; or the process ended while the file
lists it and the cache does not (an eviction whose `_persistCache` has not come or has
failed, or a file that could not be read). No action reads `doubtful`.

Left out: trusted hashes, which only feed a log message.

### RemoteHosts

| Variable | Code |
|---|---|
| `enabled`, `configured` | the two settings |
| `hosts` | per address: `_entries` and `_reconnectTimeouts`, and each client until its `connect` has settled, disposed ones included; `given` marks clients that the SSH service made |
| `requests` | calls under way, with the list of hosts that each has computed; those at `wait` are on the promise in `_pendingConnectionWaits`, those at `orphan` on one that the timeout of another call has taken from it |

| Action | Code |
|---|---|
| `ToggleEnabled`, `EditSettings` | the settings' listeners with `_reconcileConnections` |
| `AddRemoteAgentHost`, `RemoveRemoteAgentHost`, `AddSSHConnection`, `ReconnectTo` | the calls up to their first await |
| `Written`, `NotWritten`, `Added`, `HostRemoved`, `SSHAdded`, `TimedOut` | the calls behind their awaits |
| `Connected`, `ConnectFailed`, `Closed`, `TimerFires` | results and events of clients, and the back-off timer |

Calls overlap each other and edits of the settings: each computes its list when it begins
and writes it later, over whatever has been written since, and a removal tears down the
address at its end, though it may have been added again. `ReconnectTo` takes any address,
as `reconnect` does, one that is not configured included.

Left out: names, tokens, the length of the back-off, and how the SSH service
makes its tunnels.

### AgentLoop

| Variable | Code |
|---|---|
| `now`, `recent` | `Date.now()`, `_recentSignatures` of the AI provider service |
| `permitted` | whether the settings of the tool router allow what is asked for |
| `chats` | the request of each chat: the await it stands at, the tool calls left |
| `shown` | the chat whose quick input is on screen; the window has one |
| `lastPaid` | history: when a request was last sent with a signature |

| Action | Code |
|---|---|
| `SendChatRequest`, `Cancel` | `sendChatRequest`, its cancellation token |
| `Responded`, `Readied`, `PaidResponded`, `BodyRead` | `_postOpenAiStreaming` and `fetchWithX402Readiness` |
| `Pay`, `Approve`, `Decline` | the user answers or closes the quick input |
| `StreamEnds`, `ExecuteTool`, `ServerStarted`, `ToolCalled` | the loop of the model provider, `executeTool` of the router |
| `Tick`, `ChangePolicy` | the clock, the settings |

Left out: keys and settings of the service, the Anthropic request (a single
fetch), the format of the stream, the system prompt.

### ChatSessionHandler

The handler sits between two parties. The host's session comes to it as
envelopes in order; it reads the *optimistic* state, which is the confirmed one
with its own actions under way (`View`). The chat model and `ChatService` hold the
pending requests, the tool invocations on screen, and an entry by which the
user can stop what runs.

| Variable | Code |
|---|---|
| `host` | the session in the host's state manager |
| `arriving` | envelopes under way to this client; `own` marks its echoes |
| `chat.confirmed`, `chat.sent` | `_confirmedSessionStates`, `_pendingActions` of `SessionClientState`; what of `sent` has no echo under way has yet to reach the host (`Up`) |
| `chat.queue`, `chat.synced` | pending requests of the chat model; whether `_pendingMessageSubscriptions` has the chat |
| `chat.lastSeen`, `chat.previousQueued` | `lastSeenTurnId`, `previousQueuedIds` of the watcher |
| `chat.turn`, `chat.invocations` | per tracker (`_handleTurn`, `_trackServerTurnProgress`, `_reconnectToActiveTurn`): its turn, and what each `ChatToolInvocation` shows |
| `chat.streaming`, `chat.complete` | whether `ChatService` reads `progressObs` (chatServiceImpl.ts:732): not if the chat was opened on an idle session with a history; `isCompleteObs` |
| `chat.request`, `chat.listening`, `chat.interrupts` | the entry in `_pendingRequests`, its cancellation listener, the turn that the interrupt callback names |
| `begun`, `approved` | ids given out; history: calls a user approved |

| Action | Code |
|---|---|
| `OpenSession`, `NewChat` | `provideChatSessionContent` on an existing session; the first request of a new chat |
| `Send` | `sendRequest` and `_handleTurn` up to its wait |
| `Queue`, `RemoveQueued`, `ReorderQueue` | the chat model's pending requests change; `_syncPendingMessages` |
| `Answer` | `_awaitToolConfirmation` resolves |
| `StopRequest`, `StopServerTurn` | `cancelCurrentRequestForSession` for a turn sent here, and for others |
| `EnvelopeArrives` | `receiveEnvelope`, then all listeners in the order of their registration (`Changed`) |
| `HostReceives` | the host takes an action of this client, and consumes a message after a change of the queue |
| `AgentCalls`, `AgentAsks`, `AgentCompletesCall`, `AgentIdles`, `AgentFails` | events of the agent |
| `OtherClientActs` | another client cancels, answers, starts a turn or queues a message |

Own actions change the optimistic state at once, so every operation above that
dispatches runs the listeners as well. A chat that is not streaming shows nothing of the
server tracker: its questions cannot be answered there (`Answer`). The
properties are about the trackers; that such a chat leaves the questions of turns the
host starts unasked is a hazard (chatServiceImpl.ts:732). Each listener queues its work in a
`Throttler` of its own, which keeps the latest state: the model runs that work at
once. Left out: steering, edits of files, text parts, model and active client changes,
a session that cannot be created or subscribed to, messages queued while it is
created, and closing a chat. The question of a server-initiated turn that is
replaced without having ended stays on screen in the code; in the model it is gone.

## 3. Model checking

Every run is listed in `PROJECT.json`; `tlc -config X.cfg M` repeats it. No
run takes longer than four minutes.

| Run | Instance | Shows |
|---|---|---|
| `reducer` | two turns, one call, one text part, two chunks; three message ids, orders up to length three; metadata | `ReducerTypeOK`, `HistorySettledAndFrozen`, `QueueIdsUnique`, `ReorderIsStable`, and that the reducer implements `ToolCallLifecycle` |
| `host_any` | one session, two turns; everything but steering in the environment | `ActiveTurnsTracked`, `MapperPointsIntoActiveTurn` |
| `host_in_sync` | two sessions, three turns, two calls; `fail`, `tools`, `queue`, `steer` | `RunIsOfActiveTurn`, `ActiveTurnHasWork`, `PermissionsAnswerable`, `NoTurnLost`, `RootCountsActiveTurns` (sessions with a turn; see the finding) |
| `host_live` | one session, three turns, two messages; `tools`, `queue`, `steer`; fair | `QueueWaitsBehindATurn`, `SteeringIsOnItsWay`, `TurnsEnd`, `QueueDrains` |
| `host_late_events` | two turns, `cancel` | violates `EventsReachTheirTurn` |
| `host_disposed` | one turn, `dispose` | violates `RootCountsLiveSessions` |
| `host_queue_stalls` | two turns, `fail`, `queue` | violates `QueueWaitsBehindATurn` |
| `clients` | one client, two connections, root and one session, two actions of others, one of its own, a buffer of two; three plugins (one without nonce, one that changes) in a cache of two, two versions; two addresses (one through SSH), two clients each, two calls; a chat with two turns, one call, two queued messages, two own actions under way, one action of another client | `SyncTypeOK`, `OptimisticIsRebased`, `ViewsCatchUp`, `StaleCloseIsHarmless`, `PendingIsOnItsWay`, `ShownStaysShown`, and that `ProtocolSync` implements `ReplicatedLog`; `CacheTypeOK`, `SyncedIsOnDisk`, `CacheBounded`; `OneLiveClient`, `NeverForgotten`, `EntriesAreConfigured`, `AddsHearOfConnections`; `HandlerTypeOK`, `ActiveTurnIsTracked`, `PendingIsAsked`, `ListIsMirrored` |
| `sync_pipelined` | one connection, `Burst` | violates `ViewsCatchUp` |
| `chat_reopened` | the chat of `clients` | violates `ApprovalsAreTheUsers` |
| `services` | one session, two calls at a time, two clients, two objects, one sync; two chats, one signature, two tool calls, a window of one and a clock up to three; fair | `OneClient`, `SendsUseFreshPlugins`, `LiveIsReachable`, `CallsEnd`; `SignatureNotReplayed`, `QuestionsAreSettled` |
| `paid_answer` | the chats of `services` | violates `PaidIsAnswered` |

`clients` holds four components that share no variable, and `services` two.
Their behaviours run one of them and leave the others at an initial state
(`part`), so the states add up and do not multiply; nothing is lost, since neither
could disturb the other. `OneConcern` does the same within `reducer`: a run
explores the turns, or the pending messages with at most one turn without parts, or
the metadata, in full. What crosses these is only that a turn consumes a message,
which the second case has.

**Bounds.** `TurnId` is finite and every turn is fresh, which ends each run: hence
`CHECK_DEADLOCK FALSE` in the host runs. `MaxParts`, `MaxText`, `MaxQueue`,
`MaxSteers` and `MaxAsks` bound what the sources leave open. Two turns are enough for one
to be late for the other, a third one for the queue to move on after both; two
queued messages have an order, and three a middle one for a reorder. Two sessions
show interference through the shared tables. `StartTurn` and `ChangePending`
keep one fresh turn in reserve for every queued message, so the bound never stops
`_tryConsumeNextQueuedMessage`, which in the code always finds a new uuid.
`MaxAsks = 1`: with two permission requests for the same call the second has no
route to the agent (see the hazard at agentSideEffects.ts:287).
In the sync part of `clients` the host applies up to three actions and buffers two, so that a
reconnect falls within the buffer, at its edge and beyond it; `MaxUp` lets a
second message wait behind a handshake or a dispatch, and `Initial` has
handshakes with and without snapshots. One client is enough since clients meet
only in the server's sequence; two connections have one of them stale. They end
when the connections are used up. `PendingIsOnItsWay` is about clients on their first connection: after a
reconnect, an action whose echo was lost beyond the buffer, or that never arrived, stays
pending (see the hazard at sessionClientState.ts:183).
`ReducerSymmetry` and `HostSymmetry` permute only ids without order; turn ids of
the host are numbers, since they are handed out in order, and are not permuted.
No run with a liveness property uses symmetry. In `clients`, connections differ only in
when they are used, and `InOrder` takes them in one order.

In `services`, two calls of one session are enough for one to replace what
the other uses; the second client is one that replaces the first, and the second
object one that replaces the first. One sync that may be in flight makes an old
and a new state of the plugins. Larger instances (two sessions, two tokens,
three objects) were explored by hand without liveness and hold as well; the
theorems do without bounds. In `clients`, three plugins in a cache of two force an eviction,
and two tasks of one call run side by side; `FewChanges` has one plugin that changes, two
plugins in a call and at most one that becomes doubtful. Two clients of an
address are one in use and a replaced one that has not settled; two calls share a wait, or
one of them writes what the other has computed before; `SSHClientsAreGiven` leaves out that
somebody reconnects by hand an SSH address that is not configured. Both are bounds of
`MCClients` alone: the theorems hold without them. Two chats compete for the quick input and for the one signature,
and the clock passes the end of the window twice.
In the chat of `clients`, two turns let any tracker be followed or replaced by
any other, and the second may be one that consumed a message; two messages have
an order. `MaxSent` lets two own actions cross what the host changes; with `MaxDown = 1` the host
acts by itself once what it sent has arrived. With three turns there is one more case:
a message that is consumed while an own turn is under way stays listed in the
chat (see the hazard at agentHostSessionHandler.ts:468).

**Restrictions.** Where a property fails in a known way, it says so itself, and the steps
that lead there stay in the model; each case is a hazard in `PROJECT.json`:

- `LiveIsReachable` is about `orderly` sessions: operations that overlap on one session
  leave a live SDK session behind.
- `SyncedIsOnDisk` is about plugins that are not `doubtful` (three cases, see `PluginCache`).
- `NeverForgotten` lets the end of a removal (`RemovalEnds`) leave an address that was
  added again without a connection, and a stray connection that has closed stay.
- `AddsHearOfConnections` is about waits that are in the map: a call whose promise was taken
  from it by the timeout of another waits until its own timeout.
- `OneClient` counts the clients that have not been told to stop.
- `PendingIsAsked` is about the trackers, not about what a chat that is not streaming shows.

One case is kept out of the runs: `MaxAsks = 1`, as with a second permission
request of the same call `PermissionsAnswerable` fails. What the host's environment may
do is part of each run (`Environment`).

**Fairness.** `FairSpec` in `host_live`: weak fairness of the agent taking
sends, aborts and steering calls: these are promises on the event loop and
requests to a live process. Of `ToolComplete` or `AgentIdle`: a tool returns and
a message ends. Of `ConfirmToolCall`: the user answers what is on screen; without
it nothing in the code ends a turn that waits for a confirmation, as there is no
timeout. Nobody is obliged to start, queue, steer or fail.
`CopilotFairness` in `services`: starting a client ends, well or badly, a
plugin sync ends, and each call goes on when what it awaits is there: these are
promises of a live process and of file operations. Users and tokens are free.
`LoopFairness` in `services`: the user answers or closes what is on screen.
Nothing is asked of the model service or the tools, which have no timeout in the
code.

**Findings.** Six documented statements do not hold; each has a run.
- Agent events are not always associated with the correct turn
  (sessionStateManager.ts:181-183). A turn is started and cancelled while its
  `sendMessage` waits, a second is started, the agent accepts the first message,
  and its answer appears in the second turn and completes it.
- `root.activeSessions` counts a session that was disposed during a turn, though it is
  to be the "Number of active (non-disposed) sessions on the server" (state.ts:153).
  The disagreement is wider than this case: the code counts sessions with a turn in progress
  (`RootCountsActiveTurns`), which is what the test "activeSessions reflects concurrent turn
  count across sessions" (`test/node/sessionStateManager.test.ts:228`) expects and what the
  server's lifetime token needs, so a session that is idle and not disposed is not
  counted, against the words of state.ts.
- Queued messages are not sent "after the current turn finishes" (state.ts:286)
  when the turn finishes with an error.
- A client does not receive "all actions" after its subscription's `fromSeq`
  (protocol.md:290): the handler takes the snapshot, waits, and subscribes then;
  what is applied in between reaches the client in neither. It takes a client that
  acts on a session before its subscribe is answered, or other work falling into
  the wait.
- A tool call may be confirmed for the reason "User explicitly approved"
  (state.ts:526) though nobody was asked: when a chat is opened on a running turn,
  the handler means to await calls "already pending confirmation"
  (agentHostSessionHandler.ts:1064) and awaits all that are not over; a running one
  counts as confirmed, and the approval meets the question it asks meanwhile.
- A request that is paid for is not retried with an answer "to pay and retry once"
  (aiProviderService.ts:353): after a successful paid response the code runs on into
  the lines for refused ones, reads the body as text and throws it as an error. The
  signature counts as used.

## 4. Proofs

`tlapm` checks every theorem to the last leaf, for all values of the constants
that satisfy the assumptions (`NoneIsNoValue`, `NoneIsNoId`, `TurnIds`, `Bounds`,
`EnvironmentKinds`, `SyncAssumption`, `SessionAssumption`, `RemoteAssumption`,
`LoopAssumption`, `CacheAssumption`, `NoTaskIsNone`, `IdsAreNumbers`, `TextIsThere`:
the constants are of the right kind, ids are handed out by counting, and the absent
value is no value). The bounds of the runs are constants like any
other, so a theorem holds for every value of them.

| Theorem | States |
|---|---|
| `ReduceSound`, `ReducerTypeCorrect`, `QueueIdsStayUnique` | one action keeps a session sound; `ReducerTypeOK`, `QueueIdsUnique` |
| `ReorderStaysStable` | `ReorderIsStable`: the code's reorder is the sort by rank, for every queue and order |
| `HistoryStaysSettledAndFrozen`, `CallsFollowTheLifecycle` | `HistorySettledAndFrozen`, `ToolCallFollowsLifecycle` (refinement) |
| `HostTypeCorrect`, `HostQueueIdsUnique`, `TrackingCorrect`, `TextHasItsPart` | types and queue ids in the host; `ActiveTurnsTracked`, `MapperPointsIntoActiveTurn` |
| `NoTurnIsLost`, `RootCountIsRight` | `NoTurnLost`, `RootCountsActiveTurns` |
| `RunsAreActive`, `ActiveTurnsAreWorkedOn`, `QuestionsAreAnswerable` | `RunIsOfActiveTurn`, `ActiveTurnHasWork`, `PermissionsAnswerable` |
| `QueueAlwaysWaitsBehindATurn`, `SteeringStaysOnItsWay` | `QueueWaitsBehindATurn`, `SteeringIsOnItsWay` |
| `SyncIsTyped`, `OptimisticStaysRebased`, `ConnectedStaysRegistered` | `SyncTypeOK`, `OptimisticIsRebased`, `StaleCloseIsHarmless` |
| `ClientsCatchUp`, `PendingStaysOnItsWay`, `ShownIsNotLost`, `ViewsFollow` | `ViewsCatchUp`, `PendingIsOnItsWay`, `ShownStaysShown`, `ViewsFollowTheLog` (refinement) |
| `CopilotTypeCorrect`, `OneClientRuns`, `SendsAreFresh`, `LiveStaysReachable` | types; `OneClient`, `SendsUseFreshPlugins`, `LiveIsReachable` |
| `RemoteTypeCorrect`, `OneLiveClientPerAddress`, `WantedHostsAreKept`, `StraysAreManual`, `WaitsHearOfConnections` | types; `OneLiveClient`, `NeverForgotten`, `EntriesAreConfigured`, `AddsHearOfConnections` |
| `LoopTypeCorrect`, `NoSignatureReplayed` | types; `SignatureNotReplayed` |
| `CacheIsTyped`, `SyncedStaysOnDisk`, `CacheStaysBounded` | `CacheTypeOK`, `SyncedIsOnDisk`, `CacheBounded` |
| `HandlerIsTyped`, `ActiveTurnStaysTracked`, `PendingStaysAsked`, `QueueStaysMirrored` | `HandlerTypeOK`, `ActiveTurnIsTracked`, `PendingIsAsked`, `ListIsMirrored` |

**The reducer.** A session is *sound* if it is a `SessionState` and its queue has
unique ids. Each case of `Reduce` has a lemma. The hard ones are the queue:
`Without` keeps ids unique, and `Reordered` is a permutation, for which the rank of an
entry is shown to be a bijection, by counting the entries with a smaller key.
`ReorderStaysStable` compares this with the code: what the two passes put together has
the same entries, each at the place its rank says.
`MachineInv` adds that the history is settled and that a call is one thing wherever it
appears in the session (`CallsAreOne`). The refinement of `ToolCallLifecycle` rests on
both: an action puts other parts in the place of those of the active turn
(`PartFollows`), equal ones equally, and leaves the history alone; a call whose part is
settled is not changed by any updater, so no copy in the history falls behind.

**The host.** `HostInv` is proved once per action, for any environment; `Launch` and
`Dispatch` have lemmas of their own, and so does what each type of action does to a
session (`ReduceEnd`, `ReduceStart`, `ReduceParts`, `ReducePending`, `ReduceMeta`).

- That active turns are tracked is not inductive: a failed send or a late cancel drops
  the tracking of the turn it *names*, and must not name the active turn of another
  session. `HostInv` therefore also says that each tracked turn is tracked for the session it was
  started in and that the calls in flight of a session name its own turns (`Tracks`,
  `CallsOwned`).
- `MapperFits` is `MapperPointsIntoActiveTurn` for any state and mapper: parts are only
  added to a turn, and every start of a turn resets the mapper.

These theorems name the kinds of `Environment` that must not occur,
each because the code does not cope with it; the run without the restriction
violates the property, or its hazard tells how.

| Theorem | Without | Invariant |
|---|---|---|
| `QueueAlwaysWaitsBehindATurn` | `fail` (run `host_queue_stalls`), `cancel` | `QueuesWait` |
| `SteeringStaysOnItsWay` | `fail` (a call that failed is forgotten) | `SteeringsSent` |
| `NoTurnIsLost` | `overlap` (a turn is replaced) | `Past`, `Books` |
| `RootCountIsRight` | `overlap`, `dispose` (run `host_disposed`) | `Past`, `Exact` |
| `ActiveTurnsAreWorkedOn` | `cancel` together with `late` (a late cancel stops the turn that has started meanwhile) | `Work` |
| `RunsAreActive` | `overlap`, `cancel` (run `host_late_events`) | `InStep` |
| `QuestionsAreAnswerable` | the same, `late` (a late answer takes the route of a call), and `MaxAsks <= 1` (a second question has no route) | `InStep`, `Asks`, `Routes` |

`Books` says that a session has exactly the turns that were started in it, each once,
so that a fresh turn is nowhere yet and an ended one cannot end again. `Exact` says that
only active turns are tracked: the count, which the code takes from the tracking when a
turn starts or ends, is then that of the sessions with an active turn. `Paced`, the
core of `InStep`, leaves a session two shapes: its message is the only call in flight,
or the agent works on it and nothing else. `Work` needs no such order: an abort on its
way was made before the message of the active turn, which does not overtake it. `Asks` ties three tables together: the
requests the agent waits for, the calls shown as waiting, and the routing entries; a
call that has not asked yet is shown as running and already has its route.
These invariants were checked by TLC, also in wider environments than the runs',
before they were proved.

**The protocol.** `SyncTypeOK`, `OptimisticIsRebased` and `StaleCloseIsHarmless` hold for all clients, also
those that pipeline requests (`Burst`). For the last the invariant says that an open
connection has one user, that nobody knows an unused one, and that a handshake is the
first message of a connection that its sender still uses (`RegistrationInv`). The other
theorems assume `~Burst`, as the clients of the repository wait for the answer to a subscribe;
`sync_pipelined` shows why it is needed. Their invariant is

    SyncInv == TypeInv /\ RegistrationInv /\ QuietInv /\ Logged /\ PendingInv

- `QuietInv`: before a handshake nothing but it is on its way; at most one subscribe is
  between its snapshot and its answer, and its snapshot is current, since the server
  does nothing else meanwhile.
- `Logged`: there is one log of all actions applied so far of which everything else is a
  part (`LoggedInv`): states are what a prefix of it leads to, the replay buffer is its
  last part without a gap, views have seen a prefix, and the messages on their way to a
  client go on from there without gap or repetition (`Flow`). Between a client and its
  connection one of three things holds (`Linked`): its handshake waits, the answer is on
  its way before everything else (`Answering`), or subscribes, snapshots and
  unsubscribes are in an order in which nothing comes that is not awaited (`Orderly`).
  `ViewsCatchUp` is then induction along the messages, and the refinement of
  `ReplicatedLog` follows from where in the log a view stands before and after a step.
- `PendingInv`: `PendingIsOnItsWay` for clients whose first connection is the only one
  the server may know as theirs (`First`).

**The services.**

- `CopilotInv` adds to the properties what each place of a call implies (`CallGood`): the
  object it initializes is of its session and, if that is orderly, still the one in the
  map; its sync is not older than the send; of an orderly session only one call is unsettled
  (`OneUnsettled`), so that nothing replaces the object a call initializes. Lists
  only grow (`Grows`), hence a fact about an object or a finished sync that one call relies
  on survives the steps of all others; that lemma spares the product of actions
  and places.
- `RemoteInv` says of each host that its entry's client is the only one that is not disposed
  and that a host without SSH has no client from the SSH service (`Kept`), and of the calls
  that only those that add a host wait (`WaitsAreAdditions`). `NeverForgotten` and
  `EntriesAreConfigured` are about steps: each lemma says what one kind of step may do to one
  host (`StaysAttended`, `StaysConfigured`), whatever the other calls have written.
- For `AgentLoop`, a signature sent within the window must still be remembered at the time it was
  sent (`PaidIsRemembered`); forgetting happens only when the prompt is shown,
  not when it is answered, so the invariant relates the two clocks at all times.
- `CacheInv` is what the steps of a task rely on while others run between them. The LRU
  list has each plugin once, and more than its limit only while a task evicts (`Order`);
  what is deleted is neither listed nor synced by the call (`Victims`); a nonce is of a
  listed plugin and vouches for its directory, or is older than all that a sync may still
  ask for (`KnownNonces`, `Vouched`); an entry of the file, or of a snapshot that is still to
  be written, has a nonce no newer than the cache's (`Saved`), so that a restart makes
  it a sound nonce of the next process (`FileGood`); a task past its copy has its
  directory at its version or a later one (`TasksGood`). What these say of nonces and
  directories is about plugins that are not doubtful; a plugin becomes doubtful in the
  very step that would break it.

`HostTypeOK`, `CopilotTypeOK`, `RemoteTypeOK` and `LoopTypeOK` are proved and no
longer listed in a run.

**The chat session handler.** `HandlerInv` relates four parties: what the host has,
what is on its way, what the client has seen and sent, and what the chat shows.

- What is read is `View(chat)`, the confirmed state with `sent` replayed on top. When an
  action of the host arrives below `sent`, `ActiveBelow` says what the replay can make
  of it: the turn that is active stays, is gone, or is the one that is
  active in the new confirmed state. `Calmer` says what the listeners may add: answers
  to calls and edits of the queue, which make no call wait again and end no turn.
- `OneTracker`: while a turn is active in what is read, exactly one tracker has it and the
  watcher has seen it; trackers have no other turn. In the middle of a step, before the
  listeners run, this is `Followable`: either that, or the turn is new to everybody.
- The watcher ignores a turn equal to `lastSeenTurnId`. Hence a turn that was seen and is over must not
  become active again. `StartsAreNew` gives this: the starts on their way that
  are not this client's name turns that it has not seen, each once. Its own come
  back as echoes, which leave what is read as it is: an echo is the first of `sent`
  (`EchoesMatch`). `Numbered` says that whatever the chat names was given out before,
  so that the next id is fresh.
- `Asked`: a tracker asks about every call of its turn that waits for a confirmation.
  The other listeners run between an envelope and the tracker, hence `Calmer`.
- For the mirror, every change of the chat's list is followed through
  `_syncPendingMessages`: the additions and removals that it dispatches, and the order at
  the end, lead to a queue in the session that has the ids of the list in its order
  (`EditedIds`, `OrderTaken`).

Each action keeps `HandlerInv` by a lemma of its own. The user's actions append to `sent`
(`OwnStep`), those of the host to what is on its way (`HostStep`); after the former and
after an arriving envelope all listeners run (`ChangedShape`).

**Induction.** The induction rules of the library take an operator as parameter, which the
provers cannot instantiate. `SubsequenceLemmas` has them for *sets* of numbers and
sequences instead (`NatSetInduction`, `UpTo`, `SeqSetInduction`); with them functions defined by
recursion can be shown to exist (`Steps`) and proved about, as the filter `Within` of
`Subsequences`, which the models use for this reason, and `Applied`, the replay of a
sequence of actions. The operators of the standard and community modules that recurse
(`SelectSeq`, folds) stay out of reach.

**Only model-checked.** Liveness (`TurnsEnd`, `QueueDrains`, `CallsEnd`,
`QuestionsAreSettled`), which needs fairness and `ENABLED`; and the violations. Every
invariant, action property and refinement of a passing run is proved.

## 5. Plan

Done: reducer, host, protocol synchronization, Copilot sessions, plugin cache,
chat session handler, remote hosts and agent loop, their runs, and the proofs above. Left, in order:

1. `ChatSessionHandler`: steering, and closing a chat; `HandlerInv` has to say then which
   listeners a chat still has.
2. `ProtocolSync`: sessions that are restored or disposed while clients hold them.

## 6. Not modelled

- Steering, model changes and file edits of the chat session handler: see `ChatSessionHandler`.
- The Solana wallet: three writes one after the other that no other step reads in
  between. Explorer, Anchor, eBPF and auditor views: terminal commands and RPC results.
- SSH tunnels and remote commands, transports and process start: I/O whose outcomes
  the models of their users leave open (`ConnectFailed`, `Closed`, `Cut`).
- The auto-approver's command parsing, whose outcome `AskPermission` leaves open.
- The mapping of stored SDK events to turns, the session database and the file
  edit tracker: SQLite and file contents, no state that steps of theirs could
  disagree about.
- VS Code itself, the vendored Ghidra extension, the Rust library and generated
  code. They are 99 % of the tree; the share of the implementation lines that the
  models cover is small for this reason, not because parts of the agent host are missing.
