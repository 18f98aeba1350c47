# A TLA+ verification of the frontend/backend core

The repository is an application built on a fork of Eclipse Theia: a frontend (browser
page or Electron window), a backend process, and a process that watches files. This
directory models the parts of it whose correctness depends on the order in which
messages, callbacks, timeouts and disconnects happen, checks the models with TLC, and
proves the most important facts with TLAPS. Paths below are relative to the repository.

## 1. Inventory

### 1.1 The parts and how they interact

| Part | Where | State | Operations | What is hard |
|---|---|---|---|---|
| Main connection | `core/src/browser/messaging/ws-connection-source.ts`, `core/src/node/messaging/websocket-frontend-connection-service.ts`, `websocket-endpoint.ts`, `core/src/common/messaging/connection-management.ts` | the frontend's socket, its current channel and its one-shot listeners; the backend's `connectionsByFrontend`, `closeTimeouts`, `channelsMarkedForClose`, one context per frontend id | connect, initial connect, reconnect, disconnect, timeout, mark for close, restart, reload | handshake messages are lost with a transport; a timeout races a reconnect; the two ends notice a loss at different times |
| Channel multiplexer | `core/src/common/message-rpc/channel.ts` | `pendingOpen`, `openChannels`, the sub-channels | open, ack, close, data, main channel closed | a path is opened again while messages of its last life are on their way; both ends open at once |
| Service connections | `core/src/browser/messaging/service-connection-provider.ts`, `core/src/node/messaging/default-messaging-service.ts`, `core/src/common/messaging/proxy-factory.ts` | `channelHandlers`, `channelReadyDeferred`, the multiplexer; a proxy factory's `rpcDeferred` | listen, open a service channel, reopen after reconnect, call through a proxy | the main channel is lost or replaced between any two awaits |
| RPC protocol | `core/src/common/message-rpc/rpc-protocol.ts` | `pendingRequests`, listeners of tokens, token sources, message counter | request, notification, cancel, reply, close | a cancel crosses a reply, a reply crosses a close, a commit throws half way |
| Write buffering and framing | `core/src/common/messaging/socket-write-buffer.ts`, `core/src/node/messaging/binary-message-pipe.ts`, `core/src/common/message-rpc/uint8-array-message-buffer.ts`, `msg-pack-extension-manager.ts` | buffered bytes; a partly received message | buffer, flush, drain; send, chunk received | limits, chunk boundaries |
| Child processes | `core/src/node/messaging/ipc-connection-provider.ts`, `ipc-channel.ts`, `ipc-protocol.ts`, `connection-error-handler.ts` | the process, its channel, error counts | fork, message, error, exit, restart | a server that crashes repeatedly |
| File watching | `filesystem/src/node/disk-file-system-provider.ts` (`watch`), `filesystem-watcher-client.ts`, `filesystem-watcher-dispatcher.ts`, `parcel-watcher/parcel-filesystem-service.ts` | watcher ids and handles of each connection; watchers with reference counts, a deferred disposal and a native subscription | watch, unwatch, close, start, error, change, deferred disposal | two processes; a handle disposed before its id is known; a disposal that races a new reference or the start |
| Remote file system | `filesystem/src/common/remote-file-system-provider.ts`, `filesystem/src/node/filesystem-backend-module.ts` | the frontend's `watchOptions` and the listeners of its streams; per connection the watchers and the sequence of stream handles of the server | watch, unwatch, streamed reads and their cancellation, reconnect; single calls | watches are made again after a reconnect, also those whose call still waits; data before its handle; handles that begin at zero again |
| File service and file resources | `filesystem/src/browser/file-service.ts`, `file-resource.ts`, `core/src/common/resource.ts` | a resource's `_version` and `writingLock`; providers and activations | read, save, save changes, overwrite; sync; copy, move, delete | the version a save is checked against is read before the lock is waited for; a read that overlaps a save; a change that is compared with a version that is newer |
| Connection status | `core/src/browser/connection-status-service.ts` | online/offline, a ping timer | ping, activity, socket open and close | a ping answered after the socket was closed |
| Saveables | `core/src/browser/saveable.ts`, `saveable-service.ts`, `shell/application-shell.ts` (`closeMany`, `saveAll`), `common-frontend-contribution.ts` (`onWillStop`) | dirty documents, shared by tabs; throttles of autosave; tabs being closed | edit, autosave, close with and without saving, close many, save all before stopping | everything is awaited while the user goes on typing, opening and closing; saves fail loudly or quietly |
| Widgets, shell, tree | `core/src/browser/widget-manager.ts`, `shell/`, `tree/`, `view-container.ts` | widgets and pending widgets, layout, tree nodes and expansion | create, restore, dispose; refresh, expand, select | two requests for the same widget; refreshes that overlap |
| Preferences | `preferences/src/browser/preference-transaction-manager.ts`, `abstract-resource-preference-provider.ts`; `core/src/browser/preferences/` | the transactions of a provider, each with its queue, reference to the document and result; values per scope | set, dispose; merge of scopes, schemas | a transaction that ends while an action is queued; a dirty settings file; transactions that overlap |
| Workspace | `workspace/src/` | roots, workspace file, recent workspaces, trust | open, add and remove roots, save | updates while the workspace file changes |
| Remote development | `remote/src/` | SSH connections, forwarded ports, copied sources | connect, forward, set up | timeouts of setup steps |
| Backend and frontend applications | `core/src/node/backend-application.ts`, `core/src/browser/frontend-application.ts` | lifecycle state | initialize, configure, start, stop | - |
| Events, disposables, references, streams, cancellation | `core/src/common/event.ts`, `disposable.ts`, `reference.ts`, `stream.ts`, `cancellation.ts` | listeners, reference counts, stream buffers | register, fire, acquire, dispose, pause, cancel | re-entrant calls |
| Pure data structures and algorithms | `core/src/common/glob.ts`, `path.ts`, `uri.ts`, `ternary-search-tree.ts`, `keys.ts`, quick pick and label formatting | none | match, parse, look up | boundary values |
| Electron main and preload | `core/src/electron-main/`, `electron-browser/`, `electron-node/` | windows, close handshake, tokens | create, close, reload | the order of close events |
| User interface and the player | `player/src/`, `navigator/src/`, `markers/src/`, menus, keybindings, dialogs, themes, translations | view state | rendering, commands | - |
| Build tools | `dev-packages/`, `configs/`, `scripts/`, `electron-app/` | none at run time | generate, bundle, download | - |

A call from the user interface to the backend goes down through the layers: the proxy
(`RpcProxyFactory`) waits for an `RpcProtocol`, which numbers the request and writes it
on the service's channel; the `ChannelMultiplexer` prefixes it with the channel's path
and writes it on the main channel; `WebSocketConnectionSource` sends it on the socket, or
buffers it while the socket is disconnected. In the backend the same layers unpack it. A
connection *context* of the backend is the container with the services of one frontend;
`ReconnectableSocketChannel` lets it outlive its socket. The services reach the watcher
process over another RPC connection. Everything in one process is single threaded: an
action of a model is what runs between two awaits, callbacks or messages.

### 1.2 Hard behaviour

Section `hazards` of `PROJECT.json` lists the places, each with its line, and the
properties that would catch it going wrong, or the reason why none does yet.

The most exposed are: the loss of a transport at any point of a handshake; the backend
noticing that loss late; a path that is opened again while messages of its last life are
on their way; a Cancel that crosses the reply; a `commit()` that throws half way through
`sendRequest`; and, across the process boundary, a watcher that is disposed while it
starts, or that gets a new reference while its disposal is scheduled. In the frontend
alone it is what happens during an await that is hard: the file on disk changes between
the check of a save and the save, a document is edited while its tab is being closed, and
a transaction concludes while the next preference is being queued.

### 1.3 What makes each part correct

| Part | Properties |
|---|---|
| Main connection | the backend closes every context it loses track of; once the disconnects of old sockets are behind it, a served frontend stays served while its transport lasts; a reconnect that is answered goes on with the channel of the context it was answered for; whatever handshakes are lost, a frontend whose transport stays up ends up served; the context of a page that is gone is discarded |
| Write buffering | nothing arrives twice; what is written on an open channel reaches the context of that channel; one message per frame |
| Multiplexer | data written on a channel that is not over reaches that channel or nobody; unless a channel is closed that was over already, no channel loses its registration silently and the ends agree when nothing is on its way; opens are answered |
| Service connections | calls are sent on the protocol of the current main channel only; a service that was opened once is opened on every later main channel |
| RPC protocol | at most one handling and one answer for a request; each promise settles once; the maps have entries for open requests only, which include those whose commit threw and those that were answered without anyone waiting; cancellations reach the right handler, after its request; only the handler delays an answer |
| File watching | one live watcher for a (uri, options) pair; its references are its handles; it is disposed when unused and only then; no client loses its watcher without being told; closing a connection releases all it asked for |
| Remote file system | the server watches what the frontend wants; a stream is its file, from the start and in order; a read ends while its connection stays |
| File resources | no save goes through its check by a version the editor does not know, and the editor hears of every change it does not overwrite; both up to what others write between a content of the editor and its stat |
| Saveables | no text is lost that nobody declined to save; a tab that could not be closed can be closed again; autosave saves the last edit |
| Preferences | transactions do not overlap; who is told true has its value in the file, unless the save at the end of the transaction returned without writing; every call settles |

## 2. Plan

The order is by how much of the application rests on a part.

1. **Done**, with a run each: `RpcProtocol` and its abstract `RequestService`;
   `Multiplexer`; `ConnectionManagement`; `MainChannel`, which composes the connection
   with the data written on it; `ServiceConnection`; `FileWatching`; `RemoteFileSystem`;
   `FileResource`; `Saveables`; `PreferenceTransaction`. **Proved**: every invariant and
   action property that a run checks, and that `RpcProtocol` implements `RequestService`
   (section 5, with the hypotheses).
2. **More of the system**: the framing of messages over a byte stream
   (`BinaryMessagePipe`); a composition of `RpcProtocol` with `MainChannel` for handlers
   that outlive their channel; the ping timer of the connection status; the widget
   manager; the workspace's roots and file.
3. **More proofs**: of `Multiplexer` and `ServiceConnection` together, that a service is
   opened on the channel of the current connection; the refinements of 4.
4. **Abstract specifications worth stating**: `RequestService` (done); a reliable
   numbered pipe for `MainChannel`, restricted to transports that are not lost; a
   register with versions for `FileResource`.

| Module | Uses | Checked by | Proved in |
|---|---|---|---|
| `Multiplexer` | - | `MCMultiplexer` | `MultiplexerProofs` |
| `RpcProtocol` | instance of `RequestService` | itself | `RpcProtocolProofs` |
| `ConnectionManagement` | - | `MCConnectionManagement` | `ConnectionProofs` |
| `MainChannel` | extends `ConnectionManagement` | `MCMainChannel` | `ConnectionProofs` |
| `ServiceConnection` | - | itself | `ServiceConnectionProofs` |
| `FileWatching` | - | itself | `FileWatchingProofs` |
| `RemoteFileSystem` | - | itself | `FileProofs` |
| `FileResource` | - | itself | `FileProofs` |
| `Saveables` | - | `MCSaveables` | `SaveablesProofs` |
| `PreferenceTransaction` | - | itself | `PreferenceProofs` |

## 3. The models and the code

An action is one uninterrupted run of JavaScript: an event handler, a timer, or the code
between two awaits, with everything it calls. Objects that the code holds by reference
(channels, contexts, sockets, watchers) are numbered in the order of their creation, with
0 for `undefined`; the maps of the code are functions or sets over those numbers. Names
follow the source. `map` in `PROJECT.json` gives the lines each definition stands for.

Where two modules are used together, the second names its own `Init`, `Next` and `Spec`:
`DataInit`, `DataNext`, `DataSpec` in `MainChannel`, and `FileInit`, `FileNext`, `FileSpec`
in `FileResource`, which `FileProofs` extends together with `RemoteFileSystem`.

Definitions called `X_Suffix` next to a definition `X` (for instance
`WriteFails_Locked`) are mutations: what `X` would be with a plausible bug. No behaviour
uses them; for each property one is named in `PROJECT.json` that breaks it.

**`Multiplexer`** - both ends of a `ChannelMultiplexer` over one main channel. For each
end: `pendingOpen`, `openChannels` (path to channel object), `disposed`, the objects
that are `over` (closed, or told that they are), the object the caller of `open()`
`held`, and the inbox. `session` and `objects` say which opening of the path a message and
an object belong to; no guard reads them except the bounds. A `ForwardingChannel` checks
nothing when it is written on or closed, so `Write` and `CloseChannel` are possible for
every object that was ever made, also when another has been opened under its path since:
data is marked `late` when its object is over, and `closedAgain` counts the closes of
objects that are over (of which `MaxAgain` is the bound). `Open`, `HandleOpen`,
`HandleAckOpen`, `HandleClose`, `HandleData`, `Write`, `CloseChannel` and
`UnderlyingChannelClose` are the methods of the class.

**`RpcProtocol`** - one end sends requests, the other handles them. `pendingRequests`
and `listeners` are the client's maps; `armed` are the wrappers with a token listener in
them; `tokenSources` is the server's map, `running` its handlers. `SendRequest` is
`sendRequest` with a commit that succeeds, `SendRequestThrows` one whose first or second
commit throws, which happens when the write buffer is full: `pendingRequests` keeps the
entry, and the caller gets the exception. `CancelToken` cancels a token, which sends a
Cancel for every armed request that has it, in order of their ids. `HandlerResolves`,
`HandlerFails` and `AnswerIsLost` are the three ends of `handleRequest`.

**`RequestService`** - what the callers see of it: promises, and sets of requests that
travel, run or are answered. `RpcProtocol` implements it under the mapping that forgets
the order of messages and the maps.

**`ConnectionManagement`** - `WebSocketConnectionSource` against
`WebsocketFrontendConnectionService`. socket.io is external: a transport delivers in
order until it is lost, what the frontend emits while disconnected is kept until it
connects, and each connect is a new socket for the backend. The listeners of the
handshake messages are counted, because the code leaves some behind when a reply is
lost. The backend may notice that a socket is gone at any time after, also when the frontend
has connected again and has been served on the next socket, and may handle the handshake of
the old one then; `overtaken` is history and says that a handshake was handled after one of
a later socket. The configuration (`frontendConnectionTimeout` zero, positive or negative, and
`reloadOnReconnect`) is a variable that `Init` chooses. `HandleInitialConnect`,
`HandleReconnect`, `HandleMarkForClose`, `SocketDisconnected` and `TimeoutElapses` are
the backend's listeners and timers, all through `CloseConnection`; `Connect`,
`InitialConnectReceived`, `ReconnectSucceeded`, `ReconnectFailedReload` and
`ReconnectFailedRestart` the frontend's.

**`MainChannel`** - the same connection with data. Each action of `ConnectionManagement`
is conjoined with what it does to the data: `FlushAfterReconnect` with
`SocketWriteBuffer.flush`, `DrainAndRestart` and `NewChannel` with `drain`,
`ReconnectAndFlush` with the flush in `ReconnectableSocketChannel.connect`. Either end may
write on a channel it has closed, and what it writes then is marked `late`. A frame is
the sequence of messages one `socket.send` carries; its receiver handles the first.

**`ServiceConnection`** - one service path of `ServiceConnectionProvider` and the
`RpcProxyFactory` on it. An opener is the continuation of `openChannel`, of the `listen`
call or of `handleChannelCreated`. `hasty` are the calls made by a listener of
`onDidCloseConnection`, before `waitForConnection` has made a new `rpcDeferred`.

**`FileWatching`** - one (uri, options) pair. Requests are numbered in the order they
are sent, which is the order in which the service numbers them. `refs`, `handles`,
`watcher`, `timers` and `disposed` are the service's maps and the fields of its
`ParcelWatcher`s; `stage` is how far `start()` has got; `released` and `allocated` are
the fields of the handles `DiskFileSystemProvider.watch` returns.

**`RemoteFileSystem`** - `RemoteFileSystemProvider` and one `FileSystemProviderServer`
for every life of the service's channel. The proxy between them is one action wide: a
call is sent when the channel is open and kept otherwise, and a channel that closes
rejects what was sent on it. `Open` sends the calls that waited and then, from the second
connection on, every watch in `watchOptions` (`reconnect`): the listener that does so is
installed by the first connection only. `serving` is the server's streams; the handle of
one is its index. Each read is of a file of its own, so that a piece of another file
shows.

**`FileResource`** - one resource, its `version` and `writingLock`, with what
`Resource.save` and the file service do for it. A content is known by the number of the
write that made it, which is its modification time; its size stands beside it because
`modifiedSince` compares both. A save runs through `Enter` (the version is read),
`Validate` (with the lock), `Write` and `Written` (the file is resolved, the lock
released); a save of changes that fails begins again with the whole content
(`FallBack`), and a file that was modified makes the user choose between `Overwrite` and
`GiveUp`. A read takes the content and the stat in either order (`ReadHalf`,
`ReadDone`). `FilesChange`, `SyncStat` and `SyncCompare` are the three stretches of
`sync`. Other programs write and delete the file whenever they like (`OthersWrite`,
`OthersDelete`): between the check of a save and its write, between the write and the stat
that follows it, and between the two halves of a read. `seen`, `fired` and `between` are
history: what the editor has read or written (a read that takes the stat first begins with
that), whether it was told of a change, and what others put into the file while a content of
the editor waited for its stat.

**`Saveables`** - tabs that may share a document; a document's text is the number of the
edit that made it. `flow` says what is being awaited for a tab (its `closeWithSaving`), for
a document (its autosave), for `closeMany` and for the question before the application
stops. `Decide` is `shouldSaveWidget`, `Closed` the end of a tab and of a document with
its last tab, `Saved` and `NotSaved` the end of a save that worked, or that threw or left
the document dirty. The loops of `confirmSaveBeforeClose`, `closeMany` and `saveAll` are
single steps that nothing else interleaves (`InLoop`), because the code only gives up
control where it waits for a save, a revert or an answer. The window losing its focus
behaves like `FocusChanges` of several tabs.

**`PreferenceTransaction`** - the transactions of one `AbstractResourcePreferenceProvider`.
A transaction's queue is its mutex, whose owner is the head. `PreludeEnds` is the wait for
the transaction before, `Referenced`, `SetUpFails` and `SaveAndRetry` are `setUp` and the
question about a dirty editor, `Act` an action that gets the lock, `Done` is
`disposeWhenDone`, `Concluded` the synchronous part of `conclude`, `SaveEnds` and
`ConcludeEnds` the rest of it. The text model is external: the document is the set of
calls whose value it holds. A save of it writes, throws, or returns without having written
(`Resource.save` returns on a cancelled token, and the editor only shows some failures to
the user); the transaction takes the last for the first, and `unsaved`, which is history,
keeps the values that were left out.

## 4. The runs

| Run | Bounds | States | What it shows |
|---|---|---|---|
| `mux` | 1 path, 3 lives, 1 message each way, one close of an object that is over, opened by the frontend | 66 000 | `DataFindsItsSession`, `NoOrphanedChannel`, `EndsAgree`, `OpenIsAnswered`, although closes, acknowledgements, data and late writes of one life overlap the next |
| `rpc` | 2 messages, 2 tokens, commits may throw | 39 000 | the safety of the protocol, that it implements `RequestService`, that only the handler delays an answer, and that cancellations arrive |
| `conn` | 4 sockets; the defaults, the configuration of electron-app, a positive timeout with reload; losses noticed at any time | 318 000 | `OneContext`, `ServedUntilDisconnected`, `ReconnectResumesChannel`, `EventuallyServed`, `UnusedContextIsDiscarded` |
| `conn_closed_twice` | 2 sockets | - | violated: `NotCalledWithoutConnection`; the old socket's disconnect closes the connection that the new socket goes on with, and then the new socket's has none to close |
| `main_channel` | 3 sockets, 1 message from the frontend and 2 from the backend, room for 2 | 2 443 000 | `FrontendReceivesInOrder`, `BackendReceivesOnce`, `OpenChannelsReachTheirContext` |
| `main_channel_merged` | 2 sockets | - | violated: `OneMessagePerFrame`; two messages buffered in one disconnect are flushed as one, and the second is not read |
| `service_connection` | 3 main channels, 3 calls | 2 300 | `NoCallIsStranded`, `ServiceIsAccountedFor`, `CallsSettle` |
| `watch` | 2 connections, 2 watch requests, 1 change or error | 76 000 | five properties of file watching |
| `remote_files` | 1 watch, 2 reads of 2 pieces, 2 lives of the channel | 183 000 | `WatchesAgree`, `StreamIsTheFile`, `ReadsEnd` |
| `file_resource` | 2 saves, 1 read, 3 contents of the file, 2 sizes | 1 721 000 | `NoBlindOverwrite`, `ChangeIsNoticed` |
| `saveables` | 2 tabs of one document, 2 edits, 3 modes of autosave, `closeMany` that asks or does not save | 325 000 | `LossIsDeclined`, `ClosingEnds`, `AutoSaves` |
| `preferences` | 3 calls of `setPreference` | 880 000 | `OneTransactionAtATime`, `TrueIsSaved`, `CallsSettle` |

Why the bounds are enough to be interesting:

- Two lives of a path and one message are what it takes for a message to be mistaken for
  one of another life, and a third to see that it does no harm later. That paths do not
  disturb each other is left to the proof, which is for any set of paths.
- Two messages and two tokens let a Cancel cross a reply, a request and a notification
  share a token, and a commit throw on the first or the second write. With three messages
  and one token the run has 220 000 states and passes as well.
- Four sockets allow a context, a reconnect that fails or whose answer is lost, the restart
  and one more reconnect, while the disconnect of any of the sockets before is still to be
  noticed. Two sockets are what it takes for a disconnect to come late.
- One message of the frontend is enough to arrive twice or at the wrong context; two of the
  backend to arrive out of order, and to be flushed together or one after the other. A run
  with three messages of the backend passes as well (2 219 000 states), and so does one with
  one message of the frontend over four sockets (2 377 000): the fourth is what it takes for
  a buffer that was not drained to be flushed to the next context.
- Three main channels: one on which the first open is lost or succeeds, one on which the
  service is opened again, and one more that interrupts that.
- Two watch requests are one that starts a watcher and one that shares, revives, or
  replaces it.
- One watch and two lives give a watch that is made, dropped or made again in each; two
  reads of two pieces overlap on one server, and one can be left over from the first life.
- Two saves are one that holds the lock and one that waits with an old version; three
  contents are the first one and two that are written, by either save or by other programs,
  within any window; two sizes because the check compares sizes.
- Two tabs of one document are closed together, one after the other, or one is opened
  while the last is being closed; the second edit is made during the save of the first.
- Three calls fall into one, two or three transactions, of which the last waits for two.

The runs turn deadlock checking off: every bound ends in states with no step, and a
closed channel, a page that is gone, a set of closed clients or an application that has
stopped is an end of the program.

The type invariant is checked in `rpc`; those of the other modules with proofs are part
of what is proved.

### Fairness

- `Multiplexer`, `RpcProtocol`: weak fairness of handling what has arrived; the channel
  delivers and the event loop runs. Nothing is assumed of applications (opening,
  closing, cancelling) or of handlers (they may run for ever), hence
  `OnlyTheHandlerDelays`.
- `ConnectionManagement`: socket.io reconnects (`Connect`), messages of a transport that
  stays are delivered, both ends notice the loss of a transport in the end, and timers
  elapse. A transport may be lost for ever and ever: `EventuallyServed` is conditional on
  one that stays, and whose handshake finds the disconnects of the sockets before noticed
  (`HandshakeInOrder`).
- `ServiceConnection`: an open on a main channel that stays is answered
  (`OpenIsAnswered` of the multiplexer), and so is a call (`OnlyTheHandlerDelays`, and a
  handler that settles).
- `FileWatching`: messages of the RPC channel are handled, subscriptions succeed or
  fail, timeouts elapse. A path that does not exist may never exist.
- `RemoteFileSystem`: messages are handled at both ends, and the provider behind the
  server goes on with its streams. Nobody has to watch, read, or lose the connection.
- `FileResource`: the watcher tells of changes, what was called goes on, and the user
  answers the question of a save. One condition for all calls is enough, and weaker than one
  for each, because the calls of a run are finitely many; so in `PreferenceTransaction`.
  Nobody has to save or to read, and other programs may write whenever they like.
- `Saveables`: loops go on, timers fire, saves and reverts end in one way or another, and
  the user answers questions. Nobody has to edit or to close.
- `PreferenceTransaction`: the document is loaded, changed and saved in the end, with or
  without success, and the user answers the question about a dirty editor.

### Where the code disagrees with its comments

Two violated properties are listed under `findings` in `PROJECT.json`, each with the line of
the code and the sentence it contradicts:

- `main_channel_merged`: "A message has arrived and can be read by listeners"
  (`Channel.onMessage`). What was buffered in one disconnect is sent as one frame, of which
  only the first message is read.
- `conn_closed_twice`: `closeConnection` is "not called when no connection is present". The
  listener of an old socket's `disconnect` closes the connection under the frontend's id,
  which by then is the one that the next socket goes on with; the `disconnect` of that
  socket finds none.

### Known limits

What the properties do not promise, because the code does not. Each is what a premise of a
property leaves out, and can be reproduced by dropping that premise or by checking the named
property.

- **Late disconnects.** What the listener of a socket's `disconnect` does is for whatever
  context has the frontend's id by then: it detaches it, closes it (`conn_closed_twice`), or
  sets a timeout, which no handshake clears any more when the frontend is connected already,
  and which closes the context while it serves the frontend (`ContextIsKept`: with two
  sockets TLC finds it violated). Hence the premises `OldSocketsGone` and `timers = {}` of
  `ServedUntilDisconnected`, and `HandshakeInOrder` of `EventuallyServed`. The mark for close of a page that goes can be
  used by the late disconnect of an earlier socket in the same way, which discards the
  context just as well (`UnusedContextIsDiscarded`).
- **Handshakes out of turn.** The handshake of an old socket may be handled after that of
  the next, and attaches the context to the old socket (`overtaken`, a premise of
  `ReconnectResumesChannel`, `EventuallyServed` and `OpenChannelsReachTheirContext`).
- **A lost answer to an initial connect.** The frontend has closed its channel and asks
  again on the next socket, but with a reconnect, since it has had a channel; the backend,
  which has a context by now, answers with true, and the frontend goes on with the channel
  it has closed. This is the premise `initialListeners = 0` of `ReconnectResumesChannel` and
  `HandshakeInOrder`. It takes a configuration that keeps contexts without reloading
  (`KeptAndRestarted`), or a late disconnect.
- **The order of what the frontend writes.** `BackendReceivesOnce` says nothing of it: what
  is written after the socket has connected overtakes what is flushed when the reconnect is
  answered (`websocket-frontend-connection-service.ts:96`), and what is still on its way on
  an old socket may come after both.
- **Channels that are over.** A `ForwardingChannel` can be written on and closed after its
  end. A request handler that outlives its channel (`rpc-protocol.ts:231-245`) sends its
  answer to whatever has been opened under the path since, where its number may be that of
  another request: `DataFindsItsSession` is about data that is not `late`. A second `close()`
  takes away the registration of the channel that was opened since and sends its other end a
  Close: the properties of the multiplexer are about paths that are `ClosedOnce`.
- `OpenerHoldsRegisteredChannel` of `Multiplexer`, with `Openers <- BothOpen`: when both
  ends open the same path at once, which comments in `channel.ts` call an edge case, the
  first opener is left with a channel that is not registered. No code in the repository
  opens a path from both ends.
- **Commits that throw.** `pendingRequests` and the listeners of the tokens keep the entries
  of a request whose commit threw until an answer or the close of the channel
  (`EntriesAreOfOpenRequests` says so).
- `DisposedHasNoSubscription` of `FileWatching`: `ParcelWatcher.start` throws, because the
  watcher was disposed, before the code that would stop the subscription it has just got.
- `OnlyItsFile` of `RemoteFileSystem`: nothing ends a stream when its connection is lost,
  and the server of the next connection counts its handles from zero, so a read that is
  left over gets pieces of the file that has its handle now. `StreamIsTheFile` is about
  the reads of one connection.
- **A file written between a content and its stat.** A save writes and then asks for the
  stat of what it wrote (`file-service.ts:871`), and a read may get the content before the
  stat. What another program puts there in between (`between`) is taken for the editor's
  own: no change is reported, and the next save overwrites it unasked. What others write
  between the check of a save and its write is overwritten without having been checked; no
  check in user space can exclude that, and `NoBlindOverwrite` is about what the check finds.
- `DontSaveIsKept` of `Saveables`: "if false then won't be saved on close" says
  `application-shell.ts:2219` of `CloseOptions.save`, but while autosave is on a dirty tab
  is saved all the same (`saveable-service.ts:225`), as after the deletion of a folder.
- `StopsWhenSaved` of `Saveables`: "Save All" before the application stops counts as done
  although a save failed quietly, or a document that was saved was edited while another
  was being saved (`common-frontend-contribution.ts:1240`).
- **Saves that return without writing.** `tearDown` answers true after any save that does
  not throw (`preference-transaction-manager.ts:263`), so `setPreference` may answer true for
  a value that is not in the file; `TrueIsSaved` allows the values of just those saves
  (`unsaved`).

## 5. What is proved

### The RPC protocol

`RpcProtocolProofs` proves, for every `MaxMessages \in Nat`, every set `Tokens` and both
values of `CommitMayFail`:

- `TypeCorrect`: `Spec => []TypeOK`;
- `AnswerFindsRequestAlways`, `RequestInOnePlaceAlways`,
  `EntriesAreOfOpenRequestsAlways` and `CancelIsForItsRequestAlways`: the four safety
  invariants of the run `rpc`;
- `Inductive`: `Spec => []IInv`, the invariant behind them.

It also proves, from the same assumptions, `ServiceImplemented`:
`Spec => ImplementsRequestService`, that is, initial states map to initial states of
`RequestService` and every step to a step or a stutter. The mapping forgets positions, so
the lemmas first say what sending and receiving do to the sets of travelling and answered
requests; receiving removes exactly one only because of `RequestsAreDistinct`, and a reply
finds its promise only because of `UnansweredIsPending`. Two facts come on top of `IInv`
(`PromisesArePending`): an id that was not handed out has no promise yet; and a promise
that waits has its entry in `pendingRequests`, an entry a promise that waits or whose commit
threw. The first half is why the close of the channel leaves none waiting, the second why
`EntriesAreOfOpenRequestsAlways` holds.

None of the four is inductive alone. That an answer finds its request pending has to be
known earlier, when the request is still travelling or being handled
(`UnansweredIsPending`); that a new request does not collide with one under way needs
that ids from `nextMessageId` on occur nowhere (`IdsAreFresh`); that a request is not
handled twice needs that no two Requests on the channel have the same id
(`RequestsAreDistinct`); and that a handler is cancelled for its own token only needs
that every Cancel on the channel is for a cancelled token (`CancelsAreAskedFor`). `IInv`
is the conjunction of these with the properties and `TypeOK`. There is one lemma per
action, and `Inductive` puts them together. Lemmas on sending and receiving
(`SentToServer`, `ReceivedByServer`, `SentToClient`) say once what a send or a receipt
does to the elements of the two channels.

The assumptions are those in `RpcProtocol`: the bound is a natural number, `NoToken` is
not a token, `CommitMayFail` is a Boolean. The bound on messages is a constant without an
upper limit, so the theorems hold for runs of any length.

### Service connections

`ServiceConnectionProofs` proves, for every `MaxMains \in Nat` and every set of calls,
`ProtocolIsCurrentAlways` (with the type invariant), `NoCallIsStrandedEver` and
`ServiceIsAccountedForAlways`. The inductive invariant adds what the provider and the proxy
know of the main channel: `channelReadyDeferred` is resolved exactly while it is open,
opens are under way only while it is open, and openings by `handleChannelCreated` and
protocols exist only for a path that is installed. Without the last, a service that is lost
with its main channel could not be found again by the next.

### The main connection

`ConnectionProofs` proves `OneContextAlways` and the action properties
`ServedUntilDisconnectedAlways` and `ReconnectResumesChannelAlways`, for every
`MaxSockets \in Nat` and every set of configurations, with no hypothesis: the backend may
notice any disconnect as late as it likes. The inductive invariant `IInv` has three parts
on top of the types.

- `Links`: a socket is given to a context once, by its handshake. `watched` says to which,
  for ever; a context is attached only to a socket that is its own in this sense, listens to
  no other, and the answer on the way tells of it. That a handshake makes one context at
  most bounds their number (`created` in `StateType`).
- `Waiting`: the frontend waits for the answer to an initial connect exactly while it has no
  open channel, and only then are initial connects on their way, but for those that have
  been overtaken. A reconnect is asked for only by a frontend that has had a channel.
- `Agreement`, while no handshake was overtaken: a frontend that does not wait has the
  channel of the registered context, and the socket in use was given to that one, if any.

`OneContext` is proved on top, by what the steps of the connection do to the contexts
(`ContextSteps`): a context is created only when the one before is closed, and forgotten
only by `closeConnection`, which closes it. `ServedUntilDisconnected` follows from `Links`:
once the older sockets are gone the only one whose disconnect can still come is the one in
use, whose handshake is over. `ReconnectResumesChannel` follows from `Waiting` and
`Agreement`. That they hold only up to late disconnects, lost answers and handshakes out of
turn is said by the properties themselves (section 4, known limits).

### The data on the main connection

`ConnectionProofs` goes on with `MainChannel`: `FrontendReceivesInOrderAlways`,
`BackendReceivesOnceAlways` and `OpenChannelsReachTheirContextAlways`, for every number of
writes and every capacity of the buffers but zero. Steps of `MainChannel` are steps of
`ConnectionManagement`, so its invariant carries over (`DataSpecImpliesSpec`), and the data
needs four more.

- `UpOnce`: a number that the frontend has written is in one place at most of those it can
  still be received from: first in the buffer, first in one frame, or at the backend. Only
  the first message of a frame counts, since the receiver reads no other (run
  `main_channel_merged`); so a flush may merge messages and lose some, but doubles none.
- `DownOrder`: of each context, what has arrived, what is on its way and what is buffered
  have increasing numbers in this order.
- `DownContext`: a context buffers only while it is detached, only the socket in use carries
  anything to the frontend, and all of that was written by the context which that socket was
  given to. That is why a flush overtakes nothing: what its context has sent before is on
  the same socket, or lost.
- `UpContext`: what was written on an open channel is on a socket that has been given to the
  context of that channel or to none yet; and as long as neither that socket nor a later one
  has shaken hands, the frontend still has the channel, so that the handshake to come gives
  the socket to the right context (`Agreement`). `late` marks what is written on a channel
  already closed, of which the code promises nothing.

`WhereMeant` says the same of what has arrived.

### The multiplexer

`MultiplexerProofs` proves `DataFindsItsSessionAlways`, `NoOrphanedChannelAlways` and
`EndsAgreeAlways`, for every set of paths and all bounds, under the hypothesis
`Openers \subseteq {"front"}`: only the frontend opens channels, as everywhere in this
repository (section 4, known limits, says what happens otherwise). Writes on channels that
are over are anywhere among the messages: whether a message is `About` a path leaves them
out, and `handleData` changes nothing when it gets one. Closes of channels that are over
spoil their own path only: `IInv` says of each path that it is `Sound` if it is `ClosedOnce`,
and a path that is not never is again. `Sound(p)` numbers the channel objects (`ObjectsAt`:
the k-th object of an end is of the k-th session; only the last can be registered, and
exactly the others are over) and says which messages about the path can be in a queue at the
same time.

- `BackQueue`: to the backend travel messages of its last session, and after them perhaps
  the open of the next, once.
- `FrontQueue`: to the frontend travel messages of its last session, then perhaps one
  acknowledgement, and after it only messages of the session it begins.
- `FrontInv` ties the two to `pendingOpen`: an open that waits has its Open or its AckOpen
  on the way, never both, and the objects of the two ends differ by one exactly between the
  two.
- `QueueInv` and `CloseInv`: where one end has a channel and the other has none, a Close is
  on its way. It is what makes `handleOpen` never ignore an Open, since a channel that the
  backend still has when an Open is sent is closed by a message before it.

Lemmas about queues (`Arrives...`, `Handled...`) say what a message at the end or the front
of a queue does to these; the lemma of an action then argues about one path.

### File watching

`FileWatchingProofs` proves `OneLiveWatcherAlways` and `ReferencesAreHandlesAlways`, for
every set of clients and all bounds. Two facts are needed beside the types. A handle is
always for the watcher in the map (`HandlesOfTheWatcher`), since a watcher that goes takes
its handles with it. And a watch request that is on its way has no handle yet and comes
after as many others as there are watchers (`ToServiceInv`): ids are handed out in the
order of the requests, so that a new handle never takes the place of an old one, and a
watcher that is created is new.

### The remote file system

`FileProofs` proves `WatchesAgreeAlways` and `StreamIsTheFileAlways` of `RemoteFileSystem`,
for any bounds and with no hypothesis.

- For watches the inductive invariant (`WatchInv`) says what the calls that are on their way
  will do: the last call about an id decides (`MadeAfter`). A connection that opens first
  sends the calls that waited and then every watch that is wanted, so that watches that
  waited are made twice and an unwatch that waited comes before any watch that follows it
  (`MadeByConcat`). Of the order in which watches are made
  again nothing is used (`WatchAgainCalls`).
- For streams it says what the messages on their way are about (`MessageInv`): the number
  of a stream comes before all its pieces and its end after them, and names a stream of
  this connection. `ReadInv` adds up: what a read has got and what is on its way for its
  handle is what the server has sent of its file, so a read that ends has everything. The
  pieces on their way are counted with `Cardinality`; lemmas say how a message that is sent
  or received changes the count. Reads that are left from another connection are left out,
  as in the property (known limits: `OnlyItsFile`).

### File resources

`FileProofs` also proves `NoBlindOverwriteAlways` of `FileResource`, for all sets of calls
and sizes and all bounds, with no hypothesis: other programs write whenever they like. What
the editor takes for its own (`Known`) is what it has read or written, and what others put
between one of these and its stat. The invariant is that a modification time tells a content
from all others the file had (`Was`), that the version of the resource and what a save
expects are known (`SeenInv`, `SaveInv`), and that whatever is found between the two halves
of a read, or after a write, is known as well, because whoever puts it there makes it so
(`HalfReadInv`). A save that passes its check without a question therefore finds a content
with the modification time, hence the identity, of a known one; or it finds an equal size,
where `modifiedSince` lets it pass, which the property says too.

### Saveables

`SaveablesProofs` proves the action property `LossIsDeclinedAlways`, for all tabs,
documents, edits, modes and options. Three things put another text in the place of a
document's: a revert, the last tab that closes, and a save that ends while the document
shows what the file held. That only the first can lose anything needs that files are never
ahead of their documents (`InTime`), and that a save under way writes nothing older than
the file holds (`SavesInOrder`), although the flows of several tabs may save one document.
Most actions change neither texts nor files (`CalmKeeps`).

### Preferences

`PreferenceProofs` proves, for every set of calls, `OneTransactionAtATimeAlways` and
`TrueIsSavedAlways`, from the assumption that the two things a queue begins with are not
calls. The inductive invariant has three parts on top of the type invariant.

- `Chain` is about the transactions: only the last one is open; all but the last have
  left their prelude; one that has left its prelude has only finished ones before it; and
  while the provider lives, a transaction that is closed has an empty queue. One action
  lemma each shows that a step changes one transaction in a way the others can bear
  (`ChainStep`).
- `CallsInv`: calls are in the queue of their own transaction.
- `SavedInv`: as long as a call waits for its result, its value is where the transaction
  will find it (`Kept`): in the document while the transaction is open, in what is being
  saved, and then in the file, or among what the save of that very transaction left out
  without saying so (`unsaved`). The argument rests on `AloneIs`: a transaction that may lose
  the document's unsaved text, because its set up or its save failed, is the only one that
  has begun and is not over, so nobody else's value is lost.

No induction over the queue is needed: a queue is only looked at by its head, and what it
holds can only shrink, except when a call is queued.

## 6. What is only model-checked

- Liveness: `OpenIsAnswered` of `Multiplexer`; `OnlyTheHandlerDelays` and
  `CancellationArrives` of `RpcProtocol`; `EventuallyServed` and `UnusedContextIsDiscarded`
  of `ConnectionManagement`; `LossIsTold`, `ClosedClientIsReleased` and `UnusedIsDisposed`
  of `FileWatching`; `CallsSettle` of `ServiceConnection` and of `PreferenceTransaction`;
  `ReadsEnd` of `RemoteFileSystem`; `ChangeIsNoticed` of `FileResource`; `ClosingEnds` and
  `AutoSaves` of `Saveables`. They depend on fairness, and so on when actions are `ENABLED`,
  of which the prover used here knows nothing.
- What the theorem of the multiplexer says without its hypothesis, that only the frontend
  opens channels. No other theorem has one beyond the assumptions on the constants.

## 7. What is not modelled

- Bytes: encodings, sizes, the splitting of streams. A message is what it means.
- More than one frontend: the maps of the backend are keyed by frontend id, and no
  operation on one key touches another (except the file watching service, which
  `FileWatching` models with two clients).
- Errors reported by sockets (`onErrorEmitter`): they change no state.
- The modes `clientOnly` and `serverOnly` of `RpcProtocol`; a protocol that is both is
  two instances of the model that share nothing but the id counters of their own ends.
- Untitled documents and saving under another name; large and binary files; the other
  readers of a settings file; the merging of preference scopes.
- The framing of `BinaryMessagePipe`, child processes, the connection status, the widget
  manager, the workspace, remote development and everything else listed as
  `not_modelled` in `PROJECT.json`, with its reason there. Most of the lines of the
  repository are user interface (widgets, menus, views, styles): they keep view state and
  call the parts above, and have no protocol of their own to state properties about.
