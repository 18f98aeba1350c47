------------------------- MODULE ConnectionManagement -------------------------
(***************************************************************************)
(* The main connection between one frontend (a loaded page with its front  *)
(* end id) and the backend: WebSocketConnectionSource in                   *)
(* packages/core/src/browser/messaging/ws-connection-source.ts and         *)
(* WebsocketFrontendConnectionService in                                   *)
(* packages/core/src/node/messaging/websocket-frontend-connection-service.ts. *)
(*                                                                         *)
(* socket.io is external.  The frontend's Socket is one object; each time  *)
(* it connects, the backend sees a new socket, numbered here in order.     *)
(* A transport delivers in order until it is lost; what was on its way to  *)
(* the backend may still arrive until the backend notices the loss, which  *)
(* it may do late (a ping timeout).  What the frontend emits while it is   *)
(* disconnected is kept and sent when it connects, before its 'connect'    *)
(* listeners run.                                                          *)
(*                                                                         *)
(* A connection context of the backend (a ReconnectableSocketChannel with  *)
(* the services on it) is numbered in order of creation.                   *)
(***************************************************************************)
EXTENDS Naturals, Sequences, FiniteSets

CONSTANTS MaxSockets,         \* bound on the number of times the frontend connects
          Configurations      \* what the application may be configured with

\* frontendConnectionTimeout of the backend (= 0, > 0 or < 0) and reloadOnReconnect of
\* the frontend.
Configuration == [connectionTimeout : {"zero", "positive", "never"},
                  reloadOnReconnect : BOOLEAN]

ASSUME MaxSocketsAssumption == MaxSockets \in Nat
ASSUME ConfigurationsAssumption == Configurations \subseteq Configuration

Sockets == 1..MaxSockets

VARIABLES
  config,              \* the configuration, which does not change
  \* the frontend
  socket,              \* number of the last socket the frontend connected with
  connected,           \* socket.connected
  emitted,             \* INITIAL_CONNECTs emitted while disconnected
  currentChannel,      \* context its current channel was created for, 0: none
  channelOpen,         \* that channel has not been closed
  reconnectListeners,  \* listeners of RECONNECT
  initialListeners,    \* listeners of INITIAL_CONNECT
  pageGone,            \* the page was reloaded or closed
  \* the backend
  listening,           \* sockets with the two listeners of handleConnection
  overtaken,           \* history: a handshake was handled after one of a later socket
  watched,             \* [socket -> context its disconnect listener is for, 0: none]
  gone,                \* sockets whose disconnect event has fired
  connection,          \* connectionsByFrontend.get(id), 0: none
  created,             \* number of contexts created
  closed,              \* contexts closed
  attached,            \* [context -> socket of the channel, 0: undefined]
  disposables,         \* [context -> socket whose listeners disconnect() removes]
  dataListeners,       \* pairs <<socket, context>> with a message listener
  timers,              \* timeouts that are set and neither cleared nor fired
  timerCount,          \* number of timeouts set
  closeTimeout,        \* closeTimeouts.get(id), 0: none
  marked,              \* the id is in channelsMarkedForClose
  closedNothing,       \* closeConnection ran into a missing connection
  \* the transports
  up, down

frontend == <<socket, connected, emitted, currentChannel, channelOpen,
              reconnectListeners, initialListeners, pageGone>>
contexts == <<connection, created, closed, attached, disposables, dataListeners,
              timers, timerCount, closeTimeout, closedNothing>>
vars == <<config, frontend, listening, overtaken, watched, gone, contexts, marked,
          up, down>>

InitialConnect == [type |-> "INITIAL_CONNECT"]
Reconnect == [type |-> "RECONNECT"]
MarkForClose == [type |-> "markForClose"]
InitialReply(c) == [type |-> "INITIAL_CONNECT", context |-> c]
ReconnectReply(c) == [type |-> "RECONNECT", context |-> c]  \* 0: false

Contexts == 1..created

Init ==
  /\ config \in Configurations
  /\ socket = 0
  /\ connected = FALSE
  /\ emitted = 0
  /\ currentChannel = 0
  /\ channelOpen = FALSE
  /\ reconnectListeners = 0
  /\ initialListeners = 0
  /\ pageGone = FALSE
  /\ listening = {}
  /\ overtaken = FALSE
  /\ watched = [k \in Sockets |-> 0]
  /\ gone = {}
  /\ connection = 0
  /\ created = 0
  /\ closed = {}
  /\ attached = [c \in Sockets |-> 0]
  /\ disposables = [c \in Sockets |-> 0]
  /\ dataListeners = {}
  /\ timers = {}
  /\ timerCount = 0
  /\ closeTimeout = 0
  /\ marked = FALSE
  /\ closedNothing = FALSE
  /\ up = [k \in Sockets |-> <<>>]
  /\ down = [k \in Sockets |-> <<>>]

-----------------------------------------------------------------------------
(***************************************************************************)
(* The transport.                                                          *)
(***************************************************************************)

\* The frontend has had a channel (a mutation asks whether it has been connected).
HasChannel_Connected == socket > 0

HasChannel == currentChannel # 0

\* The socket connects.  What was emitted meanwhile goes out first; then the
\* 'connect' listener, handleSocketConnected, starts a reconnect if the frontend
\* has had a channel, and an initial connect otherwise.  The backend's
\* handleConnection installs its two listeners on the new socket.
Connect ==
  /\ ~connected
  /\ ~pageGone
  /\ socket < MaxSockets
  /\ socket' = socket + 1
  /\ connected' = TRUE
  /\ emitted' = 0
  /\ listening' = listening \union {socket + 1}
  /\ LET kept == [i \in 1..emitted |-> InitialConnect] IN
     \/ /\ HasChannel
        /\ reconnectListeners' = reconnectListeners + 1
        /\ up' = [up EXCEPT ![socket + 1] = Append(kept, Reconnect)]
        /\ UNCHANGED initialListeners
     \/ /\ ~HasChannel
        /\ initialListeners' = initialListeners + 1
        /\ up' = [up EXCEPT ![socket + 1] = Append(kept, InitialConnect)]
        /\ UNCHANGED reconnectListeners
  /\ UNCHANGED <<config, currentChannel, channelOpen, pageGone, overtaken, watched, gone,
                 contexts, marked, down>>

\* The frontend loses the transport: nothing more reaches it.
TransportLost ==
  /\ connected
  /\ connected' = FALSE
  /\ down' = [down EXCEPT ![socket] = <<>>]
  /\ UNCHANGED <<config, socket, emitted, currentChannel, channelOpen, reconnectListeners,
                 initialListeners, pageGone, listening, overtaken, watched, gone,
                 contexts, marked, up>>

UsedByFrontend(k) == connected /\ k = socket

ToFrontend(k, m) ==
  down' = IF UsedByFrontend(k) THEN [down EXCEPT ![k] = Append(@, m)] ELSE down

-----------------------------------------------------------------------------
(***************************************************************************)
(* The backend.                                                            *)
(***************************************************************************)

\* The close timeout is cleared and its entry deleted, from a state in which the
\* timeouts ts are set (a mutation leaves out the clearing).
ClearTimeout_Runs(ts) == timers' = ts /\ closeTimeout' = 0

ClearTimeout(ts) == timers' = ts \ {closeTimeout} /\ closeTimeout' = 0

\* closeConnection closes the context that is registered.
Close_Not == UNCHANGED closed

Close == closed' = closed \union ({connection} \ {0})

\* closeConnection.  With no connection in the map it throws once the map and the
\* timeout are cleaned.
CloseConnection(ts) ==
  /\ connection' = 0
  /\ closedNothing' = (closedNothing \/ connection = 0)
  /\ ClearTimeout(ts)
  /\ Close

\* channel.connect(socket), with new disposables, and handleSocketDisconnect (which a
\* mutation leaves out).
Attach_Unwatched(c, k) ==
  /\ attached' = [attached EXCEPT ![c] = k]
  /\ disposables' = [disposables EXCEPT ![c] = k]
  /\ dataListeners' = dataListeners \union {<<k, c>>}
  /\ UNCHANGED watched

Attach(c, k) ==
  /\ attached' = [attached EXCEPT ![c] = k]
  /\ disposables' = [disposables EXCEPT ![c] = k]
  /\ dataListeners' = dataListeners \union {<<k, c>>}
  /\ watched' = [watched EXCEPT ![k] = c]

\* The first message of socket k is of type t; it is taken off.
Arrives(k, t) ==
  /\ k \notin gone
  /\ up[k] # <<>>
  /\ Head(up[k]).type = t
  /\ up' = [up EXCEPT ![k] = Tail(@)]

\* Both listeners of handleConnection take themselves off the socket (which a mutation
\* leaves out).
HandshakeHandled_Stays(k) ==
  /\ listening' = listening
  /\ overtaken' = (overtaken \/ \E j \in k + 1..socket : j \notin listening)

HandshakeHandled(k) ==
  /\ listening' = listening \ {k}
  /\ overtaken' = (overtaken \/ \E j \in k + 1..socket : j \notin listening)

\* A handshake message on a socket that had one already finds no listener.
IgnoredHandshake(k) ==
  /\ k \notin listening
  /\ Arrives(k, "INITIAL_CONNECT") \/ Arrives(k, "RECONNECT")
  /\ UNCHANGED <<config, frontend, listening, overtaken, watched, gone, contexts, marked,
                 down>>

\* initialConnectListener: an existing context is closed, a new one created on
\* this socket, its disconnect watched, and the frontend answered.
HandleInitialConnect(k) ==
  LET c == created + 1 IN
  /\ k \in listening
  /\ Arrives(k, "INITIAL_CONNECT")
  /\ HandshakeHandled(k)
  /\ created' = c
  /\ connection' = c
  /\ IF connection # 0
     THEN Close /\ ClearTimeout(timers)
     ELSE UNCHANGED <<closed, timers, closeTimeout>>
  /\ Attach(c, k)
  /\ ToFrontend(k, InitialReply(c))
  /\ UNCHANGED <<config, frontend, gone, timerCount, closedNothing, marked>>

\* reconnectListener: an existing context is connected to this socket, with new
\* disposables, and its close timeout cleared; otherwise the reply is false.
HandleReconnect(k) ==
  /\ k \in listening
  /\ Arrives(k, "RECONNECT")
  /\ HandshakeHandled(k)
  /\ ToFrontend(k, ReconnectReply(connection))
  /\ \/ /\ connection # 0
        /\ Attach(connection, k)
        /\ ClearTimeout(timers)
     \/ /\ connection = 0
        /\ UNCHANGED <<attached, disposables, dataListeners, watched, timers, closeTimeout>>
  /\ UNCHANGED <<config, frontend, gone, connection, created, closed, timerCount,
                 closedNothing, marked>>

\* ConnectionCloseService.markForClose, called over a service channel: it arrives
\* at the contexts that listen to the socket and are not closed.
HandleMarkForClose(k) ==
  /\ Arrives(k, "markForClose")
  /\ marked' = (marked \/ \E c \in Contexts \ closed : <<k, c>> \in dataListeners)
  /\ UNCHANGED <<config, frontend, listening, overtaken, watched, gone, contexts, down>>

\* The backend finds socket k disconnected, before or after the frontend does.  The
\* listener installed by handleSocketDisconnect detaches the context it was installed
\* for, and closes the connection of the front end id at once, after a timeout, or never.
SocketDisconnected(k) ==
  /\ k \in 1..socket \ gone
  /\ gone' = gone \union {k}
  /\ up' = [up EXCEPT ![k] = <<>>]
  /\ LET c == watched[k] IN
     \/ /\ c = 0
        /\ UNCHANGED <<contexts, marked>>
     \/ /\ c # 0
        /\ attached' = [attached EXCEPT ![c] = 0]
        /\ dataListeners' = dataListeners \ {<<disposables[c], c>>}
        /\ disposables' = [disposables EXCEPT ![c] = 0]
        /\ marked' = FALSE
        /\ \/ /\ config.connectionTimeout = "zero" \/ marked
              /\ CloseConnection(timers)
              /\ UNCHANGED timerCount
           \/ /\ config.connectionTimeout = "positive" /\ ~marked
              /\ timerCount' = timerCount + 1
              /\ timers' = timers \union {timerCount + 1}
              /\ closeTimeout' = timerCount + 1
              /\ UNCHANGED <<connection, closed, closedNothing>>
           \/ /\ config.connectionTimeout = "never" /\ ~marked
              /\ UNCHANGED <<connection, closed, closedNothing, timers, timerCount,
                             closeTimeout>>
        /\ UNCHANGED created
  /\ UNCHANGED <<config, frontend, listening, overtaken, watched, down>>

\* A close timeout elapses.
TimeoutElapses(h) ==
  /\ h \in timers
  /\ CloseConnection(timers \ {h})
  /\ UNCHANGED <<config, frontend, listening, overtaken, watched, gone, created, attached,
                 disposables, dataListeners, timerCount, marked, up, down>>

-----------------------------------------------------------------------------
(***************************************************************************)
(* The frontend.                                                           *)
(***************************************************************************)

Answered(t) ==
  /\ connected
  /\ ~pageGone
  /\ down[socket] # <<>>
  /\ Head(down[socket]).type = t

\* connectNewChannel closes the channel there is and makes one for context c (a mutation
\* goes on with the one there is).
ConnectNewChannel_Reuses(c) ==
  /\ channelOpen' = TRUE
  /\ currentChannel' = IF HasChannel THEN currentChannel ELSE c

ConnectNewChannel(c) == channelOpen' = TRUE /\ currentChannel' = c

\* Every initialConnectListener removes itself and calls connectNewChannel; the
\* channel of the last one stays.
InitialConnectReceived ==
  /\ Answered("INITIAL_CONNECT")
  /\ down' = [down EXCEPT ![socket] = Tail(@)]
  /\ initialListeners' = 0
  /\ IF initialListeners > 0
     THEN ConnectNewChannel(Head(down[socket]).context)
     ELSE UNCHANGED <<currentChannel, channelOpen>>
  /\ UNCHANGED <<config, socket, connected, emitted, reconnectListeners, pageGone, listening,
                 overtaken, watched, gone, contexts, marked, up>>

\* Every reconnectListener removes itself.  true: the write buffer is flushed.
ReconnectSucceeded ==
  /\ Answered("RECONNECT")
  /\ Head(down[socket]).context # 0 \/ reconnectListeners = 0
  /\ down' = [down EXCEPT ![socket] = Tail(@)]
  /\ reconnectListeners' = 0
  /\ UNCHANGED <<config, socket, connected, emitted, currentChannel, channelOpen,
                 initialListeners, pageGone, listening, overtaken, watched, gone,
                 contexts, marked, up>>

\* false, reloading: the page goes, and with it the front end id.
ReconnectFailedReload ==
  /\ config.reloadOnReconnect
  /\ Answered("RECONNECT")
  /\ Head(down[socket]).context = 0 /\ reconnectListeners > 0
  /\ down' = [down EXCEPT ![socket] = Tail(@)]
  /\ reconnectListeners' = 0
  /\ pageGone' = TRUE
  /\ UNCHANGED <<config, socket, connected, emitted, currentChannel, channelOpen,
                 initialListeners, listening, overtaken, watched, gone, contexts, marked,
                 up>>

\* false, not reloading: the channel is closed, the socket disconnected and told to
\* connect again, and an initial connect emitted, by every reconnectListener.
ReconnectFailedRestart ==
  /\ ~config.reloadOnReconnect
  /\ Answered("RECONNECT")
  /\ Head(down[socket]).context = 0 /\ reconnectListeners > 0
  /\ channelOpen' = FALSE
  /\ connected' = FALSE
  /\ down' = [down EXCEPT ![socket] = <<>>]
  /\ reconnectListeners' = 0
  /\ initialListeners' = initialListeners + reconnectListeners
  /\ emitted' = emitted + reconnectListeners
  /\ UNCHANGED <<config, socket, currentChannel, pageGone, listening, overtaken, watched,
                 gone, contexts, marked, up>>

\* The window is about to close or reload: the id is marked over the open channel.
AboutToClose ==
  /\ connected /\ channelOpen /\ ~pageGone
  /\ pageGone' = TRUE
  /\ up' = [up EXCEPT ![socket] = Append(@, MarkForClose)]
  /\ UNCHANGED <<config, socket, connected, emitted, currentChannel, channelOpen,
                 reconnectListeners, initialListeners, listening, overtaken, watched, gone,
                 contexts, marked, down>>

-----------------------------------------------------------------------------
BackendReceives(k) ==
  \/ IgnoredHandshake(k)
  \/ HandleInitialConnect(k)
  \/ HandleReconnect(k)
  \/ HandleMarkForClose(k)

FrontendReceives ==
  \/ InitialConnectReceived
  \/ ReconnectSucceeded
  \/ ReconnectFailedReload
  \/ ReconnectFailedRestart

Next ==
  \/ Connect
  \/ TransportLost
  \/ \E k \in Sockets : BackendReceives(k) \/ SocketDisconnected(k)
  \/ \E h \in timers : TimeoutElapses(h)
  \/ FrontendReceives
  \/ AboutToClose

Spec == Init /\ [][Next]_vars

\* socket.io keeps trying to connect (reconnectionAttempts: Infinity), delivers over a
\* transport that lasts, and both its ends notice a lost one by their pings; a timeout
\* elapses; the transport of a page that is gone ends.
FairSpec ==
  /\ Spec
  /\ WF_vars(Connect)
  /\ WF_vars((pageGone \/ socket \in gone) /\ TransportLost)
  /\ WF_vars(FrontendReceives)
  /\ \A k \in Sockets :
       WF_vars(BackendReceives(k)) /\ WF_vars(~UsedByFrontend(k) /\ SocketDisconnected(k))
  /\ \A h \in Sockets : WF_vars(h \in timers /\ TimeoutElapses(h))

-----------------------------------------------------------------------------
(***************************************************************************)
(* Properties.  Each names what of a late disconnect it cannot do without: *)
(* the disconnect of a socket may be noticed when the front end has        *)
(* reconnected, and what it does then is for the context the front end is  *)
(* using again (NotCalledWithoutConnection and ContextIsKept fail).        *)
(***************************************************************************)

\* The front end is served: the channel it uses is open and is the one of the context
\* that the backend has for it and has attached to the socket in use.
Served ==
  /\ channelOpen
  /\ connection # 0 /\ connection \notin closed
  /\ currentChannel = connection
  /\ attached[connection] = socket
  /\ <<socket, connection>> \in dataListeners

\* The disconnect of every socket before the one in use has been noticed.
OldSocketsGone == 1..socket - 1 \subseteq gone

\* The backend keeps no context, with the services on it, that it has lost track of:
\* every context created is closed but the one registered for the front end id, however
\* handshakes, disconnects and timeouts interleave (connectionsByFrontend against the
\* contexts created and closed).
OneContext == Contexts \ closed = {connection} \ {0}

\* A context that serves the front end is neither closed nor detached while the
\* transport lasts, once the sockets before are gone and no timeout is set (a second
\* handshake, a reply or a listener left over from another socket would do it).
ServedUntilDisconnected ==
  [][/\ Served /\ OldSocketsGone /\ timers = {}
     /\ connected /\ connected' /\ socket \notin gone'
     => Served']_vars

\* When the answer to a reconnect is true, what the front end goes on with is a channel
\* that is open and is the channel of the context that the backend has reconnected.  There
\* are two exceptions: handshakes handled out of turn, and an initial connect whose answer
\* was lost (the front end then goes on with the channel it has closed).
ReconnectResumesChannel ==
  [][/\ ReconnectSucceeded /\ Head(down[socket]).context # 0
     /\ ~overtaken /\ initialListeners = 0
     => channelOpen /\ currentChannel = Head(down[socket]).context]_vars

\* The handshake of the socket in use is still to be handled, when the sockets before are
\* gone and no timeout is left but one that the handshake clears; and it asks for a
\* context to go on with only when the front end has its channel.
HandshakeInOrder ==
  /\ socket \in listening \ gone
  /\ OldSocketsGone /\ ~overtaken
  /\ timers \subseteq {closeTimeout}
  /\ timers # {} => connection # 0
  /\ Head(up[socket]) = Reconnect => initialListeners = 0

\* If the transport stays up after such a handshake was sent, then the front end ends up
\* served, for good (unless its page goes), whatever was lost before.
EventuallyServed ==
  [](HandshakeInOrder /\ [](connected /\ ~pageGone) => <>[]Served)

\* A context that nobody will use again is eventually discarded: that of a page that is
\* gone for good, unless contexts are kept for ever by configuration, and that of a
\* front end marked for close, even then.
UnusedContextIsDiscarded ==
  marked \/ (pageGone /\ config.connectionTimeout # "never") ~> connection = 0

\* "not called when no connection is present": closeConnection finds a context to close.
NotCalledWithoutConnection == ~closedNothing

\* "The duration in milliseconds during which the backend keeps the connection contexts
\* for the frontend to reconnect": a timeout does not close the context of a front end
\* that has connected again and is served.
ContextIsKept == [][(\E h \in timers : TimeoutElapses(h)) => ~Served]_vars
=============================================================================
