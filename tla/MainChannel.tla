----------------------------- MODULE MainChannel -----------------------------
(***************************************************************************)
(* What is written on the two ends of the main connection, on top of       *)
(* ConnectionManagement: the channel of WebSocketConnectionSource.         *)
(* createChannel, the backend's ReconnectableSocketChannel, and the        *)
(* SocketWriteBuffer of each (packages/core/src/common/messaging/          *)
(* socket-write-buffer.ts).                                                *)
(*                                                                         *)
(* An end sends each message in a frame of its own while its socket is     *)
(* connected, and buffers it otherwise; a flush sends all that is buffered *)
(* in one frame.  A receiver reads one message from a frame.  Handshakes   *)
(* are the first messages of a socket in either direction, so data waits   *)
(* for them.                                                               *)
(*                                                                         *)
(* A channel of the frontend has the number of the context it was made     *)
(* for.  Channels that are closed can still be written on: a request       *)
(* handler that outlives its channel writes its answer.                    *)
(***************************************************************************)
EXTENDS ConnectionManagement, SequencesExt

Ends == {"frontend", "backend"}

CONSTANTS MaxWrites,  \* [end -> bound on the messages it writes]
          Capacity    \* number of messages that fit into a SocketWriteBuffer

ASSUME DataBoundsAssumption == MaxWrites \in [Ends -> Nat] /\ Capacity \in Nat \ {0}

VARIABLES
  channels,    \* contexts the frontend has made a channel for
  buffer,      \* writeBuffer of the frontend
  buffers,     \* [context -> socketBuffer of the backend]
  upFrames,    \* [socket -> frames on their way to the backend]
  downFrames,  \* [socket -> frames on their way to the frontend]
  written,     \* [end -> number of messages written]
  atFrontend,  \* history: what the frontend's channels handled, in order
  atBackend    \* history: what the contexts handled, in order

data == <<channels, buffer, buffers, upFrames, downFrames, written, atFrontend, atBackend>>
allVars == <<vars, data>>

DataInit ==
  /\ channels = {}
  /\ buffer = <<>>
  /\ buffers = [c \in Sockets |-> <<>>]
  /\ upFrames = [k \in Sockets |-> <<>>]
  /\ downFrames = [k \in Sockets |-> <<>>]
  /\ written = [e \in Ends |-> 0]
  /\ atFrontend = <<>>
  /\ atBackend = <<>>

-----------------------------------------------------------------------------
(***************************************************************************)
(* SocketWriteBuffer.                                                      *)
(***************************************************************************)

\* buffer(data): beyond the capacity it throws, and the message is refused.
Buffered(b, m) == IF Len(b) < Capacity THEN Append(b, m) ELSE b

\* flush(socket): what is buffered becomes one frame on the frames fs.
Flushed(fs, b) == IF b = <<>> THEN fs ELSE Append(fs, b)

\* What is left in a buffer that was flushed (a mutation forgets to empty it), and in one
\* that was drained.
AfterFlush_Kept(b) == b

AfterFlush(b) == <<>>

AfterDrain(b) == <<>>

-----------------------------------------------------------------------------
(***************************************************************************)
(* The actions of ConnectionManagement, with what they do to the data.     *)
(***************************************************************************)

\* Nothing more reaches the frontend on the socket it leaves.
LostWithTransport ==
  /\ TransportLost
  /\ downFrames' = [downFrames EXCEPT ![socket] = <<>>]
  /\ UNCHANGED <<channels, buffer, buffers, upFrames, written, atFrontend, atBackend>>

\* channel.connect(socket) flushes the buffer of the context, after the reply.
ReconnectAndFlush(k) ==
  /\ HandleReconnect(k)
  /\ \/ /\ connection # 0
        /\ buffers' = [buffers EXCEPT ![connection] = AfterFlush(@)]
        /\ downFrames' = IF UsedByFrontend(k)
                         THEN [downFrames EXCEPT ![k] = Flushed(@, buffers[connection])]
                         ELSE downFrames
     \/ /\ connection = 0
        /\ UNCHANGED <<buffers, downFrames>>
  /\ UNCHANGED <<channels, buffer, upFrames, written, atFrontend, atBackend>>

DisconnectedAndLost(k) ==
  /\ SocketDisconnected(k)
  /\ upFrames' = [upFrames EXCEPT ![k] = <<>>]
  /\ UNCHANGED <<channels, buffer, buffers, downFrames, written, atFrontend, atBackend>>

\* connectNewChannel drains the buffer and makes a channel.
NewChannel ==
  /\ InitialConnectReceived
  /\ IF initialListeners > 0
     THEN /\ buffer' = AfterDrain(buffer)
          /\ channels' = channels \union {currentChannel'}
     ELSE UNCHANGED <<buffer, channels>>
  /\ UNCHANGED <<buffers, upFrames, downFrames, written, atFrontend, atBackend>>

\* The reply true: the buffer is flushed, once the frontend could write on the new
\* socket already.
FlushAfterReconnect ==
  /\ ReconnectSucceeded
  /\ IF reconnectListeners > 0
     THEN /\ upFrames' = [upFrames EXCEPT ![socket] = Flushed(@, buffer)]
          /\ buffer' = AfterFlush(buffer)
     ELSE UNCHANGED <<upFrames, buffer>>
  /\ UNCHANGED <<channels, buffers, downFrames, written, atFrontend, atBackend>>

\* The reply false without reloading: the buffer is drained and the socket left.
DrainAndRestart ==
  /\ ReconnectFailedRestart
  /\ buffer' = AfterDrain(buffer)
  /\ downFrames' = [downFrames EXCEPT ![socket] = <<>>]
  /\ UNCHANGED <<channels, buffers, upFrames, written, atFrontend, atBackend>>

\* The actions that leave the data alone.
DataIsLeftAlone ==
  /\ \/ Connect
     \/ \E k \in Sockets : IgnoredHandshake(k) \/ HandleInitialConnect(k) \/ HandleMarkForClose(k)
     \/ \E h \in timers : TimeoutElapses(h)
     \/ ReconnectFailedReload
     \/ AboutToClose
  /\ UNCHANGED data

-----------------------------------------------------------------------------
(***************************************************************************)
(* Data.                                                                   *)
(***************************************************************************)

\* The frontend writes on a channel, its current one or one it has closed: on the
\* socket, as soon as that is connected, whatever channel it is.
WriteAtFrontend(c) ==
  LET m == [on |-> c, number |-> written["frontend"] + 1,
            late |-> ~(channelOpen /\ c = currentChannel)]
  IN /\ c \in channels
     /\ ~pageGone
     /\ written["frontend"] < MaxWrites["frontend"]
     /\ written' = [written EXCEPT !["frontend"] = @ + 1]
     /\ \/ /\ connected
           /\ upFrames' = [upFrames EXCEPT ![socket] = Append(@, <<m>>)]
           /\ UNCHANGED buffer
        \/ /\ ~connected
           /\ buffer' = Buffered(buffer, m)
           /\ UNCHANGED upFrames
     /\ UNCHANGED <<vars, channels, buffers, downFrames, atFrontend, atBackend>>

\* The backend writes on a context: on the socket it is attached to, which the frontend
\* may have left, or into its buffer.
WriteAtBackend(c) ==
  LET m == [on |-> c, number |-> written["backend"] + 1, late |-> c \in closed]
  IN /\ c \in Contexts
     /\ written["backend"] < MaxWrites["backend"]
     /\ written' = [written EXCEPT !["backend"] = @ + 1]
     /\ \/ /\ attached[c] # 0
           /\ downFrames' = IF UsedByFrontend(attached[c])
                            THEN [downFrames EXCEPT ![attached[c]] = Append(@, <<m>>)]
                            ELSE downFrames
           /\ UNCHANGED buffers
        \/ /\ attached[c] = 0
           /\ buffers' = [buffers EXCEPT ![c] = Buffered(@, m)]
           /\ UNCHANGED downFrames
     /\ UNCHANGED <<vars, channels, buffer, upFrames, atFrontend, atBackend>>

\* A frame reaches the frontend's current channel, which handles its first message.
FrameAtFrontend ==
  /\ connected /\ ~pageGone
  /\ down[socket] = <<>>
  /\ downFrames[socket] # <<>>
  /\ downFrames' = [downFrames EXCEPT ![socket] = Tail(@)]
  /\ atFrontend' = IF channelOpen
                   THEN Append(atFrontend, [message |-> Head(Head(downFrames[socket])),
                                            at |-> currentChannel])
                   ELSE atFrontend
  /\ UNCHANGED <<vars, channels, buffer, buffers, upFrames, written, atBackend>>

\* A frame reaches the contexts that listen to the socket and are not closed; each
\* handles its first message.
Listening(k) == {c \in Contexts \ closed : <<k, c>> \in dataListeners}

FrameAtBackend(k) ==
  /\ upFrames[k] # <<>>
  /\ \A i \in 1..Len(up[k]) : up[k][i] = MarkForClose
  /\ upFrames' = [upFrames EXCEPT ![k] = Tail(@)]
  /\ LET arrivals == {[message |-> Head(Head(upFrames[k])), at |-> c] : c \in Listening(k)}
     IN atBackend' = atBackend \o SetToSeq(arrivals)
  /\ UNCHANGED <<vars, channels, buffer, buffers, downFrames, written, atFrontend>>

DataNext ==
  \/ LostWithTransport
  \/ \E k \in Sockets : ReconnectAndFlush(k) \/ DisconnectedAndLost(k)
  \/ NewChannel
  \/ FlushAfterReconnect
  \/ DrainAndRestart
  \/ DataIsLeftAlone
  \/ \E c \in Sockets : WriteAtFrontend(c) \/ WriteAtBackend(c)
  \/ FrameAtFrontend
  \/ \E k \in Sockets : FrameAtBackend(k)

DataSpec == Init /\ DataInit /\ [][DataNext]_allVars

-----------------------------------------------------------------------------
(***************************************************************************)
(* Properties.                                                             *)
(***************************************************************************)

\* The messages of one channel arrive in the order in which they were written, and none
\* arrives twice.
InOrder(arrivals) ==
  \A i, j \in 1..Len(arrivals) :
    i < j /\ arrivals[i].message.on = arrivals[j].message.on
      => arrivals[i].message.number < arrivals[j].message.number

\* What the backend writes arrives in order and at most once, whether it was sent or
\* buffered (the multiplexer and the RPC protocol take that for granted).
FrontendReceivesInOrder == InOrder(atFrontend)

\* Nothing that the frontend writes arrives twice.
BackendReceivesOnce ==
  \A i, j \in 1..Len(atBackend) :
    i # j => atBackend[i].message.number # atBackend[j].message.number

\* What is written on an open channel is handled by the context that channel belongs to,
\* and the other way round, also when it was buffered over the end of a context; unless the
\* handshake of an old socket was handled late, which attaches the next context to it.
OpenChannelsReachTheirContext ==
  ~overtaken =>
    \A a \in Range(atBackend) \union Range(atFrontend) : ~a.message.late => a.at = a.message.on

\* Every message that arrives is handled: a frame holds one message, which is what its
\* receiver reads from it.  ("A message has arrived and can be read by listeners using a
\* MessageProvider".)
OneMessagePerFrame ==
  \A k \in Sockets : \A f \in Range(upFrames[k]) \union Range(downFrames[k]) : Len(f) = 1
=============================================================================
