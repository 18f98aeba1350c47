-------------------------- MODULE ServiceConnection --------------------------
(***************************************************************************)
(* A service of the backend as the frontend sees it: the proxy that a      *)
(* ServiceConnectionProvider creates for one path                          *)
(* (packages/core/src/browser/messaging/service-connection-provider.ts),   *)
(* and the RpcProxyFactory behind it (packages/core/src/common/messaging/  *)
(* proxy-factory.ts), over main channels that are created and closed one   *)
(* after the other.                                                        *)
(*                                                                         *)
(* Main channels are numbered in the order of their creation.  The service *)
(* channel over one of them, and the protocol on it, go by its number:     *)
(* Multiplexer and RpcProtocol say what they do.  The connection source    *)
(* closes a main channel before it announces the next.                     *)
(***************************************************************************)
EXTENDS Naturals

CONSTANTS MaxMains,  \* bound on the main channels created
          Calls      \* the calls made through the proxy

ASSUME MaxMainsAssumption == MaxMains \in Nat

VARIABLES
  main,         \* the last main channel created, 0: none yet
  mainOpen,     \* it is not closed
  ready,        \* channelReadyDeferred is resolved
  listened,     \* createProxy, and with it listen, was called
  installed,    \* the path is in channelHandlers
  waiting,      \* an openChannel waits for channelReady
  opening,      \* openChannels that wait for open() on the current main channel
  lost,         \* history: openChannels whose open() never settles
  protocol,     \* what rpcDeferred was resolved with, 0: nothing
  call,         \* [call -> what became of it]
  on,           \* [call -> the protocol it was sent on, 0: none]
  hasty         \* history: calls made by a listener of onDidCloseConnection

provider == <<ready, listened, installed, waiting, opening, lost>>
proxy == <<protocol, call, on, hasty>>
vars == <<main, mainOpen, provider, proxy>>

\* The two callers of openChannel.
Openers == {"listen", "handleChannelCreated"}

Init ==
  /\ main = 0
  /\ mainOpen = FALSE
  /\ ready = FALSE
  /\ listened = FALSE
  /\ installed = FALSE
  /\ waiting = FALSE
  /\ opening = {}
  /\ lost = {}
  /\ protocol = 0
  /\ call = [c \in Calls |-> "none"]
  /\ on = [c \in Calls |-> 0]
  /\ hasty = {}

-----------------------------------------------------------------------------
(***************************************************************************)
(* ServiceConnectionProvider.                                              *)
(***************************************************************************)

\* listen: openChannel awaits channelReady, and then open() of the multiplexer.
Listen ==
  /\ ~listened
  /\ listened' = TRUE
  /\ IF ready
     THEN opening' = opening \union {"listen"} /\ UNCHANGED waiting
     ELSE waiting' = TRUE /\ UNCHANGED opening
  /\ UNCHANGED <<main, mainOpen, ready, installed, lost, proxy>>

\* The paths that are opened on a new main channel: those that waited, and those that
\* are installed (a mutation opens what waited only).
Opened_Waiting == IF waiting THEN {"listen"} ELSE {}

Opened ==
  (IF waiting THEN {"listen"} ELSE {})
    \union (IF installed THEN {"handleChannelCreated"} ELSE {})

\* handleChannelCreated: there is a multiplexer over the new channel, channelReady is
\* resolved, and the installed paths are opened.
HandleChannelCreated ==
  /\ ~mainOpen
  /\ main < MaxMains
  /\ main' = main + 1
  /\ mainOpen' = TRUE
  /\ ready' = TRUE
  /\ waiting' = FALSE
  /\ opening' = Opened
  /\ UNCHANGED <<listened, installed, lost, proxy>>

\* The calls that waited for a connection are sent on the protocol p.
Sent_Forgotten(p) == UNCHANGED <<call, on>>

Sent(p) ==
  /\ call' = [c \in Calls |-> IF call[c] = "waiting" THEN "sent" ELSE call[c]]
  /\ on' = [c \in Calls |-> IF call[c] = "waiting" THEN p ELSE on[c]]

\* open() resolves: the factory listens to the channel, which resolves its deferred if
\* it is not resolved yet, and the calls that waited for it are sent.  Only then does
\* listen install the path.
ChannelOpened(o) ==
  /\ o \in opening
  /\ opening' = opening \ {o}
  /\ installed' = (installed \/ o = "listen")
  /\ IF protocol = 0
     THEN protocol' = main /\ Sent(main)
     ELSE UNCHANGED <<protocol, call, on>>
  /\ UNCHANGED <<main, mainOpen, ready, listened, waiting, lost, hasty>>

-----------------------------------------------------------------------------
(***************************************************************************)
(* RpcProxyFactory.                                                        *)
(***************************************************************************)

\* The deferred after a protocol's channel is closed (a mutation keeps it).
Renewed_Kept == UNCHANGED protocol

Renewed == protocol' = 0

\* The main channel is closed.  channelReady is renewed; the multiplexer forgets the
\* opens that are pending; the protocol rejects the calls it has sent and not answered,
\* and then the factory tells the listeners of onDidCloseConnection, before it renews
\* its deferred: what they call at once goes to the closed protocol.
MainChannelClosed ==
  /\ mainOpen
  /\ mainOpen' = FALSE
  /\ ready' = FALSE
  /\ lost' = lost \union opening
  /\ opening' = {}
  /\ \/ /\ protocol = 0
        /\ UNCHANGED proxy
     \/ /\ protocol # 0
        /\ Renewed
        /\ \E cs \in SUBSET {c \in Calls : call[c] = "none"} :
             /\ call' = [c \in Calls |-> IF c \in cs THEN "sent"
                                         ELSE IF call[c] = "sent" /\ on[c] = protocol THEN "settled"
                                         ELSE call[c]]
             /\ on' = [c \in Calls |-> IF c \in cs THEN protocol ELSE on[c]]
             /\ hasty' = hasty \union cs
  /\ UNCHANGED <<main, listened, installed, waiting>>

\* A method of the proxy is called: the call is sent once there is a protocol.
Call(c) ==
  /\ listened
  /\ call[c] = "none"
  /\ \/ /\ protocol = 0
        /\ call' = [call EXCEPT ![c] = "waiting"]
        /\ UNCHANGED on
     \/ /\ protocol # 0
        /\ call' = [call EXCEPT ![c] = "sent"]
        /\ on' = [on EXCEPT ![c] = protocol]
  /\ UNCHANGED <<main, mainOpen, provider, protocol, hasty>>

\* The answer to a call arrives.
Answered(c) ==
  /\ mainOpen
  /\ call[c] = "sent" /\ on[c] = main
  /\ call' = [call EXCEPT ![c] = "settled"]
  /\ UNCHANGED <<main, mainOpen, provider, protocol, on, hasty>>

-----------------------------------------------------------------------------
Next ==
  \/ Listen
  \/ HandleChannelCreated
  \/ \E o \in Openers : ChannelOpened(o)
  \/ MainChannelClosed
  \/ \E c \in Calls : Call(c) \/ Answered(c)

Spec == Init /\ [][Next]_vars

\* Over a main channel that stays, an open is acknowledged (OpenIsAnswered of
\* Multiplexer) and, if the service settles its requests, a call is answered
\* (OnlyTheHandlerDelays of RpcProtocol); a main channel that is closed is replaced
\* (EventuallyServed of ConnectionManagement).
FairSpec ==
  /\ Spec
  /\ WF_vars(HandleChannelCreated)
  /\ \A o \in Openers : WF_vars(ChannelOpened(o))
  /\ \A c \in Calls : WF_vars(Answered(c))

-----------------------------------------------------------------------------
(***************************************************************************)
(* Properties.                                                             *)
(***************************************************************************)

\* The types of the variables.
TypeOK ==
  /\ main \in 0..MaxMains /\ protocol \in 0..main
  /\ mainOpen \in BOOLEAN /\ ready \in BOOLEAN /\ listened \in BOOLEAN
  /\ installed \in BOOLEAN /\ waiting \in BOOLEAN
  /\ opening \subseteq Openers /\ lost \subseteq Openers
  /\ call \in [Calls -> {"none", "waiting", "sent", "settled"}]
  /\ on \in [Calls -> 0..main]
  /\ hasty \subseteq Calls

\* The protocol calls are sent on is never one of a channel that is closed (rpcDeferred
\* against the main channel).
ProtocolIsCurrent == protocol # 0 => mainOpen /\ protocol = main

\* A call waits for an answer over a closed channel only if a listener of
\* onDidCloseConnection made it: all others are rejected when their channel is closed.
NoCallIsStranded ==
  \A c \in Calls \ hasty : call[c] = "sent" => mainOpen /\ on[c] = main

\* On a main channel that is ready a service is open, about to be opened, or was lost
\* with its very first open(): no sequence of closes and opens leaves it behind.
ServiceIsAccountedFor ==
  listened => \/ waiting
              \/ opening # {}
              \/ protocol # 0
              \/ ~mainOpen /\ installed
              \/ "listen" \in lost

\* Once the path is installed, a call that is made at any time, except by a listener of
\* onDidCloseConnection, settles, whatever main channels come and go meanwhile, if the
\* last one stays.
CallsSettle ==
  (<>[]mainOpen /\ <>installed) =>
    \A c \in Calls : call[c] \in {"waiting", "sent"} ~> c \in hasty \/ call[c] = "settled"
=============================================================================
