----------------------------- MODULE RpcProtocol -----------------------------
(***************************************************************************)
(* Two RpcProtocol instances over a channel                                *)
(* (packages/core/src/common/message-rpc/rpc-protocol.ts): the requests,   *)
(* notifications and cancellations one end sends, as the client, to the    *)
(* other, as the server.  An instance in 'default' mode plays both parts;  *)
(* the two parts share no state but the message counter, so one direction  *)
(* of calls stands for both.                                               *)
(*                                                                         *)
(* The channel delivers in order and may be closed at either end.  A write *)
(* buffer's commit may throw: a channel that buffers while its socket is   *)
(* disconnected refuses data beyond a fixed size (SocketWriteBuffer).      *)
(***************************************************************************)
EXTENDS Naturals, Sequences

CONSTANTS MaxMessages,   \* bound on the ids a client hands out
          Tokens,        \* the cancellation tokens of the client's callers
          NoToken,       \* a call without cancellation token
          CommitMayFail  \* whether commit can throw

ASSUME MaxMessagesAssumption == MaxMessages \in Nat
ASSUME NoTokenAssumption == NoToken \notin Tokens
ASSUME CommitMayFailAssumption == CommitMayFail \in BOOLEAN

Ids == 0 .. (MaxMessages - 1)

VARIABLES
  \* the client
  nextMessageId,
  pendingRequests,  \* ids with an entry in pendingRequests
  listeners,        \* ids with an entry in pendingRequestCancellationEventListeners
  armed,            \* ids whose wrapper holds a listener of the caller's token
  tokenOf,          \* [id -> the token of the call]
  cancelled,        \* tokens whose cancellation was requested
  promise,          \* [id -> what became of the promise of sendRequest]
  clientClosed,     \* channel.onClose has fired at the client
  \* the server
  running,          \* ids whose request handler has not settled
  tokenSources,     \* ids with an entry in cancellationTokenSources
  signalled,        \* ids whose handler's token was cancelled
  serverClosed,     \* channel.onClose has fired at the server
  lost,             \* history: ids whose Cancel or answer could not be committed
  \* the channel
  toServer, toClient

client == <<nextMessageId, pendingRequests, listeners, armed, tokenOf, cancelled,
            promise, clientClosed>>
server == <<running, tokenSources, signalled, serverClosed, lost>>
vars == <<client, server, toServer, toClient>>

Settled == {"resolved", "rejected", "closed"}

Outcome == {"none", "waiting", "thrown"} \union Settled

Request(id, withToken) == [type |-> "Request", id |-> id, token |-> withToken]
Notification(id) == [type |-> "Notification", id |-> id]
Cancel(id) == [type |-> "Cancel", id |-> id]
Reply(id) == [type |-> "Reply", id |-> id]
ReplyErr(id) == [type |-> "ReplyErr", id |-> id]

ServerMessage == [type : {"Request"}, id : Ids, token : BOOLEAN]
                   \union [type : {"Notification", "Cancel"}, id : Ids]
ClientMessage == [type : {"Reply", "ReplyErr"}, id : Ids]

\* What is committed after the channel was closed at either end arrives nowhere.
\* Mutation: the Cancel that follows a request is not sent.
SendToServer_First(ms) ==
  toServer' = IF clientClosed \/ serverClosed THEN toServer ELSE toServer \o SubSeq(ms, 1, IF ms = <<>> THEN 0 ELSE 1)

SendToServer(ms) ==
  toServer' = IF clientClosed \/ serverClosed THEN toServer ELSE toServer \o ms

\* Mutation: a request that was cancelled is not answered.
SendToClient_Cancelled(m) ==
  toClient' = IF clientClosed \/ serverClosed \/ m.id \in signalled
              THEN toClient ELSE Append(toClient, m)

SendToClient(m) ==
  toClient' = IF clientClosed \/ serverClosed THEN toClient ELSE Append(toClient, m)

Init ==
  /\ nextMessageId = 0
  /\ pendingRequests = {}
  /\ listeners = {}
  /\ armed = {}
  /\ tokenOf = [id \in Ids |-> NoToken]
  /\ cancelled = {}
  /\ promise = [id \in Ids |-> "none"]
  /\ clientClosed = FALSE
  /\ running = {}
  /\ tokenSources = {}
  /\ signalled = {}
  /\ serverClosed = FALSE
  /\ lost = {}
  /\ toServer = <<>>
  /\ toClient = <<>>

(***************************************************************************)
(* sendRequest: the entries of both maps are made before the commit; the   *)
(* token is subscribed to after it, or, when it is cancelled already, a    *)
(* Cancel follows the request.                                             *)
(***************************************************************************)
\* Mutations: the id is not counted up, counted twice, and the entry of pendingRequests
\* is not made.
Register_SameId(id, t) ==
  /\ UNCHANGED nextMessageId
  /\ pendingRequests' = pendingRequests \union {id}
  /\ listeners' = listeners \union {id}
  /\ tokenOf' = [tokenOf EXCEPT ![id] = t]

Register_Skip(id, t) ==
  /\ nextMessageId' = id + 2
  /\ pendingRequests' = pendingRequests \union {id}
  /\ listeners' = listeners \union {id}
  /\ tokenOf' = [tokenOf EXCEPT ![id] = t]

Register_NotPending(id, t) ==
  /\ nextMessageId' = id + 1
  /\ UNCHANGED pendingRequests
  /\ listeners' = listeners \union {id}
  /\ tokenOf' = [tokenOf EXCEPT ![id] = t]

Register(id, t) ==
  /\ nextMessageId' = id + 1
  /\ pendingRequests' = pendingRequests \union {id}
  /\ listeners' = listeners \union {id}
  /\ tokenOf' = [tokenOf EXCEPT ![id] = t]

SendRequest(t) ==
  LET id == nextMessageId IN
  /\ id \in Ids
  /\ Register(id, t)
  /\ promise' = [promise EXCEPT ![id] = "waiting"]
  /\ \/ /\ t \in cancelled
        /\ SendToServer(<<Request(id, TRUE), Cancel(id)>>)
        /\ UNCHANGED armed
     \/ /\ t \notin cancelled
        /\ SendToServer(<<Request(id, t # NoToken)>>)
        /\ armed' = IF t = NoToken THEN armed ELSE armed \union {id}
  /\ UNCHANGED <<cancelled, clientClosed, server, toClient>>

\* A commit throws, that of the request or that of the Cancel after it: the caller
\* gets the error instead of a promise, and the two entries stay.
SendRequestThrows(t) ==
  LET id == nextMessageId IN
  /\ CommitMayFail
  /\ id \in Ids
  /\ Register(id, t)
  /\ promise' = [promise EXCEPT ![id] = "thrown"]
  /\ \/ UNCHANGED toServer
     \/ t \in cancelled /\ SendToServer(<<Request(id, TRUE)>>)
  /\ UNCHANGED <<armed, cancelled, clientClosed, server, toClient>>

(***************************************************************************)
(* sendNotification without a token; with one it is sendRequest.           *)
(***************************************************************************)
SendNotification ==
  LET id == nextMessageId IN
  /\ id \in Ids
  /\ nextMessageId' = id + 1
  /\ \/ SendToServer(<<Notification(id)>>)
     \/ CommitMayFail /\ UNCHANGED toServer
  /\ UNCHANGED <<pendingRequests, listeners, armed, tokenOf, cancelled, promise,
                 clientClosed, server, toClient>>

(***************************************************************************)
(* A caller cancels a token: every subscribed request sends a Cancel       *)
(* (sendCancel), in the order of subscription, which is that of the ids.   *)
(* A listener that throws does not keep the others from running.           *)
(***************************************************************************)
Ascending(ids) ==
  UNION {{f \in [1..n -> ids] : /\ \A i, j \in 1..n : i < j => f[i] < f[j]
                               /\ \A id \in ids : \E i \in 1..n : f[i] = id}
         : n \in 0..MaxMessages}

\* Mutation: whatever is subscribed, whoever's token it is for.
Subscribed_All(t) == armed

Subscribed(t) == {id \in armed : tokenOf[id] = t}

CancelToken(t) ==
  /\ t \notin cancelled
  /\ cancelled' = cancelled \union {t}
  /\ \E failed \in SUBSET Subscribed(t) :
       /\ failed # {} => CommitMayFail
       /\ \E ids \in Ascending(Subscribed(t) \ failed) :
            SendToServer([i \in DOMAIN ids |-> Cancel(ids[i])])
       /\ lost' = lost \union failed
  /\ UNCHANGED <<nextMessageId, pendingRequests, listeners, armed, tokenOf, promise,
                 clientClosed, running, tokenSources, signalled, serverClosed, toClient>>

(***************************************************************************)
(* handleReply and handleReplyErr: an id without entry is an error thrown  *)
(* at the channel; otherwise the promise settles and both entries go.      *)
(***************************************************************************)
HandleReply ==
  /\ ~clientClosed
  /\ toClient # <<>>
  /\ toClient' = Tail(toClient)
  /\ LET id == Head(toClient).id IN
     \/ /\ id \in pendingRequests
        /\ pendingRequests' = pendingRequests \ {id}
        /\ promise' = [promise EXCEPT ![id] =
                         IF @ # "waiting" THEN @
                         ELSE IF Head(toClient).type = "Reply" THEN "resolved" ELSE "rejected"]
        /\ listeners' = listeners \ {id}
        /\ armed' = armed \ {id}
     \/ /\ id \notin pendingRequests
        /\ UNCHANGED <<pendingRequests, promise, listeners, armed>>
  /\ UNCHANGED <<nextMessageId, tokenOf, cancelled, clientClosed, server, toServer>>

(***************************************************************************)
(* handleRequest up to its await: the handler starts, with a new token     *)
(* when the request announces one.                                         *)
(***************************************************************************)
IncomingAtServer(t) ==
  /\ ~serverClosed
  /\ toServer # <<>>
  /\ Head(toServer).type = t
  /\ toServer' = Tail(toServer)

HandleRequest ==
  /\ IncomingAtServer("Request")
  /\ running' = running \union {Head(toServer).id}
  /\ tokenSources' = IF Head(toServer).token
                     THEN tokenSources \union {Head(toServer).id} ELSE tokenSources
  /\ UNCHANGED <<client, signalled, serverClosed, lost, toClient>>

(***************************************************************************)
(* handleCancel: the token of a request still being handled is cancelled;  *)
(* a Cancel that crosses the reply finds no source and is ignored.         *)
(***************************************************************************)
HandleCancel ==
  /\ IncomingAtServer("Cancel")
  /\ signalled' = signalled \union ({Head(toServer).id} \intersect tokenSources)
  /\ UNCHANGED <<client, running, tokenSources, serverClosed, lost, toClient>>

\* handleNotify: the listeners of onNotification run; nothing is kept.
HandleNotify ==
  /\ IncomingAtServer("Notification")
  /\ UNCHANGED <<client, server, toClient>>

(***************************************************************************)
(* handleRequest after its await: the handler resolved or threw, the token *)
(* source goes, the answer is written.  A result that cannot be encoded or *)
(* committed is answered with an error; when that commit throws as well    *)
(* nothing is sent.                                                        *)
(***************************************************************************)
\* Mutations: the request is still being handled after its answer, and the token source is
\* kept.
Finish_Twice(id) ==
  /\ id \in running
  /\ tokenSources' = tokenSources \ {id}
  /\ UNCHANGED <<client, running, signalled, serverClosed, toServer>>

Finish_KeepsSource(id) ==
  /\ id \in running
  /\ running' = running \ {id}
  /\ UNCHANGED <<client, tokenSources, signalled, serverClosed, toServer>>

Finish(id) ==
  /\ id \in running
  /\ running' = running \ {id}
  /\ tokenSources' = tokenSources \ {id}
  /\ UNCHANGED <<client, signalled, serverClosed, toServer>>

HandlerResolves(id) == Finish(id) /\ SendToClient(Reply(id)) /\ UNCHANGED lost

HandlerFails(id) == Finish(id) /\ SendToClient(ReplyErr(id)) /\ UNCHANGED lost

AnswerIsLost(id) ==
  /\ CommitMayFail
  /\ Finish(id)
  /\ lost' = lost \union {id}
  /\ UNCHANGED toClient

(***************************************************************************)
(* channel.onClose at the client: every pending request is rejected, every *)
(* listener of a token removed, and no further message is received.        *)
(***************************************************************************)
ClientChannelClosed ==
  /\ ~clientClosed
  /\ clientClosed' = TRUE
  /\ promise' = [id \in Ids |->
                   IF id \in pendingRequests /\ promise[id] = "waiting" THEN "closed"
                   ELSE promise[id]]
  /\ pendingRequests' = {}
  /\ listeners' = {}
  /\ armed' = {}
  /\ toClient' = <<>>
  /\ UNCHANGED <<nextMessageId, tokenOf, cancelled, server, toServer>>

(***************************************************************************)
(* channel.onClose at the server: handlers that run are left alone.        *)
(***************************************************************************)
ServerChannelClosed ==
  /\ ~serverClosed
  /\ serverClosed' = TRUE
  /\ toServer' = <<>>
  /\ UNCHANGED <<client, running, tokenSources, signalled, lost, toClient>>

ServerReceives == HandleRequest \/ HandleCancel \/ HandleNotify

Next ==
  \/ \E t \in Tokens \union {NoToken} : SendRequest(t) \/ SendRequestThrows(t)
  \/ SendNotification
  \/ \E t \in Tokens : CancelToken(t)
  \/ HandleReply
  \/ ServerReceives
  \/ \E id \in Ids : HandlerResolves(id) \/ HandlerFails(id) \/ AnswerIsLost(id)
  \/ ClientChannelClosed
  \/ ServerChannelClosed

Spec == Init /\ [][Next]_vars

\* The channel hands over what it received; that a handler settles is the
\* business of the service and not assumed.
FairSpec == Spec /\ WF_vars(HandleReply) /\ WF_vars(ServerReceives)

-----------------------------------------------------------------------------
(***************************************************************************)
(* Correctness.                                                            *)
(***************************************************************************)

\* The variables hold ids, tokens, promise states and messages.
TypeOK ==
  /\ nextMessageId \in 0..MaxMessages
  /\ pendingRequests \subseteq Ids
  /\ listeners \subseteq Ids
  /\ armed \subseteq Ids
  /\ tokenOf \in [Ids -> Tokens \union {NoToken}]
  /\ cancelled \subseteq Tokens
  /\ promise \in [Ids -> Outcome]
  /\ clientClosed \in BOOLEAN
  /\ running \subseteq Ids
  /\ tokenSources \subseteq Ids
  /\ signalled \subseteq Ids
  /\ serverClosed \in BOOLEAN
  /\ lost \subseteq Ids
  /\ toServer \in Seq(ServerMessage)
  /\ toClient \in Seq(ClientMessage)

\* Where the request id is while it is not settled: on its way to the server,
\* being handled, or answered with the answer on its way.
OnItsWay(id) == {i \in 1..Len(toServer) : toServer[i].type = "Request" /\ toServer[i].id = id}
Answers(id) == {i \in 1..Len(toClient) : toClient[i].id = id}

\* A request is never duplicated: it is in one of the three places at most, and
\* there once.  ("Keeps track of outstanding requests and matches replies to the
\* appropriate request.")
RequestInOnePlace ==
  \A id \in Ids :
    /\ \A i, j \in OnItsWay(id) : i = j
    /\ \A i, j \in Answers(id) : i = j
    /\ OnItsWay(id) # {} => id \notin running /\ Answers(id) = {}
    /\ id \in running => Answers(id) = {}

\* An answer that arrives finds its request still pending and its promise not yet
\* settled: handleReply never throws 'No reply handler for reply with id', and no
\* promise is settled twice, whatever crosses on the channel.
AnswerFindsRequest ==
  \A i \in 1..Len(toClient) :
    toClient[i].id \in pendingRequests /\ promise[toClient[i].id] \in {"waiting", "thrown"}

\* What each end keeps is an open request's.  A caller's token holds a listener only while
\* that caller waits; a promise that waits has its entry, where an answer or the close finds
\* it; each entry has its wrapper, and is of a request that waits or of one whose commit
\* threw, which sendRequest leaves in both maps until an answer or the close; and the server
\* keeps token sources of running handlers only.
EntriesAreOfOpenRequests ==
  /\ \A id \in armed : promise[id] = "waiting"
  /\ \A id \in Ids : promise[id] = "waiting" => id \in pendingRequests
  /\ \A id \in pendingRequests : promise[id] \in {"waiting", "thrown"}
  /\ listeners = pendingRequests
  /\ tokenSources \subseteq running

\* A handler is told to cancel only when the caller of that very request asked
\* for it, and a Cancel never overtakes the request it is for.
CancelIsForItsRequest ==
  /\ \A id \in signalled : tokenOf[id] \in cancelled
  /\ \A i, j \in 1..Len(toServer) :
       toServer[i].type = "Cancel" /\ toServer[j].type = "Request"
         /\ toServer[i].id = toServer[j].id => j < i

\* The channel holds nothing up: a promise that waits is settled, or its request
\* is with its handler, or an end of the channel was closed, unless the commit of
\* the answer threw.
OnlyTheHandlerDelays ==
  \A id \in Ids :
    promise[id] = "waiting" ~> \/ promise[id] \in Settled
                              \/ id \in running
                              \/ clientClosed \/ serverClosed
                              \/ id \in lost

\* A cancellation asked for while the request is pending reaches its handler,
\* unless the handler settles first, the channel is closed or a commit throws.
CancellationArrives ==
  \A id \in Ids :
    promise[id] = "waiting" /\ tokenOf[id] \in cancelled ~>
      \/ id \in signalled
      \/ promise[id] \in Settled
      \/ clientClosed \/ serverClosed
      \/ id \in lost

\* What callers rely on: seen without its maps and messages, the protocol hands each
\* request over at most once, settles each promise once, with the answer of its own
\* request, and leaves none waiting that was made before the channel was closed.
RS == INSTANCE RequestService
        WITH travelling <- {id \in Ids : OnItsWay(id) # {}},
             answered <- {id \in Ids : Answers(id) # {}}

ImplementsRequestService == RS!Spec
=============================================================================
