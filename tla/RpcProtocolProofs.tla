-------------------------- MODULE RpcProtocolProofs --------------------------
(***************************************************************************)
(* Theorems about RpcProtocol, for any number of messages and tokens: its  *)
(* invariants, and that it implements RequestService.                      *)
(***************************************************************************)
EXTENDS RpcProtocol, TLAPS

(***************************************************************************)
(* Messages and the two ways of sending them.                              *)
(***************************************************************************)

\* The constructors give messages of the server's and the client's alphabet.
LEMMA MessageTypes ==
  ASSUME NEW id \in Ids, NEW b \in BOOLEAN
  PROVE  /\ Request(id, b) \in ServerMessage
         /\ Notification(id) \in ServerMessage
         /\ Cancel(id) \in ServerMessage
         /\ Reply(id) \in ClientMessage
         /\ ReplyErr(id) \in ClientMessage
  BY DEF Request, Notification, Cancel, Reply, ReplyErr, ServerMessage, ClientMessage

\* Sequences of one and two elements.
LEMMA ShortSequences ==
  ASSUME NEW S, NEW a \in S, NEW b \in S
  PROVE  /\ <<>> \in Seq(S)
         /\ <<a>> \in Seq(S)
         /\ <<a, b>> \in Seq(S)
  OBVIOUS

\* Sending messages to the server leaves a sequence of messages.
LEMMA SendToServerType ==
  ASSUME NEW ms \in Seq(ServerMessage), toServer \in Seq(ServerMessage), SendToServer(ms)
  PROVE  toServer' \in Seq(ServerMessage)
  BY DEF SendToServer

\* So does sending one to the client.
LEMMA SendToClientType ==
  ASSUME NEW m \in ClientMessage, toClient \in Seq(ClientMessage), SendToClient(m)
  PROVE  toClient' \in Seq(ClientMessage)
  BY DEF SendToClient

\* The Cancels of a burst are messages, for ids of the set they were made from.
LEMMA BurstType ==
  ASSUME NEW S \in SUBSET Ids, NEW ids \in Ascending(S)
  PROVE  /\ [i \in DOMAIN ids |-> Cancel(ids[i])] \in Seq(ServerMessage)
         /\ \A i \in DOMAIN ids : ids[i] \in S
<1>1. PICK n \in 0..MaxMessages : ids \in [1..n -> S]
  BY DEF Ascending
<1>2. n \in Nat
  BY MaxMessagesAssumption
<1>3. \A i \in 1..n : ids[i] \in S /\ Cancel(ids[i]) \in ServerMessage
  BY <1>1, MessageTypes
<1>4. DOMAIN ids = 1..n
  BY <1>1
<1>5. [i \in 1..n |-> Cancel(ids[i])] \in [1..n -> ServerMessage]
  BY <1>3
<1>6. QED
  BY <1>2, <1>3, <1>4, <1>5

(***************************************************************************)
(* Type correctness.                                                       *)
(***************************************************************************)

\* The initial state has the right types.
LEMMA InitTypeOK == Init => TypeOK
<1> SUFFICES ASSUME Init PROVE TypeOK
  OBVIOUS
<1>1. nextMessageId \in 0..MaxMessages
  BY MaxMessagesAssumption DEF Init
<1>2. toServer \in Seq(ServerMessage) /\ toClient \in Seq(ClientMessage)
  BY DEF Init
<1>3. promise \in [Ids -> Outcome] /\ tokenOf \in [Ids -> Tokens \union {NoToken}]
  BY DEF Init, Outcome
<1>4. QED
  BY <1>1, <1>2, <1>3 DEF Init, TypeOK

\* Every step keeps the types: in particular ids stay below the bound, because a
\* message is sent with an id the client hands out.
LEMMA NextTypeOK == TypeOK /\ [Next]_vars => TypeOK'
<1> SUFFICES ASSUME TypeOK, [Next]_vars PROVE TypeOK'
  OBVIOUS
<1> USE MaxMessagesAssumption, MessageTypes, SendToServerType, SendToClientType
<1>1. ASSUME NEW t \in Tokens \union {NoToken}, SendRequest(t) PROVE TypeOK'
  <2>1. nextMessageId \in Ids /\ nextMessageId + 1 \in 0..MaxMessages
    BY <1>1 DEF SendRequest, TypeOK, Ids
  <2>2. toServer' \in Seq(ServerMessage)
    <3>1. <<Request(nextMessageId, TRUE), Cancel(nextMessageId)>> \in Seq(ServerMessage)
      BY <2>1, ShortSequences
    <3>2. <<Request(nextMessageId, t # NoToken)>> \in Seq(ServerMessage)
      BY <2>1, ShortSequences
    <3>3. QED BY <1>1, <3>1, <3>2 DEF SendRequest, TypeOK
  <2>3. tokenOf' \in [Ids -> Tokens \union {NoToken}]
    BY <1>1, <2>1 DEF SendRequest, Register, TypeOK
  <2>4. promise' \in [Ids -> Outcome]
    BY <1>1, <2>1 DEF SendRequest, Register, TypeOK, Outcome
  <2>5. QED
    BY <1>1, <2>1, <2>2, <2>3, <2>4 DEF SendRequest, Register, TypeOK, server
<1>2. ASSUME NEW t \in Tokens \union {NoToken}, SendRequestThrows(t) PROVE TypeOK'
  <2>1. nextMessageId \in Ids /\ nextMessageId + 1 \in 0..MaxMessages
    BY <1>2 DEF SendRequestThrows, TypeOK, Ids
  <2>2. toServer' \in Seq(ServerMessage)
    <3>1. <<Request(nextMessageId, TRUE)>> \in Seq(ServerMessage)
      BY <2>1, ShortSequences
    <3>2. QED BY <1>2, <3>1 DEF SendRequestThrows, TypeOK
  <2>3. tokenOf' \in [Ids -> Tokens \union {NoToken}]
    BY <1>2, <2>1 DEF SendRequestThrows, Register, TypeOK
  <2>4. promise' \in [Ids -> Outcome]
    BY <1>2, <2>1 DEF SendRequestThrows, Register, TypeOK, Outcome
  <2>5. QED
    BY <1>2, <2>1, <2>2, <2>3, <2>4 DEF SendRequestThrows, Register, TypeOK, server
<1>3. ASSUME SendNotification PROVE TypeOK'
  <2>1. nextMessageId \in Ids /\ nextMessageId + 1 \in 0..MaxMessages
    BY <1>3 DEF SendNotification, TypeOK, Ids
  <2>2. <<Notification(nextMessageId)>> \in Seq(ServerMessage)
    BY <2>1, ShortSequences
  <2>3. toServer' \in Seq(ServerMessage)
    BY <1>3, <2>2 DEF SendNotification, TypeOK
  <2>4. QED BY <1>3, <2>1, <2>3 DEF SendNotification, TypeOK, server
<1>4. ASSUME NEW t \in Tokens, CancelToken(t) PROVE TypeOK'
  <2>1. PICK failed \in SUBSET Subscribed(t) :
          /\ \E ids \in Ascending(Subscribed(t) \ failed) :
               SendToServer([i \in DOMAIN ids |-> Cancel(ids[i])])
          /\ lost' = lost \union failed
    BY <1>4 DEF CancelToken
  <2>2. PICK ids \in Ascending(Subscribed(t) \ failed) :
          SendToServer([i \in DOMAIN ids |-> Cancel(ids[i])])
    BY <2>1
  <2>3. Subscribed(t) \ failed \in SUBSET Ids
    BY DEF Subscribed, TypeOK
  <2>4. toServer' \in Seq(ServerMessage)
    BY <2>2, <2>3, BurstType DEF TypeOK
  <2>5. lost' \subseteq Ids
    BY <2>1, <2>3 DEF Subscribed, TypeOK
  <2>6. UNCHANGED <<nextMessageId, pendingRequests, listeners, armed, tokenOf, promise, clientClosed,
                    running, tokenSources, signalled, serverClosed, toClient>>
        /\ cancelled' = cancelled \union {t}
    BY <1>4 DEF CancelToken
  <2>7. QED BY <2>4, <2>5, <2>6 DEF TypeOK
<1>5. ASSUME HandleReply PROVE TypeOK'
  <2>1. toClient' \in Seq(ClientMessage)
    BY <1>5 DEF HandleReply, TypeOK
  <2>2. promise' \in [Ids -> Outcome]
    BY <1>5 DEF HandleReply, TypeOK, Outcome, Settled
  <2>3. QED BY <1>5, <2>1, <2>2 DEF HandleReply, TypeOK, server
<1>6. ASSUME HandleRequest PROVE TypeOK'
  <2>1. Head(toServer) \in ServerMessage /\ toServer' \in Seq(ServerMessage)
    BY <1>6 DEF HandleRequest, IncomingAtServer, TypeOK
  <2>2. Head(toServer).id \in Ids
    BY <2>1 DEF ServerMessage
  <2>3. QED BY <1>6, <2>1, <2>2 DEF HandleRequest, TypeOK, client
<1>7. ASSUME HandleCancel PROVE TypeOK'
  <2>1. Head(toServer) \in ServerMessage /\ toServer' \in Seq(ServerMessage)
    BY <1>7 DEF HandleCancel, IncomingAtServer, TypeOK
  <2>2. Head(toServer).id \in Ids
    BY <2>1 DEF ServerMessage
  <2>3. QED BY <1>7, <2>1, <2>2 DEF HandleCancel, TypeOK, client
<1>8. ASSUME HandleNotify PROVE TypeOK'
  <2>1. toServer' \in Seq(ServerMessage)
    BY <1>8 DEF HandleNotify, IncomingAtServer, TypeOK
  <2>2. QED BY <1>8, <2>1 DEF HandleNotify, TypeOK, client, server
<1>9. ASSUME NEW id \in Ids, HandlerResolves(id) \/ HandlerFails(id) \/ AnswerIsLost(id)
      PROVE TypeOK'
  <2>1. toClient' \in Seq(ClientMessage)
    BY <1>9 DEF HandlerResolves, HandlerFails, AnswerIsLost, TypeOK
  <2>2. QED
    BY <1>9, <2>1 DEF HandlerResolves, HandlerFails, AnswerIsLost, Finish, TypeOK, client
<1>10. ASSUME ClientChannelClosed PROVE TypeOK'
  <2>1. promise' \in [Ids -> Outcome]
    BY <1>10 DEF ClientChannelClosed, TypeOK, Outcome, Settled
  <2>2. QED BY <1>10, <2>1 DEF ClientChannelClosed, TypeOK, server
<1>11. ASSUME ServerChannelClosed PROVE TypeOK'
  BY <1>11 DEF ServerChannelClosed, TypeOK, client
<1>12. CASE UNCHANGED vars
  BY <1>12 DEF vars, client, server, TypeOK
<1>13. QED
  BY <1>1, <1>2, <1>3, <1>4, <1>5, <1>6, <1>7, <1>8, <1>9, <1>10, <1>11, <1>12
  DEF Next, ServerReceives

\* The type invariant holds in every reachable state.
THEOREM TypeCorrect == Spec => []TypeOK
  BY InitTypeOK, NextTypeOK, PTL DEF Spec

(***************************************************************************)
(* The inductive invariant.  An answer finds its request because the       *)
(* request was pending while it travelled and while it was handled, which  *)
(* holds because no two requests share an id and only an answer or the     *)
(* close of the channel takes a request out of pendingRequests.            *)
(***************************************************************************)
IsRequest(i) == toServer[i].type = "Request"

IsCancel(i) == toServer[i].type = "Cancel"

Live(id) == id \in pendingRequests /\ promise[id] \in {"waiting", "thrown"}

\* No id is in use before the client hands it out.
IdsAreFresh ==
  /\ \A i \in 1..Len(toServer) : toServer[i].id < nextMessageId
  /\ \A k \in 1..Len(toClient) : toClient[k].id < nextMessageId
  /\ \A id \in pendingRequests \union running \union signalled : id < nextMessageId

\* RequestInOnePlace, said of the positions of the two sequences.
RequestsAreDistinct ==
  /\ \A i, j \in 1..Len(toServer) :
       IsRequest(i) /\ IsRequest(j) /\ toServer[i].id = toServer[j].id => i = j
  /\ \A k, l \in 1..Len(toClient) : toClient[k].id = toClient[l].id => k = l
  /\ \A i \in 1..Len(toServer), k \in 1..Len(toClient) :
       IsRequest(i) => toServer[i].id # toClient[k].id
  /\ \A i \in 1..Len(toServer) : IsRequest(i) => toServer[i].id \notin running
  /\ \A k \in 1..Len(toClient) : toClient[k].id \notin running

\* Until it is answered, a request is pending at a client that is not closed.
UnansweredIsPending ==
  /\ ~clientClosed =>
       /\ \A i \in 1..Len(toServer) : IsRequest(i) => Live(toServer[i].id)
       /\ \A id \in running : Live(id)
  /\ \A k \in 1..Len(toClient) : ~clientClosed /\ Live(toClient[k].id)

\* A Cancel is sent after the request it is for, at its caller's wish.
CancelsAreAskedFor ==
  /\ \A i \in 1..Len(toServer) : IsCancel(i) => tokenOf[toServer[i].id] \in cancelled
  /\ CancelIsForItsRequest

\* The entries of the two maps come and go together, and so does a token source with its
\* handler.
EntriesAgree ==
  /\ armed \subseteq pendingRequests
  /\ listeners = pendingRequests
  /\ tokenSources \subseteq running

IInv == /\ TypeOK
        /\ IdsAreFresh
        /\ RequestsAreDistinct
        /\ UnansweredIsPending
        /\ CancelsAreAskedFor
        /\ EntriesAgree

(***************************************************************************)
(* How a step changes the two sequences, position by position.             *)
(***************************************************************************)

\* What the server's inbox holds after a sending step was there or was sent.
LEMMA SentToServer ==
  ASSUME NEW ms \in Seq(ServerMessage), toServer \in Seq(ServerMessage), SendToServer(ms)
  PROVE  /\ \A i \in 1..Len(toServer') :
              \/ i \in 1..Len(toServer) /\ toServer'[i] = toServer[i]
              \/ /\ i > Len(toServer)
                 /\ i - Len(toServer) \in 1..Len(ms)
                 /\ toServer'[i] = ms[i - Len(toServer)]
                 /\ ~clientClosed
         /\ Len(toServer') >= Len(toServer)
  BY DEF SendToServer

\* Receiving shifts the positions by one.
LEMMA ReceivedByServer ==
  ASSUME NEW t, toServer \in Seq(ServerMessage), IncomingAtServer(t)
  PROVE  /\ 1 \in 1..Len(toServer) /\ Head(toServer) = toServer[1]
         /\ toServer[1].type = t
         /\ \A i \in 1..Len(toServer') :
              i + 1 \in 1..Len(toServer) /\ toServer'[i] = toServer[i + 1]
  BY DEF IncomingAtServer

\* An answer is added at the end, if the channel is still open.
LEMMA SentToClient ==
  ASSUME NEW m \in ClientMessage, toClient \in Seq(ClientMessage), SendToClient(m)
  PROVE  \A k \in 1..Len(toClient') :
           \/ k \in 1..Len(toClient) /\ toClient'[k] = toClient[k]
           \/ k = Len(toClient) + 1 /\ toClient'[k] = m /\ ~clientClosed
  BY DEF SendToClient

(***************************************************************************)
(* Every action keeps the invariant.                                       *)
(***************************************************************************)

\* Initially both sequences and all sets of ids are empty.
LEMMA InitIInv == Init => IInv
<1> SUFFICES ASSUME Init PROVE IInv
  OBVIOUS
<1>1. TypeOK
  BY InitTypeOK
<1>2. Len(toServer) = 0 /\ Len(toClient) = 0
  BY DEF Init
<1>3. QED
  BY <1>1, <1>2 DEF Init, IInv, IdsAreFresh, RequestsAreDistinct, UnansweredIsPending,
     CancelsAreAskedFor, CancelIsForItsRequest, EntriesAgree

\* A new request has an id of its own, so it disturbs no other: shared by the two
\* actions that register one.
LEMMA RegisterIInv ==
  ASSUME IInv, TypeOK', NEW t \in Tokens \union {NoToken},
         nextMessageId \in Ids,
         Register(nextMessageId, t),
         promise' \in {[promise EXCEPT ![nextMessageId] = o] : o \in {"waiting", "thrown"}},
         armed' \in {armed, armed \union {nextMessageId}},
         UNCHANGED <<cancelled, clientClosed, server, toClient>>,
         \A i \in 1..Len(toServer') :
           \/ i \in 1..Len(toServer) /\ toServer'[i] = toServer[i]
           \/ /\ i > Len(toServer)
              /\ ~clientClosed
              /\ toServer'[i].id = nextMessageId
              /\ toServer'[i].type = "Request" => i = Len(toServer) + 1
              /\ toServer'[i].type = "Cancel" => t \in cancelled /\ i = Len(toServer) + 2
  PROVE  IInv'
<1> PICK new \in Ids : new = nextMessageId
  OBVIOUS
<1> DEFINE LiveAfter(id) == id \in pendingRequests' /\ promise'[id] \in {"waiting", "thrown"}
<1> USE DEF Register, IsRequest, IsCancel, server
<1>1. new \in Nat /\ nextMessageId' = new + 1 /\ Ids \subseteq Nat
  BY DEF Register, Ids, IInv, TypeOK
<1> DEFINE Old(id) == id \in Ids /\ id \in Nat /\ id < new /\ id < new + 1 /\ id # new
<1> HIDE DEF LiveAfter
<1>2. \A i \in 1..Len(toServer) : Old(toServer[i].id)
  <2>1. \A i \in 1..Len(toServer) : toServer[i] \in ServerMessage
    BY DEF IInv, TypeOK
  <2>2. \A m \in ServerMessage : m.id \in Ids
    BY DEF ServerMessage
  <2>3. \A i \in 1..Len(toServer) : toServer[i].id \in Ids /\ toServer[i].id \in Nat
    BY <2>1, <2>2, <1>1
  <2>4. \A i \in 1..Len(toServer) : toServer[i].id < new
    BY DEF IInv, IdsAreFresh
  <2>5. QED BY <2>3, <2>4, <1>1
<1>3. \A k \in 1..Len(toClient) : Old(toClient[k].id)
  <2>1. \A k \in 1..Len(toClient) : toClient[k] \in ClientMessage
    BY DEF IInv, TypeOK
  <2>2. \A m \in ClientMessage : m.id \in Ids
    BY DEF ClientMessage
  <2>3. \A k \in 1..Len(toClient) : toClient[k].id \in Ids /\ toClient[k].id \in Nat
    BY <2>1, <2>2, <1>1
  <2>4. \A k \in 1..Len(toClient) : toClient[k].id < new
    BY DEF IInv, IdsAreFresh
  <2>5. QED BY <2>3, <2>4, <1>1
<1>4. /\ \A id \in running \union pendingRequests \union signalled : Old(id)
      /\ new \notin running
  BY <1>1 DEF IInv, TypeOK, IdsAreFresh
<1>5. \A id \in Ids : id # new => /\ promise'[id] = promise[id]
                                 /\ tokenOf'[id] = tokenOf[id]
  BY DEF IInv, TypeOK
<1>6. promise'[new] \in {"waiting", "thrown"} /\ tokenOf'[new] = t
  BY DEF IInv, TypeOK
<1>7. IdsAreFresh'
  <2>1. \A i \in 1..Len(toServer') : toServer'[i].id < new + 1
    BY <1>1, <1>2
  <2>2. \A id \in pendingRequests' \union running \union signalled : id < new + 1
    BY <1>1, <1>4
  <2>3. QED BY <2>1, <2>2, <1>1, <1>3 DEF IdsAreFresh
<1>8. RequestsAreDistinct'
  <2>1. \A i, j \in 1..Len(toServer') :
          IsRequest(i)' /\ IsRequest(j)' /\ toServer'[i].id = toServer'[j].id => i = j
    BY <1>1, <1>2 DEF IInv, RequestsAreDistinct
  <2>2. \A i \in 1..Len(toServer'), k \in 1..Len(toClient) :
          IsRequest(i)' => toServer'[i].id # toClient[k].id
    BY <1>1, <1>2, <1>3 DEF IInv, RequestsAreDistinct
  <2>3. \A i \in 1..Len(toServer') : IsRequest(i)' => toServer'[i].id \notin running
    BY <1>1, <1>2, <1>4 DEF IInv, RequestsAreDistinct
  <2>4. QED
    BY <2>1, <2>2, <2>3 DEF IInv, RequestsAreDistinct
<1>9. UnansweredIsPending'
  <2>1. LiveAfter(new) /\ \A id \in Ids : id # new /\ Live(id) => LiveAfter(id)
    BY <1>5, <1>6 DEF Live, LiveAfter
  <2>2. \A i \in 1..Len(toServer') : ~clientClosed /\ IsRequest(i)' => LiveAfter(toServer'[i].id)
    BY <2>1, <1>1, <1>2 DEF IInv, UnansweredIsPending
  <2>3. \A id \in running : ~clientClosed => LiveAfter(id)
    BY <2>1, <1>1, <1>4 DEF IInv, UnansweredIsPending
  <2>4. \A k \in 1..Len(toClient) : ~clientClosed /\ LiveAfter(toClient[k].id)
    BY <2>1, <1>1, <1>3 DEF IInv, UnansweredIsPending
  <2>5. QED BY <2>2, <2>3, <2>4 DEF UnansweredIsPending, Live, LiveAfter
<1>10. CancelsAreAskedFor'
  <2>1. \A i \in 1..Len(toServer') : IsCancel(i)' => tokenOf'[toServer'[i].id] \in cancelled
    BY <1>1, <1>2, <1>5, <1>6 DEF IInv, CancelsAreAskedFor
  <2>2. \A i, j \in 1..Len(toServer') :
          IsCancel(i)' /\ IsRequest(j)' /\ toServer'[i].id = toServer'[j].id => j < i
    BY <1>1, <1>2 DEF IInv, CancelsAreAskedFor, CancelIsForItsRequest
  <2>3. \A id \in signalled : tokenOf'[id] \in cancelled
    BY <1>1, <1>4, <1>5 DEF IInv, CancelsAreAskedFor, CancelIsForItsRequest
  <2>4. QED BY <2>1, <2>2, <2>3 DEF CancelsAreAskedFor, CancelIsForItsRequest
<1>11. EntriesAgree'
  BY DEF IInv, EntriesAgree
<1>12. QED
  BY <1>7, <1>8, <1>9, <1>10, <1>11 DEF IInv

\* sendRequest registers the request and sends it, with a Cancel behind it when the
\* token is cancelled already.
LEMMA SendRequestIInv ==
  ASSUME IInv, TypeOK', NEW t \in Tokens \union {NoToken}, SendRequest(t)
  PROVE  IInv'
<1> PICK new \in Ids : new = nextMessageId
  BY DEF SendRequest
<1>1. PICK ms \in Seq(ServerMessage) :
        /\ SendToServer(ms)
        /\ \/ ms = <<Request(new, TRUE), Cancel(new)>> /\ t \in cancelled
           \/ ms = <<Request(new, t # NoToken)>>
  <2>1. /\ <<Request(new, TRUE), Cancel(new)>> \in Seq(ServerMessage)
        /\ <<Request(new, t # NoToken)>> \in Seq(ServerMessage)
    BY MessageTypes, ShortSequences
  <2>2. QED BY <2>1 DEF SendRequest
<1> DEFINE Sent(m, k) == /\ m.id = new
                         /\ m.type = "Request" => k = 1
                         /\ m.type = "Cancel" => t \in cancelled /\ k = 2
<1>2. \A k \in 1..Len(ms) : Sent(ms[k], k)
  BY <1>1 DEF Request, Cancel
<1> HIDE DEF Sent
<1>3. \A i \in 1..Len(toServer') :
        \/ i \in 1..Len(toServer) /\ toServer'[i] = toServer[i]
        \/ /\ i > Len(toServer)
           /\ ~clientClosed
           /\ toServer'[i].id = new
           /\ toServer'[i].type = "Request" => i = Len(toServer) + 1
           /\ toServer'[i].type = "Cancel" => t \in cancelled /\ i = Len(toServer) + 2
  <2>1. toServer \in Seq(ServerMessage) /\ Len(toServer) \in Nat
    BY DEF IInv, TypeOK
  <2>2. \A i \in 1..Len(toServer') :
          \/ i \in 1..Len(toServer) /\ toServer'[i] = toServer[i]
          \/ /\ i > Len(toServer)
             /\ i - Len(toServer) \in 1..Len(ms)
             /\ toServer'[i] = ms[i - Len(toServer)]
             /\ ~clientClosed
    BY <1>1, <2>1, SentToServer
  <2>3. ASSUME NEW i \in 1..Len(toServer'), i > Len(toServer),
               NEW k \in 1..Len(ms), k = i - Len(toServer), toServer'[i] = ms[k]
        PROVE  /\ toServer'[i].id = new
               /\ toServer'[i].type = "Request" => i = Len(toServer) + 1
               /\ toServer'[i].type = "Cancel" => t \in cancelled /\ i = Len(toServer) + 2
    <3>1. Sent(toServer'[i], k)
      BY <1>2, <2>3
    <3>2. (k = 1 => i = Len(toServer) + 1) /\ (k = 2 => i = Len(toServer) + 2)
      BY <2>1, <2>3
    <3>3. QED BY <3>1, <3>2 DEF Sent
  <2>4. QED BY <2>2, <2>3
<1>4. QED
  BY <1>3, RegisterIInv DEF SendRequest, server

\* When a commit throws the request is registered all the same.
LEMMA SendRequestThrowsIInv ==
  ASSUME IInv, TypeOK', NEW t \in Tokens \union {NoToken}, SendRequestThrows(t)
  PROVE  IInv'
<1> PICK new \in Ids : new = nextMessageId
  BY DEF SendRequestThrows
<1>1. <<Request(new, TRUE)>> \in Seq(ServerMessage)
  BY MessageTypes, ShortSequences
<1>2. toServer \in Seq(ServerMessage) /\ Len(toServer) \in Nat
  BY DEF IInv, TypeOK
<1>3. \A i \in 1..Len(toServer') :
        \/ i \in 1..Len(toServer) /\ toServer'[i] = toServer[i]
        \/ /\ i > Len(toServer)
           /\ ~clientClosed
           /\ toServer'[i].id = new
           /\ toServer'[i].type = "Request" => i = Len(toServer) + 1
           /\ toServer'[i].type = "Cancel" => t \in cancelled /\ i = Len(toServer) + 2
  <2>1. CASE UNCHANGED toServer
    BY <2>1, <1>2
  <2>2. CASE SendToServer(<<Request(new, TRUE)>>)
    <3>1. \A i \in 1..Len(toServer') :
            \/ i \in 1..Len(toServer) /\ toServer'[i] = toServer[i]
            \/ /\ i > Len(toServer)
               /\ i - Len(toServer) \in 1..1
               /\ toServer'[i] = <<Request(new, TRUE)>>[i - Len(toServer)]
               /\ ~clientClosed
      BY <2>2, <1>1, <1>2, SentToServer
    <3>2. QED BY <3>1, <1>2 DEF Request
  <2>3. QED BY <2>1, <2>2 DEF SendRequestThrows
<1>4. QED
  BY <1>3, RegisterIInv DEF SendRequestThrows, server

\* A notification takes an id and leaves the requests alone.
LEMMA SendNotificationIInv ==
  ASSUME IInv, TypeOK', SendNotification
  PROVE  IInv'
<1> PICK new \in Ids : new = nextMessageId
  BY DEF SendNotification
<1> USE DEF IsRequest, IsCancel, server
<1>1. new \in Nat /\ nextMessageId' = new + 1
  BY DEF SendNotification, Ids
<1>2. toServer \in Seq(ServerMessage) /\ Len(toServer) \in Nat
  BY DEF IInv, TypeOK
<1>3. <<Notification(new)>> \in Seq(ServerMessage)
  BY MessageTypes, ShortSequences
<1>4. \A i \in 1..Len(toServer') :
        \/ i \in 1..Len(toServer) /\ toServer'[i] = toServer[i]
        \/ toServer'[i].id = new /\ toServer'[i].type = "Notification"
  <2>1. CASE UNCHANGED toServer
    BY <2>1, <1>2
  <2>2. CASE SendToServer(<<Notification(new)>>)
    <3>1. \A i \in 1..Len(toServer') :
            \/ i \in 1..Len(toServer) /\ toServer'[i] = toServer[i]
            \/ /\ i - Len(toServer) \in 1..1
               /\ toServer'[i] = <<Notification(new)>>[i - Len(toServer)]
      BY <2>2, <1>2, <1>3, SentToServer
    <3>2. QED BY <3>1 DEF Notification
  <2>3. QED BY <2>1, <2>2 DEF SendNotification
<1>5. IdsAreFresh'
  <2>1. \A i \in 1..Len(toServer) : toServer[i].id < new /\ toServer[i].id \in Nat
    <3>1. \A i \in 1..Len(toServer) : toServer[i] \in ServerMessage
      BY <1>2
    <3>2. \A m \in ServerMessage : m.id \in Nat
      BY DEF ServerMessage, Ids
    <3>3. \A i \in 1..Len(toServer) : toServer[i].id < new
      BY DEF IInv, IdsAreFresh
    <3>4. QED BY <3>1, <3>2, <3>3
  <2>2. \A k \in 1..Len(toClient) : toClient[k].id < new /\ toClient[k].id \in Nat
    <3>1. \A k \in 1..Len(toClient) : toClient[k] \in ClientMessage
      BY DEF IInv, TypeOK
    <3>2. QED BY <3>1 DEF IInv, IdsAreFresh, ClientMessage, Ids
  <2>3. \A id \in pendingRequests \union running \union signalled : id < new /\ id \in Nat
    BY DEF IInv, IdsAreFresh, TypeOK, Ids
  <2>4. \A i \in 1..Len(toServer') : toServer'[i].id < new + 1
    BY <1>1, <1>4, <2>1
  <2>5. \A k \in 1..Len(toClient) : toClient[k].id < new + 1
    BY <1>1, <2>2
  <2>6. \A id \in pendingRequests \union running \union signalled : id < new + 1
    BY <1>1, <2>3
  <2>7. QED BY <1>1, <2>4, <2>5, <2>6 DEF IdsAreFresh, SendNotification
<1>6. RequestsAreDistinct'
  <2>1. UNCHANGED <<running, toClient>>
    BY DEF SendNotification
  <2>2. \A i \in 1..Len(toServer') : IsRequest(i)' =>
          i \in 1..Len(toServer) /\ IsRequest(i) /\ toServer'[i].id = toServer[i].id
    BY <1>4
  <2>3. RequestsAreDistinct
    BY DEF IInv
  <2> HIDE DEF IsRequest
  <2>4. QED BY <2>1, <2>2, <2>3 DEF RequestsAreDistinct
<1>7. UnansweredIsPending'
  <2>1. UNCHANGED <<pendingRequests, promise, running, toClient, clientClosed, serverClosed>>
    BY DEF SendNotification
  <2>2. QED BY <1>4, <2>1 DEF IInv, UnansweredIsPending, Live
<1>8. CancelsAreAskedFor'
  BY <1>4 DEF IInv, CancelsAreAskedFor, CancelIsForItsRequest, SendNotification
<1>9. EntriesAgree'
  BY DEF IInv, EntriesAgree, SendNotification
<1>10. QED
  BY <1>5, <1>6, <1>7, <1>8, <1>9 DEF IInv

\* The Cancels of a token go to requests that are armed, hence sent before.
LEMMA CancelTokenIInv ==
  ASSUME IInv, TypeOK', NEW t \in Tokens, CancelToken(t)
  PROVE  IInv'
<1> USE DEF IsRequest, IsCancel, server
<1>1. toServer \in Seq(ServerMessage) /\ Len(toServer) \in Nat
  BY DEF IInv, TypeOK
<1>2. \A i \in 1..Len(toServer') :
        \/ i \in 1..Len(toServer) /\ toServer'[i] = toServer[i]
        \/ /\ i > Len(toServer)
           /\ toServer'[i].type = "Cancel"
           /\ toServer'[i].id \in Subscribed(t)
  <2>1. PICK failed \in SUBSET Subscribed(t) :
          \E ids \in Ascending(Subscribed(t) \ failed) :
            SendToServer([i \in DOMAIN ids |-> Cancel(ids[i])])
    BY DEF CancelToken
  <2>2. PICK ids \in Ascending(Subscribed(t) \ failed) :
          SendToServer([i \in DOMAIN ids |-> Cancel(ids[i])])
    BY <2>1
  <2> DEFINE ms == [i \in DOMAIN ids |-> Cancel(ids[i])]
  <2>3. Subscribed(t) \ failed \in SUBSET Ids
    BY DEF Subscribed, IInv, TypeOK
  <2>4. ms \in Seq(ServerMessage) /\ \A i \in DOMAIN ids : ids[i] \in Subscribed(t)
    BY <2>2, <2>3, BurstType
  <2>5. \A k \in 1..Len(ms) : ms[k].type = "Cancel" /\ ms[k].id \in Subscribed(t)
    <3>1. DOMAIN ms = 1..Len(ms)
      BY <2>4
    <3>2. DOMAIN ms = DOMAIN ids
      OBVIOUS
    <3>3. QED BY <3>1, <3>2, <2>4 DEF Cancel
  <2> HIDE DEF ms
  <2>6. \A i \in 1..Len(toServer') :
          \/ i \in 1..Len(toServer) /\ toServer'[i] = toServer[i]
          \/ /\ i > Len(toServer)
             /\ i - Len(toServer) \in 1..Len(ms)
             /\ toServer'[i] = ms[i - Len(toServer)]
             /\ ~clientClosed
    <3>1. SendToServer(ms)
      BY <2>2 DEF ms
    <3>2. QED BY <3>1, <2>4, <1>1, SentToServer
  <2>7. QED BY <2>5, <2>6
<1>3. \A id \in Subscribed(t) : /\ id \in pendingRequests
                               /\ id < nextMessageId
                               /\ tokenOf[id] = t
  BY DEF Subscribed, IInv, EntriesAgree, IdsAreFresh
<1>4. IdsAreFresh'
  <2>1. \A i \in 1..Len(toServer') : toServer'[i].id < nextMessageId
    BY <1>2, <1>3 DEF IInv, IdsAreFresh
  <2>2. QED BY <2>1 DEF IInv, IdsAreFresh, CancelToken
<1>5. RequestsAreDistinct'
  BY <1>2 DEF IInv, RequestsAreDistinct, CancelToken
<1>6. UnansweredIsPending'
  BY <1>2 DEF IInv, UnansweredIsPending, Live, CancelToken
<1>7. CancelsAreAskedFor'
  <2>1. \A i \in 1..Len(toServer') : IsCancel(i)' => tokenOf[toServer'[i].id] \in cancelled'
    BY <1>2, <1>3 DEF IInv, CancelsAreAskedFor, CancelToken
  <2>2. \A i, j \in 1..Len(toServer') :
          IsCancel(i)' /\ IsRequest(j)' /\ toServer'[i].id = toServer'[j].id => j < i
    BY <1>1, <1>2 DEF IInv, CancelsAreAskedFor, CancelIsForItsRequest
  <2>3. \A id \in signalled : tokenOf[id] \in cancelled'
    BY DEF IInv, CancelsAreAskedFor, CancelIsForItsRequest, CancelToken
  <2>4. QED BY <2>1, <2>2, <2>3 DEF CancelsAreAskedFor, CancelIsForItsRequest, CancelToken
<1>8. EntriesAgree'
  BY DEF IInv, EntriesAgree, CancelToken
<1>9. QED
  BY <1>4, <1>5, <1>6, <1>7, <1>8 DEF IInv

\* The request an answer is for is nowhere else, so nothing that stays relies on it
\* being pending.
LEMMA HandleReplyIInv ==
  ASSUME IInv, TypeOK', HandleReply
  PROVE  IInv'
<1> USE DEF IsRequest, IsCancel, server
<1>1. toClient \in Seq(ClientMessage) /\ toClient # <<>> /\ toClient' = Tail(toClient)
  BY DEF IInv, TypeOK, HandleReply
<1>2. /\ 1 \in 1..Len(toClient) /\ Head(toClient) = toClient[1]
      /\ \A k \in 1..Len(toClient') :
           /\ k + 1 \in 1..Len(toClient)
           /\ k + 1 # 1
           /\ toClient'[k] = toClient[k + 1]
  BY <1>1
<1> PICK id : id = toClient[1].id
  OBVIOUS
<1>3. id \in pendingRequests /\ Live(id) /\ ~clientClosed
  BY <1>2 DEF IInv, UnansweredIsPending, Live
<1>4. /\ pendingRequests' = pendingRequests \ {id}
      /\ listeners' = listeners \ {id}
      /\ armed' = armed \ {id}
      /\ \A other \in Ids : other # id => promise'[other] = promise[other]
  BY <1>2, <1>3 DEF HandleReply, IInv, TypeOK
<1>5. /\ \A i \in 1..Len(toServer) : IsRequest(i) => toServer[i].id # id
      /\ id \notin running
      /\ \A k \in 1..Len(toClient') : toClient'[k].id # id
  <2>1. \A k \in 1..Len(toClient') : toClient[k + 1].id # toClient[1].id
    BY <1>2 DEF IInv, RequestsAreDistinct
  <2>2. QED BY <1>2, <2>1 DEF IInv, RequestsAreDistinct
<1>6. UNCHANGED <<nextMessageId, tokenOf, cancelled, clientClosed, server, toServer>>
  BY DEF HandleReply
<1>7. IdsAreFresh'
  <2>1. \A k \in 1..Len(toClient') : toClient'[k].id < nextMessageId
    BY <1>2 DEF IInv, IdsAreFresh
  <2>2. QED BY <2>1, <1>4, <1>6 DEF IInv, IdsAreFresh
<1>8. RequestsAreDistinct'
  <2>1. \A k, l \in 1..Len(toClient') : toClient'[k].id = toClient'[l].id => k = l
    <3>1. ASSUME NEW k \in 1..Len(toClient'), NEW l \in 1..Len(toClient'),
                 toClient'[k].id = toClient'[l].id
          PROVE  k = l
      <4>1. toClient[k + 1].id = toClient[l + 1].id
        BY <1>2, <3>1
      <4>2. k + 1 = l + 1
        BY <1>2, <4>1 DEF IInv, RequestsAreDistinct
      <4>3. QED BY <4>2
    <3>2. QED BY <3>1
  <2>2. \A i \in 1..Len(toServer), k \in 1..Len(toClient') :
          IsRequest(i) => toServer[i].id # toClient'[k].id
    BY <1>2 DEF IInv, RequestsAreDistinct
  <2>3. \A k \in 1..Len(toClient') : toClient'[k].id \notin running
    BY <1>2 DEF IInv, RequestsAreDistinct
  <2>4. QED BY <2>1, <2>2, <2>3, <1>6 DEF IInv, RequestsAreDistinct
<1>9. UnansweredIsPending'
  <2>1. /\ \A i \in 1..Len(toServer) : toServer[i].id \in Ids
        /\ \A k \in 1..Len(toClient') : toClient'[k].id \in Ids
        /\ running \subseteq Ids
    <3>1. \A i \in 1..Len(toServer) : toServer[i] \in ServerMessage
      BY DEF IInv, TypeOK
    <3>2. \A k \in 1..Len(toClient') : toClient'[k] \in ClientMessage
      BY DEF TypeOK
    <3>3. QED BY <3>1, <3>2 DEF ServerMessage, ClientMessage, IInv, TypeOK
  <2> DEFINE LiveAfter(x) == x \in pendingRequests' /\ promise'[x] \in {"waiting", "thrown"}
  <2>2. \A x \in Ids : x # id /\ Live(x) => LiveAfter(x)
    BY <1>4 DEF Live
  <2> HIDE DEF LiveAfter
  <2>3. \A i \in 1..Len(toServer) : IsRequest(i) => LiveAfter(toServer[i].id)
    BY <1>3, <1>5, <2>1, <2>2 DEF IInv, UnansweredIsPending
  <2>4. \A x \in running : LiveAfter(x)
    BY <1>3, <1>5, <2>1, <2>2 DEF IInv, UnansweredIsPending
  <2>5. \A k \in 1..Len(toClient') : LiveAfter(toClient'[k].id)
    <3>1. \A k \in 1..Len(toClient') : Live(toClient'[k].id)
      BY <1>2 DEF IInv, UnansweredIsPending
    <3>2. QED BY <3>1, <1>5, <2>1, <2>2
  <2>6. QED BY <2>3, <2>4, <2>5, <1>3, <1>6 DEF UnansweredIsPending, Live, LiveAfter
<1>10. CancelsAreAskedFor'
  BY <1>6 DEF IInv, CancelsAreAskedFor, CancelIsForItsRequest
<1>11. EntriesAgree'
  BY <1>4, <1>6 DEF IInv, EntriesAgree
<1>12. QED
  BY <1>7, <1>8, <1>9, <1>10, <1>11 DEF IInv

\* What the server receives leaves its inbox and changes nothing about the rest.
LEMMA ServerReceivesIInv ==
  ASSUME IInv, TypeOK', ServerReceives
  PROVE  IInv'
<1> USE DEF IsRequest, IsCancel, client
<1>1. toServer \in Seq(ServerMessage)
  BY DEF IInv, TypeOK
<1>2. PICK m : m = toServer[1]
  OBVIOUS
<1>3. /\ 1 \in 1..Len(toServer)
      /\ Head(toServer) = m
      /\ \A i \in 1..Len(toServer') : /\ i + 1 \in 1..Len(toServer)
                                     /\ i + 1 # 1
                                     /\ toServer'[i] = toServer[i + 1]
  <2>1. toServer # <<>> /\ toServer' = Tail(toServer)
    BY DEF ServerReceives, HandleRequest, HandleCancel, HandleNotify, IncomingAtServer
  <2>2. QED BY <2>1, <1>1, <1>2
<1>4. UNCHANGED <<client, toClient>>
  BY DEF ServerReceives, HandleRequest, HandleCancel, HandleNotify
<1>5. \/ m.type = "Request" /\ running' = running \union {m.id}
      \/ running' = running
  BY <1>3 DEF ServerReceives, HandleRequest, HandleCancel, HandleNotify, IncomingAtServer, server
<1>6. \/ m.type = "Cancel" /\ signalled' \subseteq signalled \union {m.id}
      \/ signalled' = signalled
  BY <1>3 DEF ServerReceives, HandleRequest, HandleCancel, HandleNotify, IncomingAtServer, server
<1>7. tokenSources' \subseteq tokenSources \union (running' \ running)
        \/ tokenSources' \subseteq running'
  BY <1>3 DEF ServerReceives, HandleRequest, HandleCancel, HandleNotify, IncomingAtServer, server,
     IInv, EntriesAgree
<1>8. IdsAreFresh'
  <2>1. \A i \in 1..Len(toServer') : toServer'[i].id < nextMessageId
    BY <1>3 DEF IInv, IdsAreFresh
  <2>2. m.id < nextMessageId
    BY <1>2, <1>3 DEF IInv, IdsAreFresh
  <2>3. QED BY <2>1, <2>2, <1>4, <1>5, <1>6 DEF IInv, IdsAreFresh
<1>9. RequestsAreDistinct'
  <2>1. ASSUME NEW i \in 1..Len(toServer'), NEW j \in 1..Len(toServer'),
               IsRequest(i)', IsRequest(j)', toServer'[i].id = toServer'[j].id
        PROVE  i = j
    <3>1. i + 1 = j + 1
      BY <1>3, <2>1 DEF IInv, RequestsAreDistinct
    <3>2. QED BY <3>1
  <2>2. \A i \in 1..Len(toServer'), k \in 1..Len(toClient) :
          IsRequest(i)' => toServer'[i].id # toClient[k].id
    BY <1>3 DEF IInv, RequestsAreDistinct
  <2>3. \A i \in 1..Len(toServer') :
          IsRequest(i)' => toServer'[i].id \notin running
    BY <1>3 DEF IInv, RequestsAreDistinct
  <2>4. m.type = "Request" =>
          \A i \in 1..Len(toServer') : IsRequest(i)' => toServer'[i].id # m.id
    BY <1>2, <1>3 DEF IInv, RequestsAreDistinct
  <2>5. m.type = "Request" => \A k \in 1..Len(toClient) : toClient[k].id # m.id
    BY <1>2, <1>3 DEF IInv, RequestsAreDistinct
  <2>6. QED
    BY <2>1, <2>2, <2>3, <2>4, <2>5, <1>4, <1>5 DEF IInv, RequestsAreDistinct
<1>10. UnansweredIsPending'
  <2>1. ~clientClosed /\ m.type = "Request" => Live(m.id)
    BY <1>2, <1>3 DEF IInv, UnansweredIsPending
  <2>2. \A i \in 1..Len(toServer') : ~clientClosed /\ IsRequest(i)' => Live(toServer'[i].id)
    BY <1>3 DEF IInv, UnansweredIsPending
  <2>3. QED BY <2>1, <2>2, <1>4, <1>5 DEF IInv, UnansweredIsPending, Live
<1>11. CancelsAreAskedFor'
  <2>1. \A i \in 1..Len(toServer') : IsCancel(i)' => tokenOf[toServer'[i].id] \in cancelled
    BY <1>3 DEF IInv, CancelsAreAskedFor
  <2>2. m.type = "Cancel" => tokenOf[m.id] \in cancelled
    BY <1>2, <1>3 DEF IInv, CancelsAreAskedFor
  <2>3. ASSUME NEW i \in 1..Len(toServer'), NEW j \in 1..Len(toServer'),
               IsCancel(i)', IsRequest(j)', toServer'[i].id = toServer'[j].id
        PROVE  j < i
    <3>1. j + 1 < i + 1
      BY <1>3, <2>3 DEF IInv, CancelsAreAskedFor, CancelIsForItsRequest
    <3>2. QED BY <3>1
  <2>4. QED BY <2>1, <2>2, <2>3, <1>4, <1>6 DEF IInv, CancelsAreAskedFor, CancelIsForItsRequest
<1>12. EntriesAgree'
  BY <1>4, <1>5, <1>7 DEF IInv, EntriesAgree
<1>13. QED
  BY <1>8, <1>9, <1>10, <1>11, <1>12 DEF IInv

\* A handler that settles is the only place of its request, which moves from there
\* into the answer, or nowhere.
LEMMA FinishIInv ==
  ASSUME IInv, TypeOK', NEW id \in Ids,
         HandlerResolves(id) \/ HandlerFails(id) \/ AnswerIsLost(id)
  PROVE  IInv'
<1> USE DEF IsRequest, IsCancel, client
<1>1. Finish(id)
  BY DEF HandlerResolves, HandlerFails, AnswerIsLost
<1>2. /\ id \in running
      /\ running' = running \ {id}
      /\ tokenSources' = tokenSources \ {id}
      /\ UNCHANGED <<client, signalled, serverClosed, toServer>>
  BY <1>1 DEF Finish
<1>3. \A k \in 1..Len(toClient') :
        \/ k \in 1..Len(toClient) /\ toClient'[k] = toClient[k]
        \/ k = Len(toClient) + 1 /\ toClient'[k].id = id /\ ~clientClosed
  <2>1. toClient \in Seq(ClientMessage)
    BY DEF IInv, TypeOK
  <2>2. CASE HandlerResolves(id)
    <3>1. Reply(id) \in ClientMessage /\ Reply(id).id = id /\ SendToClient(Reply(id))
      BY <2>2, MessageTypes DEF HandlerResolves, Reply
    <3>2. QED BY <2>1, <3>1, SentToClient
  <2>3. CASE HandlerFails(id)
    <3>1. ReplyErr(id) \in ClientMessage /\ ReplyErr(id).id = id /\ SendToClient(ReplyErr(id))
      BY <2>3, MessageTypes DEF HandlerFails, ReplyErr
    <3>2. QED BY <2>1, <3>1, SentToClient
  <2>4. CASE AnswerIsLost(id)
    BY <2>1, <2>4 DEF AnswerIsLost
  <2>5. QED BY <2>2, <2>3, <2>4
<1>4. IdsAreFresh'
  <2>1. \A k \in 1..Len(toClient') : toClient'[k].id < nextMessageId
    BY <1>2, <1>3 DEF IInv, IdsAreFresh
  <2>2. QED BY <2>1, <1>2 DEF IInv, IdsAreFresh
<1>5. RequestsAreDistinct'
  <2>1. \A k, l \in 1..Len(toClient') : toClient'[k].id = toClient'[l].id => k = l
    BY <1>2, <1>3 DEF IInv, RequestsAreDistinct
  <2>2. \A i \in 1..Len(toServer), k \in 1..Len(toClient') :
          IsRequest(i) => toServer[i].id # toClient'[k].id
    BY <1>2, <1>3 DEF IInv, RequestsAreDistinct
  <2>3. \A k \in 1..Len(toClient') : toClient'[k].id \notin running'
    BY <1>2, <1>3 DEF IInv, RequestsAreDistinct
  <2>4. QED BY <2>1, <2>2, <2>3, <1>2 DEF IInv, RequestsAreDistinct
<1>6. UnansweredIsPending'
  <2>1. ~clientClosed => Live(id)
    BY <1>2 DEF IInv, UnansweredIsPending
  <2>2. \A k \in 1..Len(toClient') : ~clientClosed /\ Live(toClient'[k].id)
    BY <2>1, <1>3 DEF IInv, UnansweredIsPending
  <2>3. QED BY <2>2, <1>2 DEF IInv, UnansweredIsPending, Live
<1>7. CancelsAreAskedFor'
  BY <1>2 DEF IInv, CancelsAreAskedFor, CancelIsForItsRequest
<1>8. EntriesAgree'
  BY <1>2 DEF IInv, EntriesAgree
<1>9. QED
  BY <1>4, <1>5, <1>6, <1>7, <1>8 DEF IInv

\* The close of the channel at either end empties the inbox of that end; requests
\* at a closed client need not be pending.
LEMMA ChannelClosedIInv ==
  ASSUME IInv, TypeOK', ClientChannelClosed \/ ServerChannelClosed
  PROVE  IInv'
<1>1. CASE ClientChannelClosed
  <2>1. Len(toClient') = 0 /\ clientClosed'
    BY <1>1 DEF ClientChannelClosed
  <2>2. QED
    BY <1>1, <2>1 DEF ClientChannelClosed, IInv, IdsAreFresh, RequestsAreDistinct,
       UnansweredIsPending, CancelsAreAskedFor, CancelIsForItsRequest, EntriesAgree,
       IsRequest, IsCancel, server
<1>2. CASE ServerChannelClosed
  <2>1. Len(toServer') = 0
    BY <1>2 DEF ServerChannelClosed
  <2>2. QED
    BY <1>2, <2>1 DEF ServerChannelClosed, IInv, IdsAreFresh, RequestsAreDistinct,
       UnansweredIsPending, CancelsAreAskedFor, CancelIsForItsRequest, EntriesAgree,
       IsRequest, IsCancel, Live, client
<1>3. QED BY <1>1, <1>2

\* Stuttering keeps everything.
LEMMA StutterIInv ==
  ASSUME IInv, UNCHANGED vars
  PROVE  IInv'
  BY DEF vars, client, server, IInv, TypeOK, IdsAreFresh, RequestsAreDistinct,
     UnansweredIsPending, CancelsAreAskedFor, CancelIsForItsRequest, EntriesAgree,
     IsRequest, IsCancel, Live

\* The inductive invariant holds in every reachable state.
THEOREM Inductive == Spec => []IInv
<1>1. IInv /\ [Next]_vars => IInv'
  <2> SUFFICES ASSUME IInv, [Next]_vars PROVE IInv'
    OBVIOUS
  <2>1. TypeOK'
    BY NextTypeOK DEF IInv
  <2>2. ASSUME NEW t \in Tokens \union {NoToken}, SendRequest(t) PROVE IInv'
    BY <2>1, <2>2, SendRequestIInv
  <2>3. ASSUME NEW t \in Tokens \union {NoToken}, SendRequestThrows(t) PROVE IInv'
    BY <2>1, <2>3, SendRequestThrowsIInv
  <2>4. CASE SendNotification
    BY <2>1, <2>4, SendNotificationIInv
  <2>5. ASSUME NEW t \in Tokens, CancelToken(t) PROVE IInv'
    BY <2>1, <2>5, CancelTokenIInv
  <2>6. CASE HandleReply
    BY <2>1, <2>6, HandleReplyIInv
  <2>7. CASE ServerReceives
    BY <2>1, <2>7, ServerReceivesIInv
  <2>8. ASSUME NEW id \in Ids, HandlerResolves(id) \/ HandlerFails(id) \/ AnswerIsLost(id)
        PROVE IInv'
    BY <2>1, <2>8, FinishIInv
  <2>9. CASE ClientChannelClosed \/ ServerChannelClosed
    BY <2>1, <2>9, ChannelClosedIInv
  <2>10. CASE UNCHANGED vars
    BY <2>10, StutterIInv
  <2>11. QED
    BY <2>2, <2>3, <2>4, <2>5, <2>6, <2>7, <2>8, <2>9, <2>10 DEF Next
<1>2. QED
  BY <1>1, InitIInv, PTL DEF Spec

(***************************************************************************)
(* The properties that the runs check, for every number of messages and    *)
(* tokens.                                                                 *)
(***************************************************************************)

\* An answer always finds its request: 'No reply handler for reply with id' is never
\* thrown and no promise is settled twice.
THEOREM AnswerFindsRequestAlways == Spec => []AnswerFindsRequest
<1>1. IInv => AnswerFindsRequest
  BY DEF IInv, UnansweredIsPending, AnswerFindsRequest, Live
<1>2. QED BY <1>1, Inductive, PTL

\* A request is never in two places.
THEOREM RequestInOnePlaceAlways == Spec => []RequestInOnePlace
<1>1. IInv => RequestInOnePlace
  BY DEF IInv, RequestsAreDistinct, RequestInOnePlace, OnItsWay, Answers, IsRequest
<1>2. QED BY <1>1, Inductive, PTL

(***************************************************************************)
(* Promises and entries: an id that has not been handed out has no         *)
(* promise, one that waits has its entry in pendingRequests, where the     *)
(* close finds it, and no entry is of a promise that is settled.           *)
(***************************************************************************)
PromisesArePending ==
  /\ \A id \in Ids : id >= nextMessageId => promise[id] = "none"
  /\ \A id \in Ids : promise[id] = "waiting" => id \in pendingRequests
  /\ \A id \in pendingRequests : promise[id] \in {"waiting", "thrown"}
  /\ \A id \in armed : promise[id] = "waiting"

\* Initially there is neither.
LEMMA InitPromises == Init => PromisesArePending
  BY DEF Init, PromisesArePending

\* Only sendRequest makes a promise wait, and only a reply or the close of the client's
\* channel takes an entry away, settling the promise that waits.
LEMMA NextPromises ==
  ASSUME TypeOK, PromisesArePending, [Next]_vars
  PROVE  PromisesArePending'
<1> USE MaxMessagesAssumption
<1>1. /\ nextMessageId \in Nat /\ Ids \subseteq Nat
      /\ promise \in [Ids -> Outcome] /\ pendingRequests \subseteq Ids
  BY DEF TypeOK, Ids
<1>2. ASSUME NEW t \in Tokens \union {NoToken}, SendRequest(t) \/ SendRequestThrows(t)
      PROVE  PromisesArePending'
  <2>1. PICK outcome \in {"waiting", "thrown"} :
          promise' = [promise EXCEPT ![nextMessageId] = outcome]
    BY <1>2 DEF SendRequest, SendRequestThrows
  <2>2. /\ nextMessageId' = nextMessageId + 1
        /\ pendingRequests' = pendingRequests \union {nextMessageId}
        /\ nextMessageId \in Ids
    BY <1>2 DEF SendRequest, SendRequestThrows, Register
  <2>3. /\ \A id \in Ids : id # nextMessageId => promise'[id] = promise[id]
        /\ promise'[nextMessageId] = outcome
    BY <1>1, <2>1, <2>2
  <2>4. \A id \in armed' : promise'[id] = "waiting"
    <3>1. nextMessageId \notin armed
      BY <1>1, <2>2 DEF PromisesArePending
    <3>2. \/ armed' = armed
          \/ armed' = armed \union {nextMessageId} /\ SendRequest(t)
      BY <1>2 DEF SendRequest, SendRequestThrows
    <3>3. SendRequest(t) => promise'[nextMessageId] = "waiting"
      BY <1>1, <2>2 DEF SendRequest
    <3>4. armed \subseteq Ids
      BY DEF TypeOK
    <3>5. QED BY <2>3, <3>1, <3>2, <3>3, <3>4 DEF PromisesArePending
  <2>5. /\ \A id \in Ids : id >= nextMessageId' => promise'[id] = "none"
        /\ \A id \in Ids : promise'[id] = "waiting" => id \in pendingRequests'
        /\ \A id \in pendingRequests' : promise'[id] \in {"waiting", "thrown"}
    BY <1>1, <2>2, <2>3 DEF PromisesArePending
  <2>6. QED
    BY <2>4, <2>5 DEF PromisesArePending
<1>3. CASE SendNotification
  BY <1>1, <1>3 DEF SendNotification, PromisesArePending
<1>4. CASE HandleReply
  <2>1. nextMessageId' = nextMessageId
    BY <1>4 DEF HandleReply
  <2>2. CASE UNCHANGED <<pendingRequests, promise, armed>>
    BY <2>1, <2>2 DEF PromisesArePending
  <2>3. CASE ~ UNCHANGED <<pendingRequests, promise, armed>>
    <3> DEFINE id == Head(toClient).id
               got == IF Head(toClient).type = "Reply" THEN "resolved" ELSE "rejected"
    <3>1. /\ pendingRequests' = pendingRequests \ {id}
          /\ promise' = [promise EXCEPT ![id] =
                           IF promise[id] # "waiting" THEN promise[id] ELSE got]
          /\ id \in pendingRequests
          /\ armed' = armed \ {id}
      BY <1>4, <2>3 DEF HandleReply
    <3>2. got \in {"resolved", "rejected"}
      OBVIOUS
    <3> HIDE DEF id, got
    <3>3. \A other \in Ids : other # id => promise'[other] = promise[other]
      BY <1>1, <3>1
    <3>4. promise[id] = "waiting" => promise'[id] = got
      BY <1>1, <3>1
    <3>5. promise[id] # "waiting" => promise'[id] = promise[id]
      BY <1>1, <3>1
    <3>6. promise'[id] # "waiting"
      BY <3>2, <3>4, <3>5
    <3>7. id \in Ids /\ (id >= nextMessageId => promise'[id] = "none")
      <4>1. id \in Ids
        BY <1>1, <3>1
      <4>2. id >= nextMessageId => promise[id] = "none"
        BY <4>1 DEF PromisesArePending
      <4>3. QED BY <4>1, <4>2, <3>5
    <3>8. QED
      <4>1. armed \subseteq Ids
        BY DEF TypeOK
      <4>2. QED
        BY <1>1, <2>1, <3>1, <3>3, <3>6, <3>7, <4>1 DEF PromisesArePending
  <2>4. QED BY <2>2, <2>3
<1>5. CASE ClientChannelClosed
  <2>1. /\ nextMessageId' = nextMessageId
        /\ promise' = [id \in Ids |->
                         IF id \in pendingRequests /\ promise[id] = "waiting" THEN "closed"
                         ELSE promise[id]]
        /\ pendingRequests' = {} /\ armed' = {}
    BY <1>5 DEF ClientChannelClosed
  <2>2. \A id \in Ids : promise'[id] # "waiting" /\ (promise[id] = "none" => promise'[id] = "none")
    BY <2>1 DEF PromisesArePending
  <2>3. QED BY <2>1, <2>2 DEF PromisesArePending
<1>6. CASE ~ \/ \E t \in Tokens \union {NoToken} : SendRequest(t) \/ SendRequestThrows(t)
             \/ SendNotification \/ HandleReply \/ ClientChannelClosed
  <2>1. UNCHANGED <<nextMessageId, promise, pendingRequests, armed>>
    BY <1>6 DEF Next, vars, client, CancelToken, ServerReceives, HandleRequest, HandleCancel,
       HandleNotify, HandlerResolves, HandlerFails, AnswerIsLost, Finish, ServerChannelClosed
  <2>2. QED BY <2>1 DEF PromisesArePending
<1>7. QED
  BY <1>2, <1>3, <1>4, <1>5, <1>6

\* The properties of promises hold in every reachable state.
LEMMA PromisesInductive == Spec => []PromisesArePending
<1>1. Init => PromisesArePending
  BY InitPromises
<1>2. IInv /\ PromisesArePending /\ [Next]_vars => PromisesArePending'
  BY NextPromises DEF IInv
<1>3. QED
  BY <1>1, <1>2, Inductive, PTL DEF Spec

\* An entry, a token's listener or a token source is there for an open request only: one
\* that waits, one that is handled, or one whose commit threw.
THEOREM EntriesAreOfOpenRequestsAlways == Spec => []EntriesAreOfOpenRequests
<1>1. IInv /\ PromisesArePending => EntriesAreOfOpenRequests
  BY DEF IInv, EntriesAgree, PromisesArePending, EntriesAreOfOpenRequests
<1>2. QED BY <1>1, Inductive, PromisesInductive, PTL

\* Cancellation reaches the handler of the request it was asked for, and no other.
THEOREM CancelIsForItsRequestAlways == Spec => []CancelIsForItsRequest
<1>1. IInv => CancelIsForItsRequest
  BY DEF IInv, CancelsAreAskedFor
<1>2. QED BY <1>1, Inductive, PTL

-----------------------------------------------------------------------------
(***************************************************************************)
(* RpcProtocol implements RequestService.                                  *)
(***************************************************************************)


\* The mapped variables.
Travelling == {id \in Ids : OnItsWay(id) # {}}

Replied == {id \in Ids : Answers(id) # {}}

(***************************************************************************)
(* How a step changes what travels and what is answered.                   *)
(***************************************************************************)

\* A request travels when it is at some position of the server's inbox; so for answers.
LEMMA Positions ==
  /\ \A id \in Ids : id \in Travelling <=>
       \E i \in 1..Len(toServer) : toServer[i].type = "Request" /\ toServer[i].id = id
  /\ \A id \in Ids : id \in Replied <=> \E k \in 1..Len(toClient) : toClient[k].id = id
  /\ \A id \in Ids : id \in Travelling' <=>
       \E i \in 1..Len(toServer') : toServer'[i].type = "Request" /\ toServer'[i].id = id
  /\ \A id \in Ids : id \in Replied' <=> \E k \in 1..Len(toClient') : toClient'[k].id = id
  /\ Travelling \subseteq Ids /\ Replied \subseteq Ids
  /\ Travelling' \subseteq Ids /\ Replied' \subseteq Ids
BY DEF Travelling, Replied, OnItsWay, Answers, Ids

\* The requests among the messages ms.
RequestsIn(ms) == {id \in Ids : \E j \in 1..Len(ms) : ms[j].type = "Request" /\ ms[j].id = id}

\* What is sent travels on, if the channel is open.
LEMMA TravellingAfterSend ==
  ASSUME NEW ms \in Seq(ServerMessage), toServer \in Seq(ServerMessage), SendToServer(ms)
  PROVE  Travelling' = IF clientClosed \/ serverClosed THEN Travelling
                       ELSE Travelling \union RequestsIn(ms)
<1>1. CASE clientClosed \/ serverClosed
  <2>1. toServer' = toServer
    BY <1>1 DEF SendToServer
  <2>2. Travelling' = Travelling
    BY <2>1, Positions
  <2>3. QED BY <1>1, <2>2
<1>2. CASE ~(clientClosed \/ serverClosed)
  <2>1. toServer' = toServer \o ms
    BY <1>2 DEF SendToServer
  <2>2. \A i \in 1..Len(toServer) : i \in 1..Len(toServer') /\ toServer'[i] = toServer[i]
    BY <2>1
  <2>3. \A j \in 1..Len(ms) : /\ Len(toServer) + j \in 1..Len(toServer')
                              /\ toServer'[Len(toServer) + j] = ms[j]
    BY <2>1
  <2>4. \A i \in 1..Len(toServer') :
          \/ i \in 1..Len(toServer) /\ toServer'[i] = toServer[i]
          \/ i - Len(toServer) \in 1..Len(ms) /\ toServer'[i] = ms[i - Len(toServer)]
    BY SentToServer
  <2>5. \A id \in Ids : id \in Travelling' <=> id \in Travelling \/ id \in RequestsIn(ms)
    <3> TAKE id \in Ids
    <3>1. ASSUME id \in Travelling PROVE id \in Travelling'
      BY <2>2, <3>1, Positions
    <3>2. ASSUME id \in RequestsIn(ms) PROVE id \in Travelling'
      BY <2>3, <3>2, Positions DEF RequestsIn
    <3>3. ASSUME id \in Travelling' PROVE id \in Travelling \/ id \in RequestsIn(ms)
      BY <2>4, <3>3, Positions DEF RequestsIn
    <3>4. QED BY <3>1, <3>2, <3>3
  <2>6. Travelling' = Travelling \union RequestsIn(ms)
    BY <2>5, Positions DEF RequestsIn
  <2>7. QED BY <1>2, <2>6
<1>3. QED BY <1>1, <1>2

\* Receiving a request ends its travel; receiving anything else ends no request's.
LEMMA TravellingAfterReceipt ==
  ASSUME IInv, NEW t, IncomingAtServer(t)
  PROVE  /\ t # "Request" => Travelling' = Travelling
         /\ t = "Request" => /\ Head(toServer).id \in Travelling
                             /\ Travelling' = Travelling \ {Head(toServer).id}
<1>1. toServer \in Seq(ServerMessage) /\ toServer # <<>> /\ toServer' = Tail(toServer)
  BY DEF IInv, TypeOK, IncomingAtServer
<1>2. /\ 1 \in 1..Len(toServer) /\ Head(toServer) = toServer[1] /\ toServer[1].type = t
      /\ \A i \in 1..Len(toServer') :
           i + 1 \in 1..Len(toServer) /\ toServer'[i] = toServer[i + 1]
  BY <1>1, ReceivedByServer
<1>3. \A i \in 1..Len(toServer) :
        i # 1 => i - 1 \in 1..Len(toServer') /\ toServer'[i - 1] = toServer[i]
  BY <1>1
<1>4. \A id \in Travelling' : id \in Travelling
  BY <1>2, Positions
<1>5. ASSUME NEW id \in Travelling, ~(t = "Request" /\ id = Head(toServer).id)
      PROVE  id \in Travelling'
  <2>1. PICK i \in 1..Len(toServer) : toServer[i].type = "Request" /\ toServer[i].id = id
    BY Positions
  <2>2. i # 1
    BY <1>2, <1>5, <2>1
  <2>3. QED BY <1>3, <2>1, <2>2, Positions
<1>6. ASSUME t = "Request"
      PROVE  Head(toServer).id \in Travelling /\ Head(toServer).id \notin Travelling'
  <2>1. Head(toServer).id \in Ids
    <3>1. toServer[1] \in ServerMessage
      BY <1>1, <1>2
    <3>2. QED BY <1>2, <3>1 DEF ServerMessage
  <2>2. Head(toServer).id \in Travelling
    BY <1>2, <1>6, <2>1, Positions
  <2>3. ASSUME Head(toServer).id \in Travelling' PROVE FALSE
    <3>1. PICK i \in 1..Len(toServer') :
            toServer'[i].type = "Request" /\ toServer'[i].id = Head(toServer).id
      BY <2>1, <2>3, Positions
    <3>2. /\ i + 1 \in 1..Len(toServer) /\ i + 1 # 1
          /\ toServer[i + 1].type = "Request" /\ toServer[i + 1].id = toServer[1].id
      BY <1>2, <3>1
    <3>3. QED BY <1>2, <1>6, <3>2 DEF IInv, RequestsAreDistinct, IsRequest
  <2>4. QED BY <2>2, <2>3
<1>7. QED BY <1>4, <1>5, <1>6

\* An answer that is sent is on its way, if the channel is open.
LEMMA RepliedAfterSend ==
  ASSUME NEW m \in ClientMessage, toClient \in Seq(ClientMessage), SendToClient(m)
  PROVE  Replied' = IF clientClosed \/ serverClosed THEN Replied
                    ELSE Replied \union {m.id}
<1>0. m.id \in Ids
  BY DEF ClientMessage
<1>1. CASE clientClosed \/ serverClosed
  <2>1. toClient' = toClient
    BY <1>1 DEF SendToClient
  <2>2. Replied' = Replied
    BY <2>1, Positions
  <2>3. QED BY <1>1, <2>2
<1>2. CASE ~(clientClosed \/ serverClosed)
  <2>1. toClient' = Append(toClient, m)
    BY <1>2 DEF SendToClient
  <2>2. \A k \in 1..Len(toClient) : k \in 1..Len(toClient') /\ toClient'[k] = toClient[k]
    BY <2>1
  <2>3. Len(toClient) + 1 \in 1..Len(toClient') /\ toClient'[Len(toClient) + 1] = m
    BY <2>1
  <2>4. \A k \in 1..Len(toClient') :
          \/ k \in 1..Len(toClient) /\ toClient'[k] = toClient[k]
          \/ toClient'[k] = m
    BY SentToClient
  <2>5. \A id \in Ids : id \in Replied' <=> id \in Replied \/ id = m.id
    BY <2>2, <2>3, <2>4, Positions
  <2>6. Replied' = Replied \union {m.id}
    BY <1>0, <2>5, Positions
  <2>7. QED BY <1>2, <2>6
<1>3. QED BY <1>1, <1>2

\* Receiving an answer takes it off.
LEMMA RepliedAfterReceipt ==
  ASSUME IInv, toClient # <<>>, toClient' = Tail(toClient)
  PROVE  /\ Head(toClient).id \in Replied
         /\ Replied' = Replied \ {Head(toClient).id}
<1>1. toClient \in Seq(ClientMessage)
  BY DEF IInv, TypeOK
<1>2. 1 \in 1..Len(toClient) /\ Head(toClient) = toClient[1] /\ toClient[1].id \in Ids
  <2>1. 1 \in 1..Len(toClient) /\ Head(toClient) = toClient[1] /\ toClient[1] \in ClientMessage
    BY <1>1
  <2>2. QED BY <2>1 DEF ClientMessage
<1>3. \A k \in 1..Len(toClient') : k + 1 \in 1..Len(toClient) /\ toClient'[k] = toClient[k + 1]
  BY <1>1
<1>4. \A k \in 1..Len(toClient) :
        k # 1 => k - 1 \in 1..Len(toClient') /\ toClient'[k - 1] = toClient[k]
  BY <1>1
<1>5. Head(toClient).id \in Replied
  BY <1>2, Positions
<1>6. \A id \in Replied' : id \in Replied
  BY <1>3, Positions
<1>7. \A id \in Replied : id # Head(toClient).id => id \in Replied'
  <2> SUFFICES ASSUME NEW id \in Replied, id # Head(toClient).id PROVE id \in Replied'
    OBVIOUS
  <2>1. PICK k \in 1..Len(toClient) : toClient[k].id = id
    BY Positions
  <2>2. k # 1
    BY <1>2, <2>1
  <2>3. QED BY <1>4, <2>1, <2>2, Positions
<1>8. Head(toClient).id \notin Replied'
  <2> SUFFICES ASSUME Head(toClient).id \in Replied' PROVE FALSE
    OBVIOUS
  <2>1. PICK k \in 1..Len(toClient') : toClient'[k].id = Head(toClient).id
    BY <1>2, Positions
  <2>2. k + 1 \in 1..Len(toClient) /\ k + 1 # 1 /\ toClient[k + 1].id = toClient[1].id
    BY <1>2, <1>3, <2>1
  <2>3. QED BY <1>2, <2>2 DEF IInv, RequestsAreDistinct
<1>9. QED BY <1>5, <1>6, <1>7, <1>8

(***************************************************************************)
(* The steps.                                                              *)
(***************************************************************************)

LEMMA ServiceInit == Init => RS!Init
<1> SUFFICES ASSUME Init PROVE RS!Init
  OBVIOUS
<1>1. Travelling = {} /\ Replied = {}
  BY Positions DEF Init
<1>2. QED BY <1>1 DEF Init, RS!Init, Travelling, Replied

\* sendRequest is a Call, also when it throws.
LEMMA SendRequestCalls ==
  ASSUME IInv, PromisesArePending, NEW t \in Tokens \union {NoToken},
         SendRequest(t) \/ SendRequestThrows(t)
  PROVE  RS!Call(nextMessageId) /\ nextMessageId \in Ids
<1> DEFINE id == nextMessageId
<1>1. id \in Ids /\ promise[id] = "none"
  <2>1. id \in Ids
    BY DEF SendRequest, SendRequestThrows
  <2>2. id >= id
    BY <2>1, MaxMessagesAssumption DEF Ids
  <2>3. QED BY <2>1, <2>2 DEF PromisesArePending
<1>2. UNCHANGED <<running, clientClosed, serverClosed>> /\ Replied' = Replied
  <2>1. UNCHANGED <<running, clientClosed, serverClosed, toClient>>
    BY DEF SendRequest, SendRequestThrows, server
  <2>2. QED BY <2>1, Positions
<1>3. toServer \in Seq(ServerMessage)
  BY DEF IInv, TypeOK
<1>4. \A b \in BOOLEAN :
        /\ <<Request(id, b)>> \in Seq(ServerMessage)
        /\ <<Request(id, b), Cancel(id)>> \in Seq(ServerMessage)
        /\ RequestsIn(<<Request(id, b)>>) = {id}
        /\ RequestsIn(<<Request(id, b), Cancel(id)>>) = {id}
  <2> TAKE b \in BOOLEAN
  <2>1. <<Request(id, b)>> \in Seq(ServerMessage)
    BY <1>1, MessageTypes, ShortSequences
  <2>2. <<Request(id, b), Cancel(id)>> \in Seq(ServerMessage)
    BY <1>1, MessageTypes, ShortSequences
  <2>3. RequestsIn(<<Request(id, b)>>) = {id}
    BY <1>1 DEF RequestsIn, Request
  <2>4. RequestsIn(<<Request(id, b), Cancel(id)>>) = {id}
    BY <1>1 DEF RequestsIn, Request, Cancel
  <2>5. QED BY <2>1, <2>2, <2>3, <2>4
<1>5. ASSUME NEW ms \in Seq(ServerMessage), SendToServer(ms), RequestsIn(ms) = {id}
      PROVE  Travelling' = IF clientClosed \/ serverClosed THEN Travelling
                           ELSE Travelling \union {id}
  BY <1>3, <1>5, TravellingAfterSend
<1>6. CASE SendRequest(t)
  <2>1. promise' = [promise EXCEPT ![id] = "waiting"]
    BY <1>6 DEF SendRequest
  <2>2. Travelling' = IF clientClosed \/ serverClosed THEN Travelling
                      ELSE Travelling \union {id}
    <3>1. CASE SendToServer(<<Request(id, TRUE), Cancel(id)>>)
      BY <1>4, <1>5, <3>1
    <3>2. CASE SendToServer(<<Request(id, t # NoToken)>>)
      <4>1. (t # NoToken) \in BOOLEAN
        OBVIOUS
      <4>2. QED BY <1>4, <1>5, <3>2, <4>1
    <3>3. QED BY <1>6, <3>1, <3>2 DEF SendRequest
  <2>3. QED
    BY <1>1, <1>2, <2>1, <2>2 DEF RS!Call, Travelling, Replied
<1>7. CASE SendRequestThrows(t)
  <2>1. promise' = [promise EXCEPT ![id] = "thrown"]
    BY <1>7 DEF SendRequestThrows
  <2>2. \/ Travelling' = Travelling
        \/ ~clientClosed /\ ~serverClosed /\ Travelling' = Travelling \union {id}
    <3>1. CASE UNCHANGED toServer
      <4>1. Travelling' = Travelling
        BY <3>1, Positions
      <4>2. QED BY <4>1
    <3>2. CASE SendToServer(<<Request(id, TRUE)>>)
      BY <1>4, <1>5, <3>2
    <3>3. QED BY <1>7, <3>1, <3>2 DEF SendRequestThrows
  <2>3. QED
    BY <1>1, <1>2, <2>1, <2>2 DEF RS!Call, Travelling, Replied
<1>8. QED BY <1>1, <1>6, <1>7

\* Notifications and Cancels, sent or received, are no steps of the service.
LEMMA SideMessagesStutter ==
  ASSUME IInv,
         \/ SendNotification
         \/ \E t \in Tokens : CancelToken(t)
         \/ HandleCancel
         \/ HandleNotify
  PROVE  UNCHANGED RS!vars
<1>1. UNCHANGED <<promise, running, clientClosed, serverClosed, toClient>>
  BY DEF SendNotification, CancelToken, HandleCancel, HandleNotify, client, server
<1>2. Replied' = Replied
  BY <1>1, Positions
<1>3. Travelling' = Travelling
  <2>0. toServer \in Seq(ServerMessage)
    BY DEF IInv, TypeOK
  <2>1. CASE SendNotification
    <3>1. CASE UNCHANGED toServer
      BY <3>1, Positions
    <3>2. CASE SendToServer(<<Notification(nextMessageId)>>)
      <4>1. <<Notification(nextMessageId)>> \in Seq(ServerMessage)
        BY <2>1, MessageTypes, ShortSequences DEF SendNotification
      <4>2. RequestsIn(<<Notification(nextMessageId)>>) = {}
        BY DEF RequestsIn, Notification
      <4>3. QED BY <2>0, <3>2, <4>1, <4>2, TravellingAfterSend
    <3>3. QED BY <2>1, <3>1, <3>2 DEF SendNotification
  <2>2. CASE \E t \in Tokens : CancelToken(t)
    <3>1. PICK t \in Tokens : CancelToken(t)
      BY <2>2
    <3>2. PICK failed \in SUBSET Subscribed(t) :
            \E ids \in Ascending(Subscribed(t) \ failed) :
              SendToServer([i \in DOMAIN ids |-> Cancel(ids[i])])
      BY <3>1 DEF CancelToken
    <3>3. PICK ids \in Ascending(Subscribed(t) \ failed) :
            SendToServer([i \in DOMAIN ids |-> Cancel(ids[i])])
      BY <3>2
    <3> DEFINE ms == [i \in DOMAIN ids |-> Cancel(ids[i])]
    <3>4. Subscribed(t) \ failed \in SUBSET Ids
      BY DEF Subscribed, IInv, TypeOK
    <3>5. ms \in Seq(ServerMessage)
      BY <3>4, BurstType
    <3>6. \A j \in 1..Len(ms) : ms[j].type = "Cancel"
      <4>1. \A j \in DOMAIN ids : ms[j].type = "Cancel"
        BY DEF Cancel
      <4>2. DOMAIN ms = 1..Len(ms)
        BY <3>5
      <4>3. QED BY <4>1, <4>2
    <3>7. SendToServer(ms)
      BY <3>3
    <3> HIDE DEF ms
    <3>8. RequestsIn(ms) = {}
      BY <3>6 DEF RequestsIn
    <3>9. QED BY <2>0, <3>5, <3>7, <3>8, TravellingAfterSend
  <2>3. CASE HandleCancel
    <3>1. IncomingAtServer("Cancel")
      BY <2>3 DEF HandleCancel
    <3>2. QED BY <3>1, TravellingAfterReceipt
  <2>4. CASE HandleNotify
    <3>1. IncomingAtServer("Notification")
      BY <2>4 DEF HandleNotify
    <3>2. QED BY <3>1, TravellingAfterReceipt
  <2>5. QED BY <2>1, <2>2, <2>3, <2>4
<1>4. QED
  BY <1>1, <1>2, <1>3 DEF RS!vars, Travelling, Replied

\* handleRequest starts the handler of a request that travelled.
LEMMA HandleRequestStarts ==
  ASSUME IInv, HandleRequest
  PROVE  \E id \in Ids : RS!Start(id)
<1>1. /\ IncomingAtServer("Request") /\ ~serverClosed
      /\ running' = running \union {Head(toServer).id}
      /\ UNCHANGED <<promise, clientClosed, serverClosed, toClient>>
  BY DEF HandleRequest, IncomingAtServer, client
<1>2. Head(toServer).id \in Travelling /\ Travelling' = Travelling \ {Head(toServer).id}
  BY <1>1, TravellingAfterReceipt
<1>3. Replied' = Replied
  BY <1>1, Positions
<1>4. Head(toServer).id \in Ids
  BY <1>2, Positions
<1>5. RS!Start(Head(toServer).id)
  BY <1>1, <1>2, <1>3 DEF RS!Start, Travelling, Replied
<1>6. QED BY <1>4, <1>5

\* The end of a handler finishes its request.
LEMMA HandlerFinishes ==
  ASSUME IInv, NEW id \in Ids, HandlerResolves(id) \/ HandlerFails(id) \/ AnswerIsLost(id)
  PROVE  RS!Finish(id)
<1>1. /\ id \in running /\ running' = running \ {id}
      /\ UNCHANGED <<promise, clientClosed, serverClosed, toServer>>
  BY DEF HandlerResolves, HandlerFails, AnswerIsLost, Finish, client
<1>2. Travelling' = Travelling
  BY <1>1, Positions
<1>3. \/ Replied' = Replied
      \/ ~clientClosed /\ ~serverClosed /\ Replied' = Replied \union {id}
  <2>0. toClient \in Seq(ClientMessage)
    BY DEF IInv, TypeOK
  <2>1. CASE HandlerResolves(id)
    <3>1. Reply(id) \in ClientMessage /\ Reply(id).id = id /\ SendToClient(Reply(id))
      BY <2>1, MessageTypes DEF HandlerResolves, Reply
    <3>2. QED BY <2>0, <3>1, RepliedAfterSend
  <2>2. CASE HandlerFails(id)
    <3>1. ReplyErr(id) \in ClientMessage /\ ReplyErr(id).id = id /\ SendToClient(ReplyErr(id))
      BY <2>2, MessageTypes DEF HandlerFails, ReplyErr
    <3>2. QED BY <2>0, <3>1, RepliedAfterSend
  <2>3. CASE AnswerIsLost(id)
    <3>1. UNCHANGED toClient
      BY <2>3 DEF AnswerIsLost
    <3>2. Replied' = Replied
      BY <3>1, Positions
    <3>3. QED BY <3>2
  <2>4. QED BY <2>1, <2>2, <2>3
<1>4. QED BY <1>1, <1>2, <1>3 DEF RS!Finish, Travelling, Replied

\* A reply settles the promise of its request, which is there.
LEMMA HandleReplySettles ==
  ASSUME IInv, HandleReply
  PROVE  \E id \in Ids : RS!Settle(id)
<1> DEFINE id == Head(toClient).id
           outcome == IF Head(toClient).type = "Reply" THEN "resolved" ELSE "rejected"
<1>1. /\ ~clientClosed /\ toClient # <<>> /\ toClient' = Tail(toClient)
      /\ UNCHANGED <<running, clientClosed, serverClosed, toServer>>
  BY DEF HandleReply, server
<1>2. id \in Replied /\ Replied' = Replied \ {id}
  BY <1>1, RepliedAfterReceipt
<1>3. id \in Ids
  BY <1>2, Positions
<1>4. Travelling' = Travelling
  BY <1>1, Positions
<1>5. id \in pendingRequests /\ promise[id] \in {"waiting", "thrown"}
  <2>1. PICK k \in 1..Len(toClient) : toClient[k].id = id
    BY <1>2, <1>3, Positions
  <2>2. QED BY <2>1 DEF IInv, UnansweredIsPending, Live
<1>6. promise' = [promise EXCEPT ![id] =
                    IF promise[id] # "waiting" THEN promise[id] ELSE outcome]
  BY <1>5 DEF HandleReply
<1>7. outcome \in {"resolved", "rejected"}
  OBVIOUS
<1> HIDE DEF id, outcome
<1>8. promise \in [Ids -> Outcome]
  BY DEF IInv, TypeOK
<1>9. CASE promise[id] = "waiting"
  <2>1. promise' = [promise EXCEPT ![id] = outcome]
    BY <1>6, <1>9
  <2>2. RS!Settle(id)
    BY <1>1, <1>2, <1>4, <1>7, <1>9, <2>1 DEF RS!Settle, Travelling, Replied
  <2>3. QED BY <1>3, <2>2
<1>10. CASE promise[id] = "thrown"
  <2>1. promise' = promise
    BY <1>6, <1>8, <1>10
  <2>2. RS!Settle(id)
    BY <1>1, <1>2, <1>4, <1>10, <2>1 DEF RS!Settle, Travelling, Replied
  <2>3. QED BY <1>3, <2>2
<1>11. QED BY <1>5, <1>9, <1>10

\* The close of the channel at either end.
LEMMA ClosesAreCloses ==
  ASSUME IInv, PromisesArePending
  PROVE  /\ ClientChannelClosed => RS!CloseClient
         /\ ServerChannelClosed => RS!CloseServer
<1>1. ASSUME ClientChannelClosed PROVE RS!CloseClient
  <2>1. /\ ~clientClosed /\ clientClosed' = TRUE
        /\ promise' = [id \in Ids |->
                         IF id \in pendingRequests /\ promise[id] = "waiting" THEN "closed"
                         ELSE promise[id]]
        /\ toClient' = <<>>
        /\ UNCHANGED <<running, serverClosed, toServer>>
    BY <1>1 DEF ClientChannelClosed, server
  <2>2. promise' = [id \in Ids |-> IF promise[id] = "waiting" THEN "closed" ELSE promise[id]]
    BY <2>1 DEF PromisesArePending
  <2>3. Replied' = {} /\ Travelling' = Travelling
    BY <2>1, Positions
  <2>4. QED BY <2>1, <2>2, <2>3 DEF RS!CloseClient, Travelling, Replied
<1>2. ASSUME ServerChannelClosed PROVE RS!CloseServer
  <2>1. /\ ~serverClosed /\ serverClosed' = TRUE /\ toServer' = <<>>
        /\ UNCHANGED <<promise, running, clientClosed, toClient>>
    BY <1>2 DEF ServerChannelClosed, client
  <2>2. Travelling' = {} /\ Replied' = Replied
    BY <2>1, Positions
  <2>3. QED BY <2>1, <2>2 DEF RS!CloseServer, Travelling, Replied
<1>3. QED BY <1>1, <1>2

\* Every step of the protocol is one of the service, or none.
LEMMA ServiceStep ==
  ASSUME IInv, PromisesArePending, [Next]_vars
  PROVE  [RS!Next]_(RS!vars)
<1>1. ASSUME NEW t \in Tokens \union {NoToken}, SendRequest(t) \/ SendRequestThrows(t)
      PROVE  RS!Next
  BY <1>1, SendRequestCalls DEF RS!Next
<1>2. CASE \/ SendNotification
           \/ \E t \in Tokens : CancelToken(t)
           \/ HandleCancel
           \/ HandleNotify
  BY <1>2, SideMessagesStutter
<1>3. CASE HandleRequest
  BY <1>3, HandleRequestStarts DEF RS!Next
<1>4. ASSUME NEW id \in Ids, HandlerResolves(id) \/ HandlerFails(id) \/ AnswerIsLost(id)
      PROVE  RS!Next
  BY <1>4, HandlerFinishes DEF RS!Next
<1>5. CASE HandleReply
  BY <1>5, HandleReplySettles DEF RS!Next
<1>6. CASE ClientChannelClosed \/ ServerChannelClosed
  BY <1>6, ClosesAreCloses DEF RS!Next
<1>7. CASE UNCHANGED vars
  <2>1. UNCHANGED <<promise, running, clientClosed, serverClosed, toServer, toClient>>
    BY <1>7 DEF vars, client, server
  <2>2. Travelling' = Travelling /\ Replied' = Replied
    BY <2>1, Positions
  <2>3. QED BY <2>1, <2>2 DEF RS!vars, Travelling, Replied
<1>8. QED
  BY <1>1, <1>2, <1>3, <1>4, <1>5, <1>6, <1>7 DEF Next, ServerReceives

\* RpcProtocol implements RequestService: a request is handed to its handler at most once,
\* a promise is settled once and by the answer of its request, and the close of the
\* channel leaves no promise waiting that was made before.
THEOREM ServiceImplemented == Spec => ImplementsRequestService
<1>1. Init => IInv /\ PromisesArePending /\ RS!Init
  BY InitIInv, InitPromises, ServiceInit
<1>2. IInv /\ PromisesArePending /\ [Next]_vars => PromisesArePending'
  BY NextPromises DEF IInv
<1>3. IInv /\ PromisesArePending /\ [Next]_vars => [RS!Next]_(RS!vars)
  BY ServiceStep
<1>4. QED
  BY <1>1, <1>2, <1>3, Inductive, PTL DEF Spec, ImplementsRequestService, RS!Spec
=============================================================================
