---------------------------- MODULE RequestService ----------------------------
(***************************************************************************)
(* What an RpcProtocol promises the callers of sendRequest                 *)
(* (packages/core/src/common/message-rpc/rpc-protocol.ts), without its     *)
(* messages and maps: a request is handed to its handler at most once, an  *)
(* answer settles the promise of its own request, and every promise that   *)
(* waits is settled when the channel is closed at the caller's end.        *)
(* RpcProtocol implements this.                                            *)
(***************************************************************************)
EXTENDS Naturals

CONSTANT Ids  \* the requests

VARIABLES promise,       \* [request -> what its caller has got]
          travelling,    \* requests on their way to the handler
          running,       \* requests whose handler has not settled
          answered,      \* requests whose answer is on its way
          clientClosed, serverClosed

vars == <<promise, travelling, running, answered, clientClosed, serverClosed>>

Init ==
  /\ promise = [id \in Ids |-> "none"]
  /\ travelling = {}
  /\ running = {}
  /\ answered = {}
  /\ clientClosed = FALSE
  /\ serverClosed = FALSE

\* A request is made, and is sent unless one end of the channel is closed.  It may throw
\* before or after it is sent.
Call(id) ==
  /\ promise[id] = "none"
  /\ \/ /\ promise' = [promise EXCEPT ![id] = "waiting"]
        /\ travelling' = IF clientClosed \/ serverClosed THEN travelling
                         ELSE travelling \union {id}
     \/ /\ promise' = [promise EXCEPT ![id] = "thrown"]
        /\ \/ UNCHANGED travelling
           \/ ~clientClosed /\ ~serverClosed /\ travelling' = travelling \union {id}
  /\ UNCHANGED <<running, answered, clientClosed, serverClosed>>

\* The handler starts.
Start(id) ==
  /\ id \in travelling /\ ~serverClosed
  /\ travelling' = travelling \ {id}
  /\ running' = running \union {id}
  /\ UNCHANGED <<promise, answered, clientClosed, serverClosed>>

\* The handler settles; its answer is sent or lost.
Finish(id) ==
  /\ id \in running
  /\ running' = running \ {id}
  /\ \/ UNCHANGED answered
     \/ ~clientClosed /\ ~serverClosed /\ answered' = answered \union {id}
  /\ UNCHANGED <<promise, travelling, clientClosed, serverClosed>>

\* The answer settles the promise that waits for it.
Settle(id) ==
  /\ id \in answered /\ ~clientClosed
  /\ answered' = answered \ {id}
  /\ \/ /\ promise[id] = "waiting"
        /\ \E outcome \in {"resolved", "rejected"} : promise' = [promise EXCEPT ![id] = outcome]
     \/ /\ promise[id] = "thrown"
        /\ UNCHANGED promise
  /\ UNCHANGED <<travelling, running, clientClosed, serverClosed>>

\* The channel is closed at the caller's end: no promise is left waiting.
CloseClient ==
  /\ ~clientClosed
  /\ clientClosed' = TRUE
  /\ promise' = [id \in Ids |-> IF promise[id] = "waiting" THEN "closed" ELSE promise[id]]
  /\ answered' = {}
  /\ UNCHANGED <<travelling, running, serverClosed>>

\* The channel is closed at the handler's end: what travels is lost.
CloseServer ==
  /\ ~serverClosed
  /\ serverClosed' = TRUE
  /\ travelling' = {}
  /\ UNCHANGED <<promise, running, answered, clientClosed>>

Next ==
  \/ \E id \in Ids : Call(id) \/ Start(id) \/ Finish(id) \/ Settle(id)
  \/ CloseClient
  \/ CloseServer

Spec == Init /\ [][Next]_vars
=============================================================================
