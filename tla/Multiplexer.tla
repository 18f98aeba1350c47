----------------------------- MODULE Multiplexer -----------------------------
(***************************************************************************)
(* Two ChannelMultiplexer instances, one at each end of a main channel     *)
(* (packages/core/src/common/message-rpc/channel.ts).  Each end multiplexes *)
(* any number of channels, named by a path, over the main channel, which   *)
(* delivers the messages of one direction in order.                        *)
(*                                                                         *)
(* The frontend's ServiceConnectionProvider calls open(); the backend's    *)
(* DefaultMessagingService only listens to onDidOpenChannel.  Openers is   *)
(* the set of the ends whose application calls open().                     *)
(*                                                                         *)
(* Channel objects (ForwardingChannel) are numbered per end and path: the  *)
(* k-th made by end s for path p is k.  The session of an object is the    *)
(* open() call it goes back to; sessions are history and no guard reads    *)
(* them.  An object is over when it was closed here or told of a close;    *)
(* that does not keep its owner from writing on it and closing it again.   *)
(***************************************************************************)
EXTENDS Naturals, Sequences

CONSTANTS Paths,        \* the ids channels are opened with
          Openers,      \* the ends whose application calls open()
          MaxSessions,  \* bound on the open() calls of an end for a path
          MaxData,      \* bound on the messages an end writes on a path
          MaxAgain      \* bound on the closes of objects of a path that are over

Ends == {"front", "back"}

ASSUME OpenersAssumption == Openers \subseteq Ends
ASSUME BoundsAssumption == MaxSessions \in Nat /\ MaxData \in Nat /\ MaxAgain \in Nat

Other(s) == IF s = "front" THEN "back" ELSE "front"

VARIABLES
  pendingOpen,    \* [end -> paths with an unresolved open()]
  openChannels,   \* [end -> [path -> the registered object, 0: none]]
  disposed,       \* [end -> toDispose.disposed of the multiplexer]
  over,           \* [end -> [path -> objects closed here or told of a close]]
  held,           \* [end -> [path -> object the last open() gave, 0: none]]
  inbox,          \* [end -> messages of the main channel on their way to it]
  session,        \* [end -> [path -> number of open() calls]]
  objects,        \* [end -> [path -> sessions of the objects made, in order]]
  written,        \* [end -> [path -> number of messages written]]
  closedAgain     \* [end -> [path -> number of closes of objects that were over]]

vars == <<pendingOpen, openChannels, disposed, over, held, inbox, session,
          objects, written, closedAgain>>

(***************************************************************************)
(* Messages: one of MessageTypes and the path; as history the session, and *)
(* whether it is data written on an object that was over.                  *)
(***************************************************************************)
Msg(t, p, ss) == [type |-> t, path |-> p, of |-> ss, late |-> FALSE]

\* Nothing arrives once one end of the main channel is closed to the multiplexer.
Send(s, m) ==
  IF disposed[s] \/ disposed[Other(s)]
  THEN UNCHANGED inbox
  ELSE inbox' = [inbox EXCEPT ![Other(s)] = Append(@, m)]

Receive(s) == inbox' = [inbox EXCEPT ![s] = Tail(@)]

\* Mutation: the answer is never committed.
ReceiveAndSend_Silent(s, m) == Receive(s)

\* Handle the next message and answer it.
ReceiveAndSend(s, m) ==
  inbox' = [inbox EXCEPT ![s] = Tail(@),
                         ![Other(s)] = IF disposed[Other(s)] THEN @ ELSE Append(@, m)]

\* The next message for s is of type t; the listeners of the main channel are
\* removed when the multiplexer is disposed.
Incoming(s, t) == ~disposed[s] /\ inbox[s] # <<>> /\ Head(inbox[s]).type = t

\* createChannel, and the registration that follows each call of it.
Created(s, p) == Len(objects[s][p])

CreateChannel(s, p, ss) ==
  /\ objects' = [objects EXCEPT ![s][p] = Append(@, ss)]
  /\ openChannels' = [openChannels EXCEPT ![s][p] = Created(s, p) + 1]

\* The session of the object registered at s for p.
Current(s, p) == objects[s][p][openChannels[s][p]]

Init ==
  /\ pendingOpen = [s \in Ends |-> {}]
  /\ openChannels = [s \in Ends |-> [p \in Paths |-> 0]]
  /\ disposed = [s \in Ends |-> FALSE]
  /\ over = [s \in Ends |-> [p \in Paths |-> {}]]
  /\ held = [s \in Ends |-> [p \in Paths |-> 0]]
  /\ inbox = [s \in Ends |-> <<>>]
  /\ session = [s \in Ends |-> [p \in Paths |-> 0]]
  /\ objects = [s \in Ends |-> [p \in Paths |-> <<>>]]
  /\ written = [s \in Ends |-> [p \in Paths |-> 0]]
  /\ closedAgain = [s \in Ends |-> [p \in Paths |-> 0]]

(***************************************************************************)
(* open(id): refused when a channel of that name is open or pending.  The  *)
(* code does not ask whether the main channel is closed.                   *)
(***************************************************************************)
\* Mutation: only pending opens are asked about.
OpenRefused_Pending(s, p) == p \in pendingOpen[s]

OpenRefused(s, p) == openChannels[s][p] # 0 \/ p \in pendingOpen[s]

Open(s, p) ==
  /\ ~OpenRefused(s, p)
  /\ session[s][p] < MaxSessions
  /\ session' = [session EXCEPT ![s][p] = @ + 1]
  /\ pendingOpen' = [pendingOpen EXCEPT ![s] = @ \union {p}]
  /\ held' = [held EXCEPT ![s][p] = 0]
  /\ Send(s, Msg("Open", p, <<s, session[s][p] + 1>>))
  /\ UNCHANGED <<openChannels, disposed, over, objects, written, closedAgain>>

\* A promise is settled once: the open() keeps the first object it is given.
Resolve(s, p) == held' = [held EXCEPT ![s][p] = IF @ = 0 THEN Created(s, p) + 1 ELSE @]

(***************************************************************************)
(* handleOpen: ignored when the path is open; otherwise a channel is made, *)
(* an open() of this end that waits for the same path is resolved with it, *)
(* and the open is acknowledged.                                           *)
(***************************************************************************)
HandleOpen(s) ==
  /\ Incoming(s, "Open")
  /\ LET p == Head(inbox[s]).path
         ss == Head(inbox[s]).of
     IN \/ /\ openChannels[s][p] # 0
           /\ Receive(s)
           /\ UNCHANGED <<objects, openChannels, held>>
        \/ /\ openChannels[s][p] = 0
           /\ CreateChannel(s, p, ss)
           /\ IF p \in pendingOpen[s] THEN Resolve(s, p) ELSE UNCHANGED held
           /\ ReceiveAndSend(s, Msg("AckOpen", p, ss))
  /\ UNCHANGED <<pendingOpen, disposed, over, session, written, closedAgain>>

(***************************************************************************)
(* handleAckOpen: the pending open() is resolved with a new channel, which *)
(* takes the place of whatever is registered.                              *)
(***************************************************************************)
HandleAckOpen(s) ==
  /\ Incoming(s, "AckOpen")
  /\ LET p == Head(inbox[s]).path
         ss == Head(inbox[s]).of
     IN \/ /\ p \in pendingOpen[s]
           /\ CreateChannel(s, p, ss)
           /\ pendingOpen' = [pendingOpen EXCEPT ![s] = @ \ {p}]
           /\ Resolve(s, p)
        \/ /\ p \notin pendingOpen[s]
           /\ UNCHANGED <<objects, openChannels, pendingOpen, held>>
  /\ Receive(s)
  /\ UNCHANGED <<disposed, over, session, written, closedAgain>>

\* Mutation: the registration goes and nobody is told.
Told_Nobody(s, p) == over[s][p]

\* onClose is fired on the object registered for p, if any.
Told(s, p) == over[s][p] \union ({openChannels[s][p]} \ {0})

(***************************************************************************)
(* handleClose: the registered object is told and forgotten.               *)
(***************************************************************************)
HandleClose(s) ==
  /\ Incoming(s, "Close")
  /\ LET p == Head(inbox[s]).path
     IN /\ over' = [over EXCEPT ![s][p] = Told(s, p)]
        /\ openChannels' = [openChannels EXCEPT ![s][p] = 0]
  /\ Receive(s)
  /\ UNCHANGED <<pendingOpen, disposed, held, session, objects, written, closedAgain>>

(***************************************************************************)
(* handleData: the registered object fires onMessage; with none the data   *)
(* is dropped.                                                             *)
(***************************************************************************)
HandleData(s) ==
  /\ Incoming(s, "Data")
  /\ Receive(s)
  /\ UNCHANGED <<pendingOpen, openChannels, disposed, over, held, session,
                 objects, written, closedAgain>>

(***************************************************************************)
(* The application at s writes on, or closes, the k-th object it was given *)
(* for p, whatever became of it.  Either is done by path: the data goes to *)
(* whatever the other end has registered for p; close() sends Close and    *)
(* removes whatever is registered here for p, with no onClose at this end. *)
(***************************************************************************)
Write(s, p, k) ==
  /\ k \in 1..Created(s, p)
  /\ written[s][p] < MaxData
  /\ written' = [written EXCEPT ![s][p] = @ + 1]
  /\ Send(s, [Msg("Data", p, objects[s][p][k]) EXCEPT !.late = k \in over[s][p]])
  /\ UNCHANGED <<pendingOpen, openChannels, disposed, over, held, session, objects, closedAgain>>

CloseChannel(s, p, k) ==
  /\ k \in 1..Created(s, p)
  /\ over' = [over EXCEPT ![s][p] = @ \union {k}]
  /\ openChannels' = [openChannels EXCEPT ![s][p] = 0]
  /\ Send(s, Msg("Close", p, objects[s][p][k]))
  /\ \/ k \notin over[s][p] /\ UNCHANGED closedAgain
     \/ /\ k \in over[s][p]
        /\ closedAgain[s][p] < MaxAgain
        /\ closedAgain' = [closedAgain EXCEPT ![s][p] = @ + 1]
  /\ UNCHANGED <<pendingOpen, disposed, held, session, objects, written>>

(***************************************************************************)
(* onUnderlyingChannelClose: once only.  Pending opens are forgotten, each *)
(* open channel is told, and the listeners of the main channel go, so that *)
(* what is still on its way to s is never handled.                         *)
(***************************************************************************)
UnderlyingChannelClose(s) ==
  /\ ~disposed[s]
  /\ disposed' = [disposed EXCEPT ![s] = TRUE]
  /\ pendingOpen' = [pendingOpen EXCEPT ![s] = {}]
  /\ over' = [over EXCEPT ![s] = [p \in Paths |-> Told(s, p)]]
  /\ openChannels' = [openChannels EXCEPT ![s] = [p \in Paths |-> 0]]
  /\ inbox' = [inbox EXCEPT ![s] = <<>>]
  /\ UNCHANGED <<held, session, objects, written, closedAgain>>

Handle(s) == HandleOpen(s) \/ HandleAckOpen(s) \/ HandleClose(s) \/ HandleData(s)

Next ==
  \/ \E s \in Openers, p \in Paths : Open(s, p)
  \/ \E s \in Ends : Handle(s)
  \/ \E s \in Ends, p \in Paths : \E k \in 1..Created(s, p) : Write(s, p, k) \/ CloseChannel(s, p, k)
  \/ \E s \in Ends : UnderlyingChannelClose(s)

Spec == Init /\ [][Next]_vars

\* The main channel hands every message it has received to its listener.
FairSpec == Spec /\ \A s \in Ends : WF_vars(Handle(s))

-----------------------------------------------------------------------------
(***************************************************************************)
(* Correctness.                                                            *)
(***************************************************************************)

\* Objects of path p made at s for the session ss.
ObjectsOf(s, p, ss) == {k \in 1..Created(s, p) : objects[s][p][k] = ss}

\* No channel of the path was closed when it was over already.  What such a close does
\* to the channel that took the path since is outside of what the multiplexer promises.
ClosedOnce(p) == \A s \in Ends : closedAgain[s][p] = 0

\* Data reaches the channel object of the session it was written in, or, when
\* that object is already closed at the receiver, nobody: it is never handed to
\* a channel reopened under the same path, and never arrives before the object
\* exists (handleData finds the channel by its path alone).  This is promised to a
\* writer whose own object is not over when it writes, whoever else writes late.
DataFindsItsSession ==
  \A s \in Ends : Incoming(s, "Data") /\ ~Head(inbox[s]).late /\ ClosedOnce(Head(inbox[s]).path) =>
    LET p == Head(inbox[s]).path
        mine == ObjectsOf(s, p, Head(inbox[s]).of)
    IN /\ mine # {}
       /\ openChannels[s][p] \in mine \union {0}
       /\ openChannels[s][p] = 0 => mine \subseteq over[s][p]

\* A channel object is registered exactly until it is closed: every object that
\* lost its registration has been closed by its owner or has fired onClose, so
\* nobody keeps a channel that silently stopped receiving, unless a channel that was
\* over was closed again.
NoOrphanedChannel ==
  \A s \in Ends, p \in Paths : ClosedOnce(p) =>
    \A k \in 1..Created(s, p) : k \notin over[s][p] <=> k = openChannels[s][p]

\* What open() resolved with is the registered channel until that channel is
\* closed: messages for the path reach the caller of open(), also in the "edge
\* case: both side try to open a channel at the same time".
OpenerHoldsRegisteredChannel ==
  \A s \in Ends, p \in Paths :
    ClosedOnce(p) /\ held[s][p] # 0 /\ held[s][p] \notin over[s][p] => openChannels[s][p] = held[s][p]

\* Nothing on its way about p in either direction.
Quiet(p) == \A s \in Ends : \A i \in 1..Len(inbox[s]) : inbox[s][i].path # p

\* Once every message about a path has been handled the two ends agree on it:
\* no open() is left unresolved, and either both ends have closed the path or
\* both have registered a channel of the same session; unless a channel that was over
\* was closed again.
EndsAgree ==
  \A p \in Paths : (\A s \in Ends : ~disposed[s]) /\ Quiet(p) /\ ClosedOnce(p) =>
    /\ \A s \in Ends : p \notin pendingOpen[s]
    /\ openChannels["front"][p] = 0 <=> openChannels["back"][p] = 0
    /\ openChannels["front"][p] # 0 => Current("front", p) = Current("back", p)

\* An open() settles, unless the main channel is closed at one of its ends.
OpenIsAnswered ==
  \A s \in Openers, p \in Paths :
    p \in pendingOpen[s] ~> p \notin pendingOpen[s] \/ (\E t \in Ends : disposed[t])
=============================================================================
