--------------------------- MODULE RemoteFileSystem ---------------------------
(***************************************************************************)
(* The remote file system (packages/filesystem/src/common/                 *)
(* remote-file-system-provider.ts): RemoteFileSystemProvider in the        *)
(* frontend and one FileSystemProviderServer per life of the service's     *)
(* channel in the backend, for what has state: watches and streamed reads. *)
(*                                                                         *)
(* The proxy between them (core/src/common/messaging/proxy-factory.ts)     *)
(* sends a call when its channel is open and keeps it until then           *)
(* otherwise; a channel that closes loses what is on its way and rejects   *)
(* the calls that were sent on it.  That the service is opened again is    *)
(* ServiceConnection's subject, that a channel delivers in order RpcProto- *)
(* col's.  The provider behind the server is external: its streams hand    *)
(* out their file piece by piece and may fail at any time.                 *)
(*                                                                         *)
(* Each read is of a file of its own, so its number also names its content.*)
(***************************************************************************)
EXTENDS Naturals, Sequences, SequencesExt, FiniteSetsExt

CONSTANTS MaxWatches,  \* bound on the watches made
          MaxReads,    \* bound on the streamed reads
          MaxLives,    \* bound on how often the service's channel is opened
          Pieces       \* pieces a file is streamed in

Watches == 1..MaxWatches
Reads == 1..MaxReads

VARIABLES
  \* the proxy and its channel
  life,               \* how often the channel was opened
  connected,          \* it is open
  waiting,            \* calls waiting for rpcDeferred
  toServer, toClient,
  \* the frontend
  watcherSequence,    \* ids handed out
  watchOptions,       \* ids in watchOptions
  reads,              \* sequence of the reads, with what their streams got
  \* the server of this life
  watchers,           \* ids in watchers
  serving             \* sequence: handle h is serving[h + 1]

client == <<watcherSequence, watchOptions, reads>>
server == <<watchers, serving>>
vars == <<life, connected, waiting, toServer, toClient, client, server>>

Watch(id) == [call |-> "watch", of |-> id]
Unwatch(id) == [call |-> "unwatch", of |-> id]
ReadFileStream(r) == [call |-> "readFileStream", of |-> r]
Handle(r, h) == [type |-> "handle", of |-> r, handle |-> h]
Data(h, r) == [type |-> "data", of |-> r, handle |-> h]
End(h, how) == [type |-> "end", how |-> how, handle |-> h]

Init ==
  /\ life = 0
  /\ connected = FALSE
  /\ waiting = <<>>
  /\ toServer = <<>>
  /\ toClient = <<>>
  /\ watcherSequence = 0
  /\ watchOptions = {}
  /\ reads = <<>>
  /\ watchers = {}
  /\ serving = <<>>

\* A call on the proxy: sent, or kept for the next connection.
Call(c) ==
  IF connected
    THEN toServer' = Append(toServer, c) /\ UNCHANGED waiting
    ELSE waiting' = Append(waiting, c) /\ UNCHANGED toServer

-----------------------------------------------------------------------------
(* The frontend *)

WatchPath ==
  /\ watcherSequence < MaxWatches
  /\ watcherSequence' = watcherSequence + 1
  /\ watchOptions' = watchOptions \cup {watcherSequence + 1}
  /\ Call(Watch(watcherSequence + 1))
  /\ UNCHANGED <<life, connected, toClient, reads, server>>

DisposeWatch(id) ==
  /\ id \in watchOptions
  /\ watchOptions' = watchOptions \ {id}
  /\ Call(Unwatch(id))
  /\ UNCHANGED <<life, connected, toClient, watcherSequence, reads, server>>

StartRead ==
  /\ Len(reads) < MaxReads
  /\ reads' = Append(reads, [state |-> "asked", life |-> 0, handle |-> 0, got |-> <<>>])
  /\ Call(ReadFileStream(Len(reads) + 1))
  /\ UNCHANGED <<life, connected, toClient, watcherSequence, watchOptions, server>>

\* The token of a read is cancelled: its stream is ended, now or when its
\* handle arrives.
CancelRead(r) ==
  /\ r \in DOMAIN reads
  /\ reads[r].state \in {"asked", "reading"}
  /\ reads' = [reads EXCEPT ![r].state = "cancelled"]
  /\ UNCHANGED <<life, connected, waiting, toServer, toClient, watcherSequence, watchOptions, server>>

\* The reads whose stream listens to handle h.
Listening(h) == {r \in DOMAIN reads : reads[r].state = "reading" /\ reads[r].handle = h}

\* What a stream makes of a message.
Received(r, m) ==
  CASE m.type = "handle" /\ m.of = r /\ reads[r].state = "asked" ->
         [reads[r] EXCEPT !.state = "reading", !.life = life, !.handle = m.handle]
    [] m.type = "data" /\ r \in Listening(m.handle) -> [reads[r] EXCEPT !.got = Append(@, m.of)]
    [] m.type = "end" /\ r \in Listening(m.handle) -> [reads[r] EXCEPT !.state = m.how]
    [] OTHER -> reads[r]

ClientHandle ==
  /\ toClient # <<>>
  /\ reads' = [r \in DOMAIN reads |-> Received(r, Head(toClient))]
  /\ toClient' = Tail(toClient)
  /\ UNCHANGED <<life, connected, waiting, toServer, watcherSequence, watchOptions, server>>

-----------------------------------------------------------------------------
(* The channel *)

\* reconnect: every watch that is still wanted, in the order of its id.
WatchAgain ==
  {[n \in DOMAIN order |-> Watch(order[n])] :
     order \in {o \in Surjection(1..Cardinality(watchOptions), watchOptions) :
                 \A m, n \in DOMAIN o : m < n => o[m] < o[n]}}

\* Mutation: the listener for later connections is not installed.
Open_WithoutReconnect ==
  /\ ~connected
  /\ life < MaxLives
  /\ life' = life + 1
  /\ connected' = TRUE
  /\ toServer' = waiting
  /\ waiting' = <<>>
  /\ UNCHANGED <<toClient, client, server>>

\* A new channel, and a new server at its other end.  The calls that wait are
\* sent first; the listener that makes the watches again is only installed by
\* the first connection.
Open ==
  /\ ~connected
  /\ life < MaxLives
  /\ life' = life + 1
  /\ connected' = TRUE
  /\ IF life = 0
       THEN toServer' = waiting
       ELSE \E again \in WatchAgain : toServer' = waiting \o again
  /\ waiting' = <<>>
  /\ UNCHANGED <<toClient, client, server>>

\* The channel closes: the server is disposed, which unwatches all, the calls
\* that were sent are rejected, and nothing else happens to a stream.
Close ==
  /\ connected
  /\ connected' = FALSE
  /\ toServer' = <<>>
  /\ toClient' = <<>>
  /\ reads' = [r \in DOMAIN reads |->
                 IF reads[r].state = "asked" THEN [reads[r] EXCEPT !.state = "failed"] ELSE reads[r]]
  /\ watchers' = {}
  /\ serving' = <<>>
  /\ UNCHANGED <<life, waiting, watcherSequence, watchOptions>>

-----------------------------------------------------------------------------
(* The server *)

\* readFileStream; readFileStreamSeq is the length of serving.
\* Mutation: the sequence number is never counted up.
ServeRead_SameHandle(r) ==
  /\ serving' = Append(serving, [of |-> r, sent |-> 0, over |-> FALSE])
  /\ toClient' = Append(toClient, Handle(r, 0))
  /\ UNCHANGED watchers

ServeRead(r) ==
  /\ serving' = Append(serving, [of |-> r, sent |-> 0, over |-> FALSE])
  /\ toClient' = Append(toClient, Handle(r, Len(serving)))
  /\ UNCHANGED watchers

\* A watch whose id is allocated is refused, an unknown id is not unwatched.
ServerHandle ==
  /\ toServer # <<>>
  /\ LET c == Head(toServer) IN
     \/ /\ c.call = "watch"
        /\ watchers' = watchers \cup {c.of}
        /\ UNCHANGED <<serving, toClient>>
     \/ /\ c.call = "unwatch"
        /\ watchers' = watchers \ {c.of}
        /\ UNCHANGED <<serving, toClient>>
     \/ /\ c.call = "readFileStream"
        /\ ServeRead(c.of)
  /\ toServer' = Tail(toServer)
  /\ UNCHANGED <<life, connected, waiting, client>>

ServerSendData(s) ==
  /\ s \in DOMAIN serving
  /\ ~serving[s].over
  /\ serving[s].sent < Pieces
  /\ serving' = [serving EXCEPT ![s].sent = @ + 1]
  /\ toClient' = Append(toClient, Data(s - 1, serving[s].of))
  /\ UNCHANGED <<life, connected, waiting, toServer, client, watchers>>

\* The stream of the provider ends, or fails before.
\* Mutation: the end is not told when the stream fails.
ServerSendEnd_Silent(s) ==
  /\ s \in DOMAIN serving
  /\ ~serving[s].over
  /\ serving' = [serving EXCEPT ![s].over = TRUE]
  /\ toClient' = IF serving[s].sent = Pieces THEN Append(toClient, End(s - 1, "ended")) ELSE toClient
  /\ UNCHANGED <<life, connected, waiting, toServer, client, watchers>>

ServerSendEnd(s) ==
  /\ s \in DOMAIN serving
  /\ ~serving[s].over
  /\ serving' = [serving EXCEPT ![s].over = TRUE]
  /\ toClient' = Append(toClient, End(s - 1, IF serving[s].sent = Pieces THEN "ended" ELSE "failed"))
  /\ UNCHANGED <<life, connected, waiting, toServer, client, watchers>>

ServerStream == \E s \in Reads : ServerSendData(s) \/ ServerSendEnd(s)

-----------------------------------------------------------------------------
Next ==
  \/ WatchPath
  \/ \E id \in Watches : DisposeWatch(id)
  \/ StartRead
  \/ \E r \in Reads : CancelRead(r)
  \/ ClientHandle
  \/ Open
  \/ Close
  \/ ServerHandle
  \/ ServerStream

Spec == Init /\ [][Next]_vars

\* Messages arrive, and the provider goes on with its streams until they are
\* over; nobody has to watch, to read or to lose the connection.
Fairness ==
  /\ WF_vars(ServerHandle)
  /\ WF_vars(ClientHandle)
  /\ WF_vars(ServerStream)

FairSpec == Spec /\ Fairness

-----------------------------------------------------------------------------
(* Properties *)

\* The watches of the server are those the frontend wants, whenever no call is
\* under way: whatever was watched, unwatched or both while there was no
\* connection, and although watches are made twice by a reconnect.
WatchesAgree == (connected /\ toServer = <<>>) => watchers = watchOptions

\* Within one life of the channel a stream gets its own file, from the start
\* and in order, and one that ends without an error got all of it.
StreamIsTheFile ==
  \A r \in DOMAIN reads :
    (reads[r].life = life /\ reads[r].state \in {"reading", "ended"}) =>
      /\ reads[r].got = [n \in 1..Len(reads[r].got) |-> r]
      /\ (reads[r].state = "ended" => Len(reads[r].got) = Pieces)

\* A stream never gets a piece of another file.
OnlyItsFile == \A r \in DOMAIN reads : Range(reads[r].got) \subseteq {r}

\* A read whose call or stream belongs to the connection there is ends, unless
\* that connection is lost: with all of its file, with an error or cancelled.
Unfinished(r) ==
  /\ r \in DOMAIN reads
  /\ reads[r].state \in {"asked", "reading"}
  /\ connected
  /\ reads[r].life \in {0, life}

ReadsEnd == \A r \in Reads : Unfinished(r) ~> ~Unfinished(r)
=============================================================================
