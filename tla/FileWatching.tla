----------------------------- MODULE FileWatching -----------------------------
(***************************************************************************)
(* File watching in the backend, for one (uri, options) pair:              *)
(*   - DiskFileSystemProvider.watch, whose handles may be disposed before  *)
(*     the watcher id is known (packages/filesystem/src/node/              *)
(*     disk-file-system-provider.ts);                                      *)
(*   - FileSystemWatcherServerClient, one per frontend connection, and     *)
(*     FileSystemWatcherServiceDispatcher, in the backend process;         *)
(*   - ParcelFileSystemWatcherService and its ParcelWatchers, in a process *)
(*     of their own (parcel-watcher/parcel-filesystem-service.ts).         *)
(*                                                                         *)
(* The two processes talk over one RPC channel.  The service allocates the *)
(* ids of the watch requests in the order it receives them, which is the   *)
(* order they were sent in: the request number is the id.                  *)
(*                                                                         *)
(* The native watcher and the disk are external: a path may not exist yet, *)
(* a subscription may fail, and may report changes and errors.             *)
(***************************************************************************)
EXTENDS Naturals, Sequences, FiniteSets

CONSTANTS Clients,     \* the connections with a FileSystemWatcherServerClient
          MaxWatches,  \* bound on the watch requests
          MaxEvents    \* bound on the changes the native watchers report

ASSUME BoundsAssumption == MaxWatches \in Nat /\ MaxEvents \in Nat

Watches == 1..MaxWatches

VARIABLES
  \* the backend process
  owner,        \* sequence: the client of each watch request
  closed,       \* clients that are disposed, and unregistered at the dispatcher
  released,     \* requests whose handle is disposed
  allocated,    \* requests whose handle knows its watcher id
  watcherIds,   \* requests in watcherIds of their client
  \* the watcher process
  watcher,      \* watchers.get(key), 0: none
  watchers,     \* number of ParcelWatchers created
  handles,      \* [request -> the watcher of its entry in watcherHandles, 0: none]
  refs,         \* [watcher -> [client -> number of references]]
  stage,        \* [watcher -> how far start() got]
  disposed,     \* watchers that are disposed
  timers,       \* watchers whose deferred disposal is scheduled
  native,       \* watchers with a native subscription
  \* history, and the channel
  told,         \* [watcher -> clients that were told of its changes or its error]
  events,       \* number of changes reported
  toService, toBackend

backend == <<owner, closed, released, allocated, watcherIds>>
service == <<watcher, watchers, handles, refs, stage, disposed, timers, native>>
vars == <<backend, service, told, events, toService, toBackend>>

Watch(r) == [type |-> "watch", id |-> r]
Unwatch(r) == [type |-> "unwatch", id |-> r]
Allocated(r) == [type |-> "allocated", id |-> r]
Notify(w, cs) == [type |-> "notify", of |-> w, clients |-> cs]

Init ==
  /\ owner = <<>>
  /\ closed = {}
  /\ released = {}
  /\ allocated = {}
  /\ watcherIds = {}
  /\ watcher = 0
  /\ watchers = 0
  /\ handles = [r \in Watches |-> 0]
  /\ refs = [w \in Watches |-> [c \in Clients |-> 0]]
  /\ stage = [w \in Watches |-> "none"]
  /\ disposed = {}
  /\ timers = {}
  /\ native = {}
  /\ told = [w \in Watches |-> {}]
  /\ events = 0
  /\ toService = <<>>
  /\ toBackend = <<>>

-----------------------------------------------------------------------------
(***************************************************************************)
(* The backend process.                                                    *)
(***************************************************************************)

RequestsOf(c) == {r \in 1..Len(owner) : owner[r] = c}

\* DiskFileSystemProvider.watch.
StartWatching(c) ==
  /\ c \notin closed
  /\ Len(owner) < MaxWatches
  /\ owner' = Append(owner, c)
  /\ toService' = Append(toService, Watch(Len(owner) + 1))
  /\ UNCHANGED <<closed, released, allocated, watcherIds, service, told,
                 events, toBackend>>

\* unwatchFileChanges of the client, for the requests rs, the last one first.
UnwatchAll(rs) ==
  /\ watcherIds' = watcherIds \ rs
  /\ \E order \in [1..Cardinality(rs) -> rs] :
       /\ \A i, j \in DOMAIN order : i < j => order[i] > order[j]
       /\ toService' = toService \o [i \in DOMAIN order |-> Unwatch(order[i])]

\* The handle of a watch is disposed, before or after it knows its watcher id.
StopWatching(r) ==
  /\ r \in 1..Len(owner) \ released
  /\ released' = released \union {r}
  /\ UnwatchAll({r} \intersect allocated)
  /\ UNCHANGED <<owner, closed, allocated, service, told, events, toBackend>>

\* The connection is closed: the provider disposes its handles, then its watcher
\* client, which leaves the dispatcher and unwatches the ids it still has.
CloseClient(c) ==
  /\ c \notin closed
  /\ closed' = closed \union {c}
  /\ released' = released \union RequestsOf(c)
  /\ UnwatchAll(RequestsOf(c) \intersect ((allocated \ released) \union watcherIds))
  /\ UNCHANGED <<owner, allocated, service, told, events, toBackend>>

Arrived(t) == toBackend # <<>> /\ Head(toBackend).type = t

\* The reply to a watch request: the id is recorded; a handle that was disposed
\* meanwhile unwatches it at once (which a mutation forgets).
WatchAllocated_Keep ==
  /\ Arrived("allocated")
  /\ toBackend' = Tail(toBackend)
  /\ allocated' = allocated \union {Head(toBackend).id}
  /\ watcherIds' = watcherIds \union {Head(toBackend).id}
  /\ UNCHANGED <<owner, closed, released, service, told, events, toService>>

WatchAllocated ==
  /\ Arrived("allocated")
  /\ toBackend' = Tail(toBackend)
  /\ LET r == Head(toBackend).id IN
     \/ /\ r \in released
        /\ toService' = Append(toService, Unwatch(r))
        /\ UNCHANGED <<allocated, watcherIds>>
     \/ /\ r \notin released
        /\ allocated' = allocated \union {r}
        /\ watcherIds' = watcherIds \union {r}
        /\ UNCHANGED toService
  /\ UNCHANGED <<owner, closed, released, service, told, events>>

\* The dispatcher routes a change or an error: to the registered ones of the clients
\* it is for, and to all registered clients when it is for none.
Dispatch ==
  /\ Arrived("notify")
  /\ toBackend' = Tail(toBackend)
  /\ LET n == Head(toBackend) IN
     told' = [told EXCEPT ![n.of] =
                @ \union ((IF n.clients = {} THEN Clients ELSE n.clients) \ closed)]
  /\ UNCHANGED <<backend, service, events, toService>>

-----------------------------------------------------------------------------
(***************************************************************************)
(* ParcelWatcher.                                                          *)
(***************************************************************************)

ClientIds(w) == {c \in Clients : refs[w][c] > 0}

Notified(w) == toBackend' = Append(toBackend, Notify(w, ClientIds(w)))

\* addRef: the first reference after none cancels the deferred disposal (which a
\* mutation does not); a reference more for a client it has or has not yet.
AddRef_Doomed(w, c) ==
  /\ refs' = [refs EXCEPT ![w][c] = @ + 1]
  /\ UNCHANGED timers

AddRef(w, c) ==
  /\ refs' = [refs EXCEPT ![w][c] = @ + 1]
  /\ timers' = timers \ {w}

\* removeRef: the last reference of all schedules the disposal.  (A mutation drops
\* all references of the client.)
RemoveRef_All(w, c) ==
  /\ refs' = [refs EXCEPT ![w][c] = 0]
  /\ timers' = IF ClientIds(w) = {c} THEN timers \union {w} ELSE timers

RemoveRef(w, c) ==
  /\ refs' = [refs EXCEPT ![w][c] = @ - 1]
  /\ timers' = IF ClientIds(w) = {c} /\ refs[w][c] = 1 THEN timers \union {w} ELSE timers

\* Mutation: nothing hangs on whenDisposed, and the subscription is kept.
Dispose_Only(w) ==
  /\ disposed' = disposed \union {w}
  /\ UNCHANGED <<watcher, handles, native>>

\* _dispose, and what hangs on whenDisposed: the watcher leaves the map, its handles
\* go, and a native subscription that start() has handed over ends.  The timer of a
\* deferred disposal stays set; when it elapses nothing is left to do.
Dispose(w) ==
  \/ /\ w \in disposed
     /\ UNCHANGED <<disposed, watcher, handles, native>>
  \/ /\ w \notin disposed
     /\ disposed' = disposed \union {w}
     /\ watcher' = 0
     /\ handles' = [r \in Watches |-> IF handles[r] = w THEN 0 ELSE handles[r]]
     /\ native' = IF stage[w] = "started" THEN native \ {w} ELSE native

\* start(): as long as the path does not exist it is tried again; each time a
\* disposed watcher gives up.
PathChecked(w) ==
  /\ stage[w] = "waiting"
  /\ \/ /\ w \in disposed
        /\ stage' = [stage EXCEPT ![w] = "over"]
     \/ /\ w \notin disposed
        /\ stage' = [stage EXCEPT ![w] = "subscribing"]
  /\ UNCHANGED <<backend, watcher, watchers, handles, refs, disposed, timers, native,
                 told, events, toService, toBackend>>

\* The native subscription is made.  A watcher that was disposed meanwhile gives up
\* in assertNotDisposed, before it gets to stopping what it subscribed to.
Subscribed(w) ==
  /\ stage[w] = "subscribing"
  /\ native' = native \union {w}
  /\ stage' = [stage EXCEPT ![w] = IF w \in disposed THEN "over" ELSE "started"]
  /\ UNCHANGED <<backend, watcher, watchers, handles, refs, disposed, timers, told, events, toService, toBackend>>

\* The subscription fails: the watcher is disposed and its clients told.
StartFails(w) ==
  /\ stage[w] = "subscribing"
  /\ stage' = [stage EXCEPT ![w] = "over"]
  /\ Dispose(w)
  /\ Notified(w)
  /\ UNCHANGED <<backend, watchers, refs, timers, told, events, toService>>

\* The native watcher reports an error.
WatchError(w) ==
  /\ w \in native
  /\ events < MaxEvents
  /\ events' = events + 1
  /\ Dispose(w)
  /\ Notified(w)
  /\ UNCHANGED <<backend, watchers, refs, stage, timers, told, toService>>

\* The native watcher reports changes: they are sent on if anyone refers to it.
Changed(w) ==
  /\ w \in native
  /\ events < MaxEvents
  /\ events' = events + 1
  /\ IF ClientIds(w) # {} THEN Notified(w) ELSE UNCHANGED toBackend
  /\ UNCHANGED <<backend, service, told, toService>>

DisposalTimeout(w) ==
  /\ w \in timers
  /\ timers' = timers \ {w}
  /\ Dispose(w)
  /\ UNCHANGED <<backend, watchers, refs, stage, told, events, toService,
                 toBackend>>

-----------------------------------------------------------------------------
(***************************************************************************)
(* ParcelFileSystemWatcherService.                                         *)
(***************************************************************************)

Request(t) == toService # <<>> /\ Head(toService).type = t

\* watchFileChanges: the watcher of the key is used again or a new one started.
WatchFileChanges ==
  /\ Request("watch")
  /\ toService' = Tail(toService)
  /\ LET r == Head(toService).id
         w == IF watcher = 0 THEN watchers + 1 ELSE watcher
     IN /\ AddRef(w, owner[r])
        /\ IF watcher = 0
           THEN watchers' = w /\ stage' = [stage EXCEPT ![w] = "waiting"]
           ELSE UNCHANGED <<watchers, stage>>
        /\ watcher' = w
        /\ handles' = [handles EXCEPT ![r] = w]
        /\ toBackend' = Append(toBackend, Allocated(r))
  /\ UNCHANGED <<backend, disposed, native, told, events>>

\* unwatchFileChanges: without an entry (its watcher is disposed) nothing happens.
UnwatchFileChanges ==
  /\ Request("unwatch")
  /\ toService' = Tail(toService)
  /\ LET r == Head(toService).id IN
     \/ /\ handles[r] = 0
        /\ UNCHANGED <<handles, refs, timers>>
     \/ /\ handles[r] # 0
        /\ handles' = [handles EXCEPT ![r] = 0]
        /\ RemoveRef(handles[r], owner[r])
  /\ UNCHANGED <<backend, watcher, watchers, stage, disposed, native, told,
                 events, toBackend>>

-----------------------------------------------------------------------------
BackendReceives == WatchAllocated \/ Dispatch
ServiceReceives == WatchFileChanges \/ UnwatchFileChanges
Subscribing(w) == Subscribed(w) \/ StartFails(w)

Next ==
  \/ \E c \in Clients : StartWatching(c) \/ CloseClient(c)
  \/ \E r \in Watches : StopWatching(r)
  \/ BackendReceives
  \/ ServiceReceives
  \/ \E w \in Watches :
       \/ PathChecked(w) \/ Subscribing(w)
       \/ WatchError(w) \/ Changed(w)
       \/ DisposalTimeout(w)

Spec == Init /\ [][Next]_vars

\* Messages of the RPC channel are delivered, a subscription succeeds or fails, and
\* timeouts elapse: the 500 ms after which a disposed watcher finds that it waits for
\* its path in vain, and the one of the deferred disposal.
FairSpec ==
  /\ Spec
  /\ WF_vars(BackendReceives) /\ WF_vars(ServiceReceives)
  /\ \A w \in Watches :
       /\ WF_vars(Subscribing(w)) /\ WF_vars(DisposalTimeout(w))
       /\ WF_vars(w \in disposed /\ PathChecked(w))

-----------------------------------------------------------------------------
(***************************************************************************)
(* Properties.                                                             *)
(***************************************************************************)

Created == 1..watchers

\* All requests of a (uri, options) pair share one watcher: one that is not disposed is
\* the one in the map ("We internally re-use all the same (uri, options) pairs"), and it
\* is about to be disposed exactly when nobody refers to it: a revived one is not
\* disposed under its new client, and an unused one does not stay.
OneLiveWatcher ==
  /\ Created \ disposed = {watcher} \ {0}
  /\ \A w \in Created \ disposed : w \in timers <=> ClientIds(w) = {}

\* The references of a live watcher are exactly its handles, client by client: none is
\* dropped twice, however unwatching crosses watching, errors and disposals.
ReferencesAreHandles ==
  \A w \in Created \ disposed, c \in Clients :
    refs[w][c] = Cardinality({r \in RequestsOf(c) : handles[r] = w})

\* No client silently loses what it watches: one that still referred to a watcher when
\* that was disposed is told of the error (unless its connection is closed).
LossIsTold ==
  \A w \in Watches, c \in Clients :
    (w \in disposed /\ refs[w][c] > 0) ~> (c \in told[w] \/ c \in closed)

\* A disposed watcher that has finished starting has no native subscription left: "The
\* watcher could be disposed while it was starting, make sure to check for this".
DisposedHasNoSubscription ==
  \A w \in disposed : stage[w] \in {"started", "over"} => w \notin native

\* The handles and references of a connection that is closed are released, also those
\* whose request was still on its way.
ClosedClientIsReleased ==
  \A c \in Clients :
    c \in closed ~> \A w \in Created : w \in disposed \/ refs[w][c] = 0

\* Once everything it was asked for is released, the watcher process ends up without a
\* live watcher.
UnusedIsDisposed == closed = Clients ~> watcher = 0
=============================================================================
