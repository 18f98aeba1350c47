-------------------------- MODULE FileWatchingProofs --------------------------
(***************************************************************************)
(* Proofs about FileWatching, for any clients and any number of watch      *)
(* requests and of changes: all requests of a (uri, options) pair share    *)
(* one watcher, whose references are its handles.                          *)
(***************************************************************************)
EXTENDS FileWatching, SequenceTheorems, FiniteSetTheorems, TLAPS

-----------------------------------------------------------------------------
(* The inductive invariant *)

Requests == 1..Len(owner)

Calls == [type : {"watch", "unwatch"}, id : Nat]
Notices == [type : {"allocated"}, id : Nat] \cup [type : {"notify"}, of : Nat, clients : SUBSET Clients]

BackendType ==
  /\ owner \in Seq(Clients)
  /\ Len(owner) <= MaxWatches
  /\ released \subseteq Requests
  /\ allocated \subseteq Requests
  /\ watcherIds \subseteq Requests

ServiceType ==
  /\ watchers \in Nat
  /\ watchers <= Len(owner)
  /\ watcher \in 0..watchers
  /\ handles \in [Watches -> Nat]
  /\ refs \in [Watches -> [Clients -> Nat]]
  /\ stage \in [Watches -> {"none", "waiting", "subscribing", "started", "over"}]
  /\ disposed \subseteq Created
  /\ timers \subseteq Created
  /\ native \subseteq Created

\* A watcher that is not created yet has no state.
Uncreated ==
  \A w \in Watches \ Created : stage[w] = "none" /\ \A c \in Clients : refs[w][c] = 0

\* A handle is for a request, and for the watcher in the map.
HandlesOfTheWatcher ==
  \A r \in Watches : handles[r] # 0 => r \in Requests /\ handles[r] = watcher

\* What the backend has sent: the watch requests in order, none with a handle yet,
\* and each after as many others as there are watchers at least.
ToServiceInv ==
  /\ toService \in Seq(Calls)
  /\ \A i \in 1..Len(toService) :
       /\ toService[i].id \in Requests
       /\ toService[i].type = "watch" =>
            /\ watchers < toService[i].id
            /\ handles[toService[i].id] = 0
            /\ \A j \in 1..i - 1 : toService[j].type = "watch" => toService[j].id < toService[i].id

\* What the service has answered.
ToBackendInv ==
  /\ toBackend \in Seq(Notices)
  /\ \A i \in 1..Len(toBackend) : toBackend[i].type = "allocated" => toBackend[i].id \in Requests

WatchersInv ==
  ServiceType /\ Uncreated /\ HandlesOfTheWatcher /\ OneLiveWatcher /\ ReferencesAreHandles

IInv == BackendType /\ WatchersInv /\ ToServiceInv /\ ToBackendInv

-----------------------------------------------------------------------------
(* The channel *)

\* Unwatching sends unwatch requests only, for the ids it is given.
LEMMA UnwatchAllSends ==
  ASSUME BackendType, NEW rs \in SUBSET Requests, UnwatchAll(rs)
  PROVE  \E u \in Seq(Calls) :
           /\ toService' = toService \o u
           /\ \A i \in 1..Len(u) : u[i].type = "unwatch" /\ u[i].id \in Requests
<1>1. IsFiniteSet(Requests)
  <2>1. Len(owner) \in Nat
    BY LenProperties DEF BackendType
  <2> QED
    BY <2>1, FS_Interval DEF Requests
<1>2. Cardinality(rs) \in Nat
  BY <1>1, FS_Subset, FS_CardinalityType
<1>3. PICK order \in [1..Cardinality(rs) -> rs] :
        toService' = toService \o [i \in DOMAIN order |-> Unwatch(order[i])]
  BY DEF UnwatchAll
<1> DEFINE u == [i \in 1..Cardinality(rs) |-> Unwatch(order[i])]
<1>4. ASSUME NEW i \in 1..Cardinality(rs)
      PROVE  /\ order[i] \in Requests /\ Unwatch(order[i]) \in Calls
             /\ Unwatch(order[i]).type = "unwatch" /\ Unwatch(order[i]).id = order[i]
  <2>1. order[i] \in Requests
    OBVIOUS
  <2>2. order[i] \in Nat
    BY <2>1 DEF Requests
  <2> QED
    BY <2>1, <2>2 DEF Unwatch, Calls
<1>5. u \in Seq(Calls) /\ Len(u) = Cardinality(rs)
  BY <1>2, <1>4, IsASeq
<1>6. toService' = toService \o u
  BY <1>3
<1> QED
  BY <1>4, <1>5, <1>6

\* Unwatch requests more do not matter.
LEMMA UnwatchesSent ==
  ASSUME ToServiceInv, NEW u \in Seq(Calls), toService' = toService \o u,
         \A i \in 1..Len(u) : u[i].type = "unwatch" /\ u[i].id \in Requests,
         UNCHANGED <<owner, watchers, handles>>
  PROVE  ToServiceInv'
<1>1. /\ toService' \in Seq(Calls)
      /\ Len(toService') = Len(toService) + Len(u)
      /\ \A i \in 1..Len(toService') :
           toService'[i] = IF i <= Len(toService) THEN toService[i] ELSE u[i - Len(toService)]
  BY ConcatProperties DEF ToServiceInv
<1>2. Len(toService) \in Nat /\ Len(u) \in Nat
  BY LenProperties DEF ToServiceInv
<1>3. Requests' = Requests
  BY DEF Requests
<1>4. ASSUME NEW i \in 1..Len(toService'), i > Len(toService)
      PROVE  toService'[i].type = "unwatch" /\ toService'[i].id \in Requests
  BY <1>1, <1>2, <1>4
<1>5. ASSUME NEW i \in 1..Len(toService'), i <= Len(toService)
      PROVE  /\ toService'[i] = toService[i] /\ i \in 1..Len(toService)
             /\ \A j \in 1..i - 1 : toService'[j] = toService[j]
  BY <1>1, <1>2, <1>5
<1> QED
  BY <1>1, <1>2, <1>3, <1>4, <1>5 DEF ToServiceInv

\* Handles may go at any time.
LEMMA HandlesGo ==
  ASSUME ToServiceInv, UNCHANGED <<owner, watchers, toService>>,
         \A r \in Requests : handles'[r] \in {0, handles[r]}
  PROVE  ToServiceInv'
BY DEF ToServiceInv, Requests

\* The service takes the first request off, and may make a watcher and a handle for it.
LEMMA RequestTaken ==
  ASSUME ToServiceInv, toService # <<>>, toService' = Tail(toService), owner' = owner,
         watchers' \in Nat, watchers \in Nat, Requests \subseteq Nat,
         watchers' = watchers \/ (Head(toService).type = "watch" /\ watchers' <= Head(toService).id),
         \A r \in Requests : \/ handles'[r] \in {0, handles[r]}
                             \/ Head(toService).type = "watch" /\ r = Head(toService).id
  PROVE  ToServiceInv'
<1>1. /\ toService' \in Seq(Calls)
      /\ Len(toService') = Len(toService) - 1
      /\ \A i \in 1..Len(toService') : toService'[i] = toService[i + 1]
      /\ Head(toService) = toService[1]
      /\ Len(toService) \in Nat \ {0}
  BY HeadTailProperties, LenProperties, EmptySeq DEF ToServiceInv
<1>2. Requests' = Requests
  BY DEF Requests
<1>3. ASSUME NEW i \in 1..Len(toService')
      PROVE  /\ i + 1 \in 1..Len(toService) /\ toService'[i] = toService[i + 1]
             /\ 1 \in 1..(i + 1) - 1
             /\ \A j \in 1..i - 1 : toService'[j] = toService[j + 1] /\ j + 1 \in 1..(i + 1) - 1
  BY <1>1
<1>4. ASSUME NEW i \in 1..Len(toService'), toService'[i].type = "watch"
      PROVE  /\ watchers' < toService'[i].id
             /\ handles'[toService'[i].id] = 0
             /\ \A j \in 1..i - 1 : toService'[j].type = "watch" => toService'[j].id < toService'[i].id
  <2>1. /\ watchers < toService[i + 1].id /\ handles[toService[i + 1].id] = 0
        /\ toService[i + 1].id \in Requests
        /\ \A j \in 1..(i + 1) - 1 : toService[j].type = "watch" => toService[j].id < toService[i + 1].id
    BY <1>3, <1>4 DEF ToServiceInv
  <2>2. Head(toService).type = "watch" => Head(toService).id < toService[i + 1].id
    BY <1>1, <1>3, <2>1
  <2>3. toService[1].id \in Requests
    BY <1>1 DEF ToServiceInv
  <2> DEFINE id == toService[i + 1].id
  <2>4. /\ id \in Nat /\ Head(toService).id \in Nat /\ toService'[i].id = id
        /\ id \in Requests /\ watchers < id /\ handles[id] = 0
        /\ Head(toService).type = "watch" => Head(toService).id < id
    BY <1>1, <1>3, <2>1, <2>2, <2>3
  <2>5. ASSUME NEW j \in 1..i - 1, toService'[j].type = "watch"
        PROVE  toService'[j].id < id
    BY <1>3, <2>1, <2>5
  <2> HIDE DEF id
  <2>6. handles'[id] = 0
    BY <2>4
  <2>7. watchers' < id
    BY <2>4
  <2> QED
    BY <2>4, <2>5, <2>6, <2>7
<1> QED
  BY <1>1, <1>2, <1>3, <1>4 DEF ToServiceInv

\* An answer sent, or nothing.
LEMMA NoticeSent ==
  ASSUME ToBackendInv, NEW n \in Notices, n.type = "allocated" => n.id \in Requests,
         toBackend' \in {toBackend, Append(toBackend, n)}, owner' = owner
  PROVE  ToBackendInv'
<1>1. Requests' = Requests
  BY DEF Requests
<1>2. CASE toBackend' = toBackend
  BY <1>1, <1>2 DEF ToBackendInv
<1>3. CASE toBackend' = Append(toBackend, n)
  <2>1. /\ toBackend' \in Seq(Notices) /\ Len(toBackend') = Len(toBackend) + 1
        /\ \A i \in 1..Len(toBackend) : toBackend'[i] = toBackend[i]
        /\ toBackend'[Len(toBackend) + 1] = n
    BY <1>3, AppendProperties DEF ToBackendInv
  <2>2. Len(toBackend) \in Nat
    BY LenProperties DEF ToBackendInv
  <2>3. \A i \in 1..Len(toBackend') : i \in 1..Len(toBackend) \/ i = Len(toBackend) + 1
    BY <2>1, <2>2
  <2> QED
    BY <1>1, <2>1, <2>3 DEF ToBackendInv
<1> QED
  BY <1>2, <1>3

\* An answer taken.
LEMMA NoticeTaken ==
  ASSUME ToBackendInv, toBackend # <<>>, toBackend' = Tail(toBackend), owner' = owner
  PROVE  /\ ToBackendInv'
         /\ Head(toBackend).type = "allocated" => Head(toBackend).id \in Requests
<1>1. /\ toBackend' \in Seq(Notices)
      /\ Len(toBackend') = Len(toBackend) - 1
      /\ \A i \in 1..Len(toBackend') : toBackend'[i] = toBackend[i + 1]
      /\ Head(toBackend) = toBackend[1]
      /\ Len(toBackend) \in Nat \ {0}
  BY HeadTailProperties, LenProperties, EmptySeq DEF ToBackendInv
<1>2. Requests' = Requests
  BY DEF Requests
<1>3. 1 \in 1..Len(toBackend) /\ \A i \in 1..Len(toBackend') : i + 1 \in 1..Len(toBackend)
  BY <1>1
<1> QED
  BY <1>1, <1>2, <1>3 DEF ToBackendInv

-----------------------------------------------------------------------------
(* References and handles *)

Holders(w, c) == {r \in RequestsOf(c) : handles[r] = w}

LEMMA HoldersFinite ==
  ASSUME BackendType, NEW w, NEW c
  PROVE  IsFiniteSet(Holders(w, c))
<1>1. Len(owner) \in Nat
  BY LenProperties DEF BackendType
<1>2. IsFiniteSet(1..Len(owner))
  BY <1>1, FS_Interval
<1>3. Holders(w, c) \in SUBSET (1..Len(owner))
  BY DEF Holders, RequestsOf
<1> QED
  BY <1>2, <1>3, FS_Subset

\* Requests are watches.
LEMMA RequestFacts ==
  ASSUME BackendType, NEW r \in Requests
  PROVE  r \in Watches /\ r \in Nat \ {0} /\ owner[r] \in Clients
<1>1. Len(owner) \in Nat
  BY LenProperties DEF BackendType
<1>2. owner[r] \in Clients
  BY ElementOfSeq DEF BackendType, Requests
<1> QED
  BY <1>1, <1>2, BoundsAssumption DEF BackendType, Requests, Watches

-----------------------------------------------------------------------------
(* Every step keeps the invariant *)

LEMMA InitIInv == Init => IInv
<1> SUFFICES ASSUME Init PROVE IInv
  OBVIOUS
<1>1. /\ owner \in Seq(Clients) /\ Len(owner) = 0
      /\ toService \in Seq(Calls) /\ Len(toService) = 0
      /\ toBackend \in Seq(Notices) /\ Len(toBackend) = 0
  BY DEF Init
<1>2. Created = {}
  BY DEF Init, Created
<1>3. BackendType /\ ToServiceInv /\ ToBackendInv
  BY <1>1, BoundsAssumption DEF Init, BackendType, ToServiceInv, ToBackendInv
<1>4. ServiceType
  <2>1. 0 \in 0..0 /\ 0 \in Nat
    OBVIOUS
  <2>2. handles \in [Watches -> Nat] /\ refs \in [Watches -> [Clients -> Nat]]
        /\ stage \in [Watches -> {"none", "waiting", "subscribing", "started", "over"}]
    BY DEF Init
  <2> QED
    BY <1>1, <2>1, <2>2 DEF Init, ServiceType
<1>5. Uncreated /\ HandlesOfTheWatcher
  BY DEF Init, Uncreated, HandlesOfTheWatcher
<1>6. OneLiveWatcher /\ ReferencesAreHandles
  BY <1>2 DEF Init, OneLiveWatcher, ReferencesAreHandles
<1> QED
  BY <1>3, <1>4, <1>5, <1>6 DEF IInv, WatchersInv

\* A watcher that is disposed leaves no handle behind, and none is live.
LEMMA DisposeKeeps ==
  ASSUME IInv, NEW w \in Created, Dispose(w), UNCHANGED <<owner, watchers, refs, toService>>,
         timers' \in {timers, timers \ {w}},
         stage' = stage \/ (w \in Watches /\ stage' = [stage EXCEPT ![w] = "over"])
  PROVE  WatchersInv' /\ ToServiceInv'
<1> USE DEF IInv, WatchersInv
<1>1. stage' \in [Watches -> {"none", "waiting", "subscribing", "started", "over"}]
      /\ \A v \in Watches \ Created : stage'[v] = stage[v]
  BY DEF ServiceType
<1>2. Created' = Created /\ Requests' = Requests /\ \A c : RequestsOf(c)' = RequestsOf(c)
  BY DEF Created, Requests, RequestsOf
<1>3. Uncreated'
  BY <1>1, <1>2 DEF Uncreated
<1>4. \A v : ClientIds(v)' = ClientIds(v)
  BY DEF ClientIds
<1>5. CASE w \in disposed
  <2>1. UNCHANGED <<disposed, watcher, handles, native>>
    BY <1>5 DEF Dispose
  <2>2. ServiceType'
    BY <1>1, <1>2, <2>1 DEF ServiceType
  <2>3. HandlesOfTheWatcher' /\ OneLiveWatcher' /\ ReferencesAreHandles'
    BY <1>2, <1>4, <1>5, <2>1 DEF HandlesOfTheWatcher, OneLiveWatcher, ReferencesAreHandles
  <2>4. ToServiceInv'
    BY <1>2, <2>1 DEF ToServiceInv
  <2> QED
    BY <1>3, <2>2, <2>3, <2>4
<1>6. CASE w \notin disposed
  <2>1. /\ disposed' = disposed \cup {w} /\ watcher' = 0 /\ native' \in {native, native \ {w}}
        /\ handles' = [r \in Watches |-> IF handles[r] = w THEN 0 ELSE handles[r]]
    BY <1>6 DEF Dispose
  <2>2. w = watcher
    BY <1>6 DEF OneLiveWatcher
  <2>3. \A r \in Watches : handles'[r] = 0
    BY <2>1, <2>2 DEF HandlesOfTheWatcher
  <2>4. ServiceType'
    <3>1. handles' \in [Watches -> Nat]
      BY <2>1 DEF ServiceType
    <3> QED
      BY <1>1, <1>2, <2>1, <3>1 DEF ServiceType
  <2>5. HandlesOfTheWatcher'
    BY <2>3 DEF HandlesOfTheWatcher
  <2>6. Created' \ disposed' = {} /\ watcher' = 0
    BY <1>2, <2>1, <2>2 DEF OneLiveWatcher
  <2>7. OneLiveWatcher' /\ ReferencesAreHandles'
    BY <2>6 DEF OneLiveWatcher, ReferencesAreHandles
  <2>8. ToServiceInv'
    <3>1. \A r \in Requests : handles'[r] \in {0, handles[r]}
      BY <2>3, RequestFacts
    <3> QED
      BY <3>1, HandlesGo
  <2> QED
    BY <1>3, <2>4, <2>5, <2>7, <2>8
<1> QED
  BY <1>5, <1>6

\* What only touches the backend, or tells it something.
LEMMA WatchersUntouched ==
  ASSUME WatchersInv, UNCHANGED <<owner, watcher, watchers, handles, refs, disposed, timers>>,
         native' \subseteq Created,
         stage' \in [Watches -> {"none", "waiting", "subscribing", "started", "over"}],
         \A v \in Watches \ Created : stage'[v] = stage[v]
  PROVE  WatchersInv'
<1>1. Created' = Created /\ Requests' = Requests /\ (\A c : RequestsOf(c)' = RequestsOf(c))
      /\ \A v : ClientIds(v)' = ClientIds(v)
  BY DEF Created, Requests, RequestsOf, ClientIds
<1>2. ServiceType' /\ Uncreated' /\ HandlesOfTheWatcher'
  BY <1>1 DEF WatchersInv, ServiceType, Uncreated, HandlesOfTheWatcher
<1>3. OneLiveWatcher' /\ ReferencesAreHandles'
  BY <1>1 DEF WatchersInv, OneLiveWatcher, ReferencesAreHandles
<1> QED
  BY <1>2, <1>3 DEF WatchersInv

\* A watch request gets a handle for the live watcher, or for a new one.
LEMMA WatchFileChangesIInv ==
  ASSUME IInv, WatchFileChanges
  PROVE  IInv'
<1>0. PICK r, w, c : /\ r = Head(toService).id
                     /\ w = IF watcher = 0 THEN watchers + 1 ELSE watcher
                     /\ c = owner[r]
  OBVIOUS
<1> USE DEF IInv, WatchersInv
<1>1. /\ toService # <<>> /\ Head(toService).type = "watch" /\ toService' = Tail(toService)
      /\ AddRef(w, c) /\ watcher' = w
      /\ handles' = [handles EXCEPT ![r] = w]
      /\ toBackend' = Append(toBackend, Allocated(r))
      /\ \/ watcher = 0 /\ watchers' = w /\ stage' = [stage EXCEPT ![w] = "waiting"]
         \/ watcher # 0 /\ UNCHANGED <<watchers, stage>>
      /\ UNCHANGED <<owner, closed, released, allocated, watcherIds, disposed, native>>
  BY <1>0 DEF WatchFileChanges, Request, backend
<1>2. r \in Requests /\ watchers < r /\ handles[r] = 0
  <2>1. Head(toService) = toService[1] /\ 1 \in 1..Len(toService)
    BY <1>1, LenProperties, EmptySeq, HeadTailProperties DEF ToServiceInv
  <2> QED
    BY <1>0, <1>1, <2>1 DEF ToServiceInv
<1>3. r \in Watches /\ r \in Nat /\ c \in Clients
  BY <1>0, <1>2, RequestFacts
<1>4. /\ w \in Nat \ {0} /\ w <= r /\ w \in Watches /\ w \notin disposed
      /\ watchers' \in Nat /\ watchers' <= r /\ w \in 1..watchers' /\ watchers <= watchers'
      /\ watchers' = watchers \/ (watchers' = watchers + 1 /\ w = watchers + 1 /\ watcher = 0)
  <2>1. watchers \in Nat /\ watcher \in 0..watchers /\ disposed \subseteq 1..watchers
    BY DEF ServiceType, Created
  <2>2. w \in Nat \ {0} /\ w <= r /\ w \in Watches
    BY <1>0, <1>2, <1>3, <2>1, BoundsAssumption DEF Watches
  <2>3. w \notin disposed
    <3>1. CASE watcher = 0
      BY <1>0, <2>1, <3>1
    <3>2. CASE watcher # 0
      BY <1>0, <3>2 DEF OneLiveWatcher
    <3> QED
      BY <3>1, <3>2
  <2>4. \/ watcher = 0 /\ watchers' = w /\ w = watchers + 1
        \/ watcher # 0 /\ watchers' = watchers /\ w = watcher
    BY <1>0, <1>1
  <2>5. CASE watcher = 0 /\ watchers' = w /\ w = watchers + 1
    BY <1>2, <1>3, <2>1, <2>2, <2>3, <2>5
  <2>6. CASE watcher # 0 /\ watchers' = watchers /\ w = watcher
    BY <1>2, <1>3, <2>1, <2>2, <2>3, <2>6
  <2> QED
    BY <2>4, <2>5, <2>6
<1>5. /\ Requests' = Requests
      /\ \A d : RequestsOf(d)' = RequestsOf(d)
  BY <1>1 DEF RequestsOf, Requests
<1>6. BackendType'
  BY <1>1, <1>5 DEF BackendType
<1>7. /\ refs' = [refs EXCEPT ![w][c] = @ + 1] /\ timers' = timers \ {w}
  BY <1>1 DEF AddRef
<1>8. Created \subseteq Created' /\ Created' \subseteq Created \cup {w} /\ w \in Created'
  BY <1>4 DEF Created, ServiceType
<1>9. ServiceType'
  <2>1. refs' \in [Watches -> [Clients -> Nat]] /\ handles' \in [Watches -> Nat]
    BY <1>1, <1>3, <1>4, <1>7 DEF ServiceType
  <2>2. stage' \in [Watches -> {"none", "waiting", "subscribing", "started", "over"}]
    BY <1>1, <1>4 DEF ServiceType
  <2>3. watchers' <= Len(owner')
    <3>1. r <= Len(owner) /\ Len(owner) \in Nat
      BY <1>2, LenProperties DEF Requests, BackendType
    <3> QED
      BY <1>1, <1>3, <1>4, <3>1
  <2>4. watcher' \in 0..watchers'
    BY <1>1, <1>4
  <2>5. disposed' \subseteq Created' /\ timers' \subseteq Created' /\ native' \subseteq Created'
    BY <1>1, <1>7, <1>8 DEF ServiceType
  <2> QED
    BY <1>4, <2>1, <2>2, <2>3, <2>4, <2>5 DEF ServiceType
<1>10. Uncreated'
  <2>1. \A v \in Watches \ Created' : v \in Watches \ Created /\ v # w
    BY <1>8
  <2>2. \A v \in Watches \ Created' : stage'[v] = stage[v] /\ refs'[v] = refs[v]
    BY <1>1, <1>7, <2>1 DEF ServiceType
  <2> QED
    BY <2>1, <2>2 DEF Uncreated
<1>11. /\ \A q \in Watches : handles[q] # 0 => handles[q] = w
       /\ \A q \in Watches : q # r => handles'[q] = handles[q]
       /\ handles'[r] = w
  <2>1. \A q \in Watches : handles[q] # 0 => handles[q] = watcher
    BY DEF HandlesOfTheWatcher
  <2>2. watcher # 0 => w = watcher
    BY <1>0
  <2> QED
    BY <1>1, <1>3, <2>1, <2>2 DEF ServiceType
<1>12. HandlesOfTheWatcher'
  BY <1>1, <1>2, <1>5, <1>11 DEF HandlesOfTheWatcher
<1>13. Created' \ disposed' = {w}
  <2>1. Created \ disposed \subseteq {w}
    BY <1>0 DEF OneLiveWatcher
  <2> QED
    BY <1>1, <1>4, <1>8, <2>1
<1>14. OneLiveWatcher'
  <2>1. c \in ClientIds(w)'
    <3>1. refs'[w][c] = refs[w][c] + 1 /\ refs[w][c] \in Nat
      BY <1>3, <1>4, <1>7 DEF ServiceType
    <3> QED
      BY <1>3, <3>1 DEF ClientIds
  <2>2. w \notin timers'
    BY <1>7
  <2> QED
    BY <1>1, <1>4, <1>13, <2>1, <2>2 DEF OneLiveWatcher
<1>15. ReferencesAreHandles'
  <2>1. SUFFICES ASSUME NEW d \in Clients
                 PROVE  refs'[w][d] = Cardinality(Holders(w, d)')
    BY <1>13 DEF ReferencesAreHandles, Holders
  <2>2. refs[w][d] = Cardinality(Holders(w, d))
    <3>1. CASE watcher = 0
      <4>1. refs[w][d] = 0
        BY <1>0, <1>4, <3>1 DEF Uncreated, Created, ServiceType
      <4>2. \A q \in Requests : handles[q] = 0
        BY <3>1, RequestFacts DEF HandlesOfTheWatcher
      <4>3. Holders(w, d) = {}
        BY <1>4, <4>2 DEF Holders, RequestsOf, Requests
      <4> QED
        BY <4>1, <4>3, FS_EmptySet
    <3>2. CASE watcher # 0
      <4>1. w = watcher /\ w \in Created \ disposed
        BY <1>0, <1>4, <3>2 DEF OneLiveWatcher
      <4> QED
        BY <4>1 DEF ReferencesAreHandles, Holders
    <3> QED
      BY <3>1, <3>2
  <2>3. RequestsOf(d) \subseteq Watches
    BY RequestFacts DEF RequestsOf, Requests
  <2>4. CASE d = c
    <3>1. r \in RequestsOf(d)
      BY <1>0, <1>2, <2>4 DEF RequestsOf, Requests
    <3>2. Holders(w, d)' = Holders(w, d) \cup {r} /\ r \notin Holders(w, d)
      <4>1. \A q \in RequestsOf(d) : handles'[q] = w <=> handles[q] = w \/ q = r
        BY <1>11, <2>3
      <4>2. handles[r] # w
        BY <1>2, <1>4
      <4> QED
        BY <1>5, <3>1, <4>1, <4>2 DEF Holders
    <3>3. refs'[w][d] = refs[w][d] + 1
      BY <1>3, <1>4, <1>7, <2>4 DEF ServiceType
    <3> QED
      BY <2>2, <3>2, <3>3, HoldersFinite, FS_AddElement
  <2>5. CASE d # c
    <3>1. r \notin RequestsOf(d)
      BY <1>0, <2>5 DEF RequestsOf
    <3>2. Holders(w, d)' = Holders(w, d)
      BY <1>5, <1>11, <2>3, <3>1 DEF Holders
    <3>3. refs'[w][d] = refs[w][d]
      BY <1>3, <1>4, <1>7, <2>5 DEF ServiceType
    <3> QED
      BY <2>2, <3>2, <3>3
  <2> QED
    BY <2>4, <2>5
<1>16. ToServiceInv'
  <2>1. Requests \subseteq Nat
    BY DEF Requests
  <2>2. \A q \in Requests : handles'[q] \in {0, handles[q]} \/ q = Head(toService).id
    BY <1>0, <1>11, RequestFacts
  <2>3. watchers' <= Head(toService).id
    BY <1>0, <1>4
  <2> QED
    BY <1>1, <1>4, <2>1, <2>2, <2>3, RequestTaken DEF ServiceType
<1>17. ToBackendInv'
  <2>1. Allocated(r) \in Notices /\ Allocated(r).id = r
    BY <1>3 DEF Allocated, Notices
  <2> QED
    BY <1>1, <1>2, <2>1, NoticeSent
<1> QED
  BY <1>6, <1>9, <1>10, <1>12, <1>14, <1>15, <1>16, <1>17

\* An unwatch request takes the handle and its reference; the last one of all
\* schedules the disposal.
LEMMA UnwatchFileChangesIInv ==
  ASSUME IInv, UnwatchFileChanges
  PROVE  IInv'
<1>0. PICK r, w, c : r = Head(toService).id /\ w = handles[r] /\ c = owner[r]
  OBVIOUS
<1> USE DEF IInv, WatchersInv
<1>1. /\ toService # <<>> /\ Head(toService).type = "unwatch" /\ toService' = Tail(toService)
      /\ UNCHANGED <<owner, closed, released, allocated, watcherIds, watcher, watchers, stage, disposed,
                     native, toBackend>>
      /\ \/ w = 0 /\ UNCHANGED <<handles, refs, timers>>
         \/ w # 0 /\ handles' = [handles EXCEPT ![r] = 0] /\ RemoveRef(w, c)
  BY <1>0 DEF UnwatchFileChanges, Request, backend
<1>2. r \in Requests
  <2>1. Head(toService) = toService[1] /\ 1 \in 1..Len(toService)
    BY <1>1, LenProperties, EmptySeq, HeadTailProperties DEF ToServiceInv
  <2> QED
    BY <1>0, <2>1 DEF ToServiceInv
<1>3. r \in Watches /\ c \in Clients
  BY <1>0, <1>2, RequestFacts
<1>4. /\ Requests' = Requests /\ Created' = Created
      /\ \A d : RequestsOf(d)' = RequestsOf(d)
  BY <1>1 DEF RequestsOf, Requests, Created
<1>5. BackendType' /\ ToBackendInv'
  BY <1>1, <1>4 DEF BackendType, ToBackendInv
<1>6. ToServiceInv'
  <2>1. \A q \in Requests : handles'[q] \in {0, handles[q]}
    BY <1>1, RequestFacts DEF ServiceType
  <2>2. Requests \subseteq Nat /\ watchers \in Nat
    BY DEF Requests, ServiceType
  <2> QED
    BY <1>1, <2>1, <2>2, RequestTaken
<1>7. CASE w = 0
  <2>1. WatchersInv'
    <3>1. native' \subseteq Created
          /\ stage' \in [Watches -> {"none", "waiting", "subscribing", "started", "over"}]
          /\ \A v \in Watches \ Created : stage'[v] = stage[v]
      BY <1>1 DEF ServiceType
    <3> QED
      BY <1>1, <1>7, <3>1, WatchersUntouched
  <2> QED
    BY <1>5, <1>6, <2>1
<1>8. CASE w # 0
  <2>1. /\ handles' = [handles EXCEPT ![r] = 0]
        /\ refs' = [refs EXCEPT ![w][c] = @ - 1]
        /\ timers' = IF ClientIds(w) = {c} /\ refs[w][c] = 1 THEN timers \cup {w} ELSE timers
    BY <1>1, <1>8 DEF RemoveRef
  <2>2. w = watcher /\ w \in Created \ disposed /\ Created \ disposed = {w} /\ w \in Watches
    <3>1. w = watcher
      BY <1>0, <1>3, <1>8 DEF HandlesOfTheWatcher
    <3>2. w \in Created /\ Created \ disposed = {w}
      BY <1>8, <3>1 DEF OneLiveWatcher
    <3>3. w \in Nat /\ 1 <= w /\ w <= Len(owner) /\ Len(owner) \in Nat /\ Len(owner) <= MaxWatches
      BY <3>2, LenProperties DEF Created, ServiceType, BackendType
    <3> QED
      BY <3>1, <3>2, <3>3, BoundsAssumption DEF Watches
  <2>3. \A d \in Clients : refs[w][d] = Cardinality(Holders(w, d)) /\ refs[w][d] \in Nat
    BY <2>2 DEF ReferencesAreHandles, Holders, ServiceType
  <2>4. r \in Holders(w, c)
    BY <1>0, <1>2 DEF Holders, RequestsOf, Requests
  <2>5. refs[w][c] >= 1
    <3>1. Cardinality(Holders(w, c)) # 0
      BY <2>4, HoldersFinite, FS_EmptySet
    <3> QED
      BY <1>3, <2>3, <3>1
  <2>6. /\ refs'[w][c] = refs[w][c] - 1
        /\ \A d \in Clients : d # c => refs'[w][d] = refs[w][d]
        /\ \A v \in Watches : v # w => refs'[v] = refs[v]
    BY <1>3, <2>1, <2>2 DEF ServiceType
  <2>7. ServiceType'
    <3>1. refs[w][c] - 1 \in Nat
      BY <1>3, <2>3, <2>5
    <3>2. refs' \in [Watches -> [Clients -> Nat]] /\ handles' \in [Watches -> Nat]
      BY <1>3, <2>1, <2>2, <3>1 DEF ServiceType
    <3>3. timers' \subseteq Created
      BY <2>1, <2>2 DEF ServiceType
    <3> QED
      BY <1>1, <1>4, <3>2, <3>3 DEF ServiceType
  <2>8. Uncreated' /\ HandlesOfTheWatcher'
    <3>1. Uncreated'
      BY <1>1, <1>4, <2>2, <2>6 DEF Uncreated
    <3>2. \A q \in Watches : handles'[q] \in {0, handles[q]}
      BY <2>1 DEF ServiceType
    <3> QED
      BY <1>1, <1>4, <3>1, <3>2 DEF HandlesOfTheWatcher
  <2>9. OneLiveWatcher'
    <3>1. c \in ClientIds(w) /\ w \notin timers
      <4>1. c \in ClientIds(w)
        BY <1>3, <2>3, <2>5 DEF ClientIds
      <4> QED
        BY <2>2, <4>1 DEF OneLiveWatcher
    <3>2. CASE ClientIds(w) = {c} /\ refs[w][c] = 1
      <4>1. \A d \in Clients : ~(refs'[w][d] > 0)
        BY <2>3, <2>6, <3>2 DEF ClientIds
      <4>2. ClientIds(w)' = {} /\ w \in timers'
        BY <2>1, <3>2, <4>1 DEF ClientIds
      <4> QED
        BY <1>1, <1>4, <2>2, <4>2 DEF OneLiveWatcher
    <3>3. CASE ~(ClientIds(w) = {c} /\ refs[w][c] = 1)
      <4>1. ClientIds(w)' # {}
        <5>1. CASE refs[w][c] # 1
          <6>1. refs'[w][c] > 0
            BY <1>3, <2>3, <2>5, <2>6, <5>1
          <6> QED
            BY <1>3, <6>1 DEF ClientIds
        <5>2. CASE refs[w][c] = 1
          <6>1. PICK d \in ClientIds(w) : d # c
            BY <3>1, <3>3, <5>2
          <6>2. d \in Clients /\ refs'[w][d] > 0
            BY <2>6, <6>1 DEF ClientIds
          <6> QED
            BY <6>2 DEF ClientIds
        <5> QED
          BY <5>1, <5>2
      <4>2. w \notin timers'
        BY <2>1, <3>1, <3>3
      <4> QED
        BY <1>1, <1>4, <2>2, <4>1, <4>2 DEF OneLiveWatcher
    <3> QED
      BY <3>2, <3>3
  <2>10. ReferencesAreHandles'
    <3>0. Created' \ disposed' = {w}
      BY <1>1, <1>4, <2>2
    <3>1. SUFFICES ASSUME NEW d \in Clients
                   PROVE  refs'[w][d] = Cardinality(Holders(w, d)')
      BY <3>0 DEF ReferencesAreHandles, Holders
    <3>2. RequestsOf(d) \subseteq Watches
      BY RequestFacts DEF RequestsOf, Requests
    <3>3. \A q \in RequestsOf(d) : handles'[q] = w <=> handles[q] = w /\ q # r
      BY <1>8, <2>1, <3>2 DEF ServiceType
    <3>4. Holders(w, d)' = Holders(w, d) \ {r}
      BY <1>4, <3>3 DEF Holders
    <3>5. CASE d = c
      BY <2>3, <2>4, <2>6, <3>4, <3>5, HoldersFinite, FS_RemoveElement
    <3>6. CASE d # c
      <4>1. r \notin Holders(w, d)
        BY <1>0, <3>6 DEF Holders, RequestsOf
      <4> QED
        BY <2>3, <2>6, <3>4, <3>6, <4>1
    <3> QED
      BY <3>5, <3>6
  <2> QED
    BY <1>5, <1>6, <2>7, <2>8, <2>9, <2>10
<1> QED
  BY <1>7, <1>8

\* A new request has no handle yet.
LEMMA StartWatchingIInv ==
  ASSUME IInv, NEW c \in Clients, StartWatching(c)
  PROVE  IInv'
<1>0. PICK n : n = Len(owner) + 1
  OBVIOUS
<1> USE DEF IInv, WatchersInv
<1>1. /\ owner' = Append(owner, c) /\ Len(owner) < MaxWatches
      /\ toService' = Append(toService, Watch(n))
      /\ UNCHANGED <<closed, released, allocated, watcherIds, watcher, watchers, handles, refs, stage,
                     disposed, timers, native, toBackend>>
  BY <1>0 DEF StartWatching, service
<1>2. Len(owner) \in Nat /\ n \in Nat /\ n \in Watches /\ n \notin Requests
  BY <1>0, <1>1, LenProperties, BoundsAssumption DEF BackendType, Watches, Requests
<1>3. /\ owner' \in Seq(Clients) /\ Len(owner') = n
      /\ \A q \in Requests : owner'[q] = owner[q]
      /\ Requests' = Requests \cup {n} /\ Created' = Created
  BY <1>0, <1>1, <1>2, AppendProperties DEF BackendType, Requests, Created
<1>4. handles[n] = 0 /\ watchers < n
  BY <1>0, <1>2 DEF HandlesOfTheWatcher, ServiceType
<1>5. BackendType'
  BY <1>0, <1>1, <1>2, <1>3, BoundsAssumption DEF BackendType
<1>6. ServiceType' /\ Uncreated' /\ HandlesOfTheWatcher'
  <2>1. watchers <= n
    BY <1>2, <1>4 DEF ServiceType
  <2> QED
    BY <1>1, <1>3, <2>1 DEF ServiceType, Uncreated, HandlesOfTheWatcher
<1>7. OneLiveWatcher'
  BY <1>1, <1>3 DEF OneLiveWatcher, ClientIds
<1>8. ReferencesAreHandles'
  <2>1. SUFFICES ASSUME NEW w \in Created \ disposed, NEW d \in Clients
                 PROVE  Holders(w, d)' = Holders(w, d)
    BY <1>1, <1>3 DEF ReferencesAreHandles, Holders
  <2>2. w # 0
    BY DEF Created
  <2>3. \A q : q \in RequestsOf(d)' <=> q \in Requests' /\ owner'[q] = d
    BY DEF RequestsOf, Requests
  <2>4. \A q : q \in RequestsOf(d) <=> q \in Requests /\ owner[q] = d
    BY DEF RequestsOf, Requests
  <2> QED
    BY <1>1, <1>3, <1>4, <2>2, <2>3, <2>4 DEF Holders
<1>9. ToBackendInv'
  BY <1>1, <1>3 DEF ToBackendInv
<1>10. ToServiceInv'
  <2>1. Watch(n) \in Calls /\ Watch(n).id = n /\ Watch(n).type = "watch"
    BY <1>2 DEF Watch, Calls
  <2>2. /\ toService' \in Seq(Calls) /\ Len(toService') = Len(toService) + 1
        /\ \A i \in 1..Len(toService) : toService'[i] = toService[i]
        /\ toService'[Len(toService) + 1] = Watch(n)
        /\ Len(toService) \in Nat
    BY <1>1, <2>1, AppendProperties, LenProperties DEF ToServiceInv
  <2>3. ASSUME NEW i \in 1..Len(toService')
        PROVE  /\ i \in 1..Len(toService) \/ i = Len(toService) + 1
               /\ \A j \in 1..i - 1 : j \in 1..Len(toService) /\ toService'[j] = toService[j]
    BY <2>2
  <2>4. \A j \in 1..Len(toService) : toService[j].id < n
    BY <1>0, <1>2 DEF ToServiceInv, Requests
  <2>5. ASSUME NEW i \in 1..Len(toService), i \in 1..Len(toService')
        PROVE  /\ toService'[i].id \in Requests'
               /\ toService'[i].type = "watch" =>
                    /\ watchers' < toService'[i].id
                    /\ handles'[toService'[i].id] = 0
                    /\ \A j \in 1..i - 1 : toService'[j].type = "watch" => toService'[j].id < toService'[i].id
    BY <1>1, <1>3, <2>2, <2>3, <2>5 DEF ToServiceInv
  <2>6. ASSUME NEW i \in 1..Len(toService'), i = Len(toService) + 1
        PROVE  /\ toService'[i].id \in Requests'
               /\ watchers' < toService'[i].id
               /\ handles'[toService'[i].id] = 0
               /\ \A j \in 1..i - 1 : toService'[j].id < toService'[i].id
    <3>1. toService'[i].id = n
      BY <2>1, <2>2, <2>6
    <3> QED
      BY <1>1, <1>3, <1>4, <2>3, <2>4, <3>1
  <2> QED
    BY <2>2, <2>3, <2>5, <2>6 DEF ToServiceInv
<1> QED
  BY <1>5, <1>6, <1>7, <1>8, <1>9, <1>10

\* The steps of the backend process, which leave the watchers alone.
LEMMA BackendIInv ==
  ASSUME IInv,
         \/ \E r \in Watches : StopWatching(r)
         \/ \E c \in Clients : CloseClient(c)
         \/ WatchAllocated \/ Dispatch
  PROVE  IInv'
<1> USE DEF IInv
<1>1. UNCHANGED <<owner, service>>
  BY DEF StopWatching, CloseClient, WatchAllocated, Dispatch, backend
<1>2. Requests' = Requests
  BY <1>1 DEF Requests
<1>3. WatchersInv'
  <2>1. /\ native' \subseteq Created
        /\ stage' \in [Watches -> {"none", "waiting", "subscribing", "started", "over"}]
        /\ \A v \in Watches \ Created : stage'[v] = stage[v]
    BY <1>1 DEF service, WatchersInv, ServiceType
  <2> QED
    BY <1>1, <2>1, WatchersUntouched DEF service
<1>4. ASSUME NEW r \in Watches, StopWatching(r)
      PROVE  IInv'
  <2>1. {r} \cap allocated \in SUBSET Requests /\ r \in Requests
    BY <1>4 DEF StopWatching, BackendType, Requests
  <2>2. ToServiceInv'
    <3>1. UnwatchAll({r} \cap allocated)
      BY <1>4 DEF StopWatching
    <3>2. PICK u \in Seq(Calls) :
            /\ toService' = toService \o u
            /\ \A i \in 1..Len(u) : u[i].type = "unwatch" /\ u[i].id \in Requests
      BY <2>1, <3>1, UnwatchAllSends
    <3> QED
      BY <1>1, <3>2, UnwatchesSent DEF service
  <2>3. BackendType'
    BY <1>1, <1>2, <1>4, <2>1 DEF StopWatching, UnwatchAll, BackendType
  <2>4. ToBackendInv'
    BY <1>2, <1>4 DEF StopWatching, ToBackendInv
  <2> QED
    BY <1>3, <2>2, <2>3, <2>4
<1>5. ASSUME NEW c \in Clients, CloseClient(c)
      PROVE  IInv'
  <2> DEFINE rs == RequestsOf(c) \cap ((allocated \ released) \cup watcherIds)
  <2>1. rs \in SUBSET Requests /\ RequestsOf(c) \subseteq Requests
    BY DEF RequestsOf, Requests
  <2>2. ToServiceInv'
    <3>1. UnwatchAll(rs)
      BY <1>5 DEF CloseClient
    <3> HIDE DEF rs
    <3>2. PICK u \in Seq(Calls) :
            /\ toService' = toService \o u
            /\ \A i \in 1..Len(u) : u[i].type = "unwatch" /\ u[i].id \in Requests
      BY <2>1, <3>1, UnwatchAllSends
    <3> QED
      BY <1>1, <3>2, UnwatchesSent DEF service
  <2>3. BackendType'
    BY <1>1, <1>2, <1>5, <2>1 DEF CloseClient, UnwatchAll, BackendType
  <2>4. ToBackendInv'
    BY <1>2, <1>5 DEF CloseClient, ToBackendInv
  <2> QED
    BY <1>3, <2>2, <2>3, <2>4
<1>6. CASE WatchAllocated
  <2>0. PICK r : r = Head(toBackend).id
    OBVIOUS
  <2>1. /\ toBackend # <<>> /\ toBackend' = Tail(toBackend) /\ Head(toBackend).type = "allocated"
        /\ released' = released
        /\ \/ toService' = Append(toService, Unwatch(r)) /\ UNCHANGED <<allocated, watcherIds>>
           \/ /\ toService' = toService
              /\ allocated' = allocated \cup {r}
              /\ watcherIds' = watcherIds \cup {r}
    BY <1>6, <2>0 DEF WatchAllocated, Arrived
  <2>2. ToBackendInv' /\ r \in Requests
    BY <1>1, <2>0, <2>1, NoticeTaken
  <2>3. BackendType'
    BY <1>1, <1>2, <2>1, <2>2 DEF BackendType
  <2>4. ToServiceInv'
    <3>1. CASE toService' = toService
      BY <1>1, <1>2, <3>1 DEF ToServiceInv, service
    <3>2. CASE toService' = Append(toService, Unwatch(r))
      <4>1. Unwatch(r) \in Calls /\ Unwatch(r).type = "unwatch" /\ Unwatch(r).id = r
        BY <2>2 DEF Unwatch, Calls, Requests
      <4>2. PICK u : u = <<Unwatch(r)>>
        OBVIOUS
      <4>3. u \in Seq(Calls) /\ Len(u) = 1 /\ u[1] = Unwatch(r)
        BY <4>1, <4>2
      <4>4. toService' = toService \o u
        BY <3>2, <4>1, <4>2, AppendIsConcat DEF ToServiceInv
      <4>5. \A i \in 1..Len(u) : u[i].type = "unwatch" /\ u[i].id \in Requests
        BY <2>2, <4>1, <4>3
      <4> QED
        BY <1>1, <4>3, <4>4, <4>5, UnwatchesSent DEF service
    <3> QED
      BY <2>1, <3>1, <3>2
  <2> QED
    BY <1>3, <2>2, <2>3, <2>4
<1>7. CASE Dispatch
  <2>1. toBackend # <<>> /\ toBackend' = Tail(toBackend) /\ UNCHANGED <<backend, toService>>
    BY <1>7 DEF Dispatch, Arrived
  <2>2. ToBackendInv'
    BY <1>1, <2>1, NoticeTaken
  <2>3. BackendType' /\ ToServiceInv'
    BY <1>1, <1>2, <2>1 DEF BackendType, ToServiceInv, backend, service
  <2> QED
    BY <1>3, <2>2, <2>3
<1> QED
  BY <1>4, <1>5, <1>6, <1>7

\* The steps of a watcher.
LEMMA WatcherIInv ==
  ASSUME IInv, NEW w \in Watches,
         \/ PathChecked(w) \/ Subscribing(w)
         \/ WatchError(w) \/ Changed(w)
         \/ DisposalTimeout(w)
  PROVE  IInv'
<1> USE DEF IInv
<1>1. UNCHANGED <<backend, watchers, refs, toService>>
  BY DEF PathChecked, Subscribing, Subscribed, StartFails, WatchError, Changed, DisposalTimeout, service
<1>2. BackendType' /\ Requests' = Requests
  BY <1>1 DEF BackendType, Requests, backend
<1>3. stage[w] # "none" => w \in Created
  BY DEF WatchersInv, Uncreated
<1>4. ToBackendInv'
  <2>1. toBackend' = toBackend \/ Notified(w)
    BY DEF PathChecked, Subscribing, Subscribed, StartFails, WatchError, Changed, DisposalTimeout
  <2>2. Notify(w, ClientIds(w)) \in Notices /\ Notify(w, ClientIds(w)).type = "notify"
    BY DEF Notify, Notices, ClientIds, Watches
  <2> QED
    BY <1>1, <2>1, <2>2, NoticeSent DEF Notified, backend
<1>5. CASE PathChecked(w) \/ Subscribed(w) \/ Changed(w)
  <2>1. UNCHANGED <<owner, watcher, watchers, handles, refs, disposed, timers, toService>>
    BY <1>1, <1>5 DEF PathChecked, Subscribed, Changed, service, backend
  <2>2. native' \subseteq Created
    BY <1>3, <1>5 DEF PathChecked, Subscribed, Changed, service, WatchersInv, ServiceType
  <2>3. stage' = stage \/ (w \in Created /\ \E t \in {"subscribing", "started", "over"} : stage' = [stage EXCEPT ![w] = t])
    BY <1>3, <1>5 DEF PathChecked, Subscribed, Changed, service
  <2>4. /\ stage' \in [Watches -> {"none", "waiting", "subscribing", "started", "over"}]
        /\ \A v \in Watches \ Created : stage'[v] = stage[v]
    BY <2>3 DEF WatchersInv, ServiceType
  <2>5. WatchersInv'
    BY <2>1, <2>2, <2>4, WatchersUntouched
  <2>6. ToServiceInv'
    BY <1>2, <2>1 DEF ToServiceInv
  <2> QED
    BY <1>2, <1>4, <2>5, <2>6
<1>6. CASE StartFails(w) \/ WatchError(w) \/ DisposalTimeout(w)
  <2>1. w \in Created
    BY <1>3, <1>6 DEF StartFails, WatchError, DisposalTimeout, WatchersInv, ServiceType
  <2>2. Dispose(w) /\ timers' \in {timers, timers \ {w}}
    BY <1>6 DEF StartFails, WatchError, DisposalTimeout
  <2>3. stage' = stage \/ stage' = [stage EXCEPT ![w] = "over"]
    BY <1>6 DEF StartFails, WatchError, DisposalTimeout
  <2>4. WatchersInv' /\ ToServiceInv'
    BY <1>1, <2>1, <2>2, <2>3, DisposeKeeps DEF backend
  <2> QED
    BY <1>2, <1>4, <2>4
<1> QED
  BY <1>5, <1>6 DEF Subscribing

LEMMA NextIInv == IInv /\ [Next]_vars => IInv'
<1> SUFFICES ASSUME IInv, [Next]_vars PROVE IInv'
  OBVIOUS
<1>1. CASE Next
  BY <1>1, StartWatchingIInv, WatchFileChangesIInv, UnwatchFileChangesIInv, BackendIInv, WatcherIInv
  DEF Next, BackendReceives, ServiceReceives
<1>2. CASE UNCHANGED vars
  BY <1>2 DEF vars, backend, service, IInv, BackendType, WatchersInv, ServiceType, Uncreated,
     HandlesOfTheWatcher, ToServiceInv, ToBackendInv, OneLiveWatcher, ReferencesAreHandles,
     Requests, Created, RequestsOf, ClientIds
<1> QED
  BY <1>1, <1>2

LEMMA IInvAlways == Spec => []IInv
BY InitIInv, NextIInv, PTL DEF Spec

-----------------------------------------------------------------------------
(* The theorems *)

\* All requests of a (uri, options) pair share one watcher, which is about to be
\* disposed exactly when nobody refers to it.
THEOREM OneLiveWatcherAlways == Spec => []OneLiveWatcher
<1>1. IInv => OneLiveWatcher
  BY DEF IInv, WatchersInv
<1> QED
  BY <1>1, IInvAlways, PTL

\* The references of a live watcher are exactly its handles.
THEOREM ReferencesAreHandlesAlways == Spec => []ReferencesAreHandles
<1>1. IInv => ReferencesAreHandles
  BY DEF IInv, WatchersInv
<1> QED
  BY <1>1, IInvAlways, PTL
=============================================================================
