-------------------------- MODULE ConnectionProofs --------------------------
(***************************************************************************)
(* Proofs about the main connection: for every number of sockets, every    *)
(* configuration, number of writes and capacity of the buffers, and        *)
(* wherever the backend notices a disconnect late.                         *)
(***************************************************************************)
EXTENDS MainChannel, FiniteSetTheorems, TLAPS

-----------------------------------------------------------------------------
(* The invariant of the connection *)

\* What is on its way, in either direction.
Requests == [type : {"INITIAL_CONNECT", "RECONNECT", "markForClose"}]
Answers == [type : {"INITIAL_CONNECT", "RECONNECT"}, context : Nat]

\* The state has the right types, and each handshake makes one context at most.
StateType ==
  /\ socket \in 0..MaxSockets
  /\ listening \subseteq 1..socket
  /\ gone \subseteq 1..socket
  /\ watched \in [Sockets -> Nat]
  /\ attached \in [Sockets -> Nat]
  /\ created \in Nat
  /\ created <= Cardinality(1..socket \ listening)
  /\ connection \in 0..created
  /\ up \in [Sockets -> Seq(Requests)]
  /\ down \in [Sockets -> Seq(Answers)]
  /\ connected \in BOOLEAN /\ (connected => socket # 0)
  /\ channelOpen \in BOOLEAN
  /\ currentChannel \in Nat
  /\ emitted \in Nat
  /\ initialListeners \in Nat /\ reconnectListeners \in Nat

\* A socket is given to a context by its handshake, once: to the one that is attached
\* to it, that listens to it and that its answer tells of.
Links ==
  /\ \A k \in Sockets : k \in listening \/ k > socket => watched[k] = 0 /\ down[k] = <<>>
  /\ \A c, k \in Sockets : attached[c] = k => watched[k] = c
  /\ \A k \in Sockets : \A c \in Nat : <<k, c>> \in dataListeners => watched[k] = c /\ c # 0
  /\ \A k \in Sockets :
       /\ Len(down[k]) <= 1
       /\ down[k] # <<>> => down[k][1].context = watched[k]

\* The front end waits for the answer to an initial connect exactly when it has no channel
\* that is open, and only then are initial connects on their way, but for those that came
\* too late.
Waiting ==
  /\ initialListeners > 0 => ~channelOpen
  /\ channelOpen => currentChannel # 0
  /\ currentChannel # 0 /\ initialListeners = 0 => channelOpen
  /\ emitted > 0 => initialListeners > 0 /\ ~connected
  /\ \A k \in listening : \A i \in 1..Len(up[k]) :
       up[k][i].type = "INITIAL_CONNECT" =>
         initialListeners > 0 \/ \E j \in k + 1..socket : j \notin listening
  /\ \A k \in Sockets : \A i \in 1..Len(up[k]) :
       up[k][i].type = "RECONNECT" => currentChannel # 0
  /\ \A k \in Sockets : down[k] # <<>> =>
       IF down[k][1].type = "INITIAL_CONNECT" THEN down[k][1].context # 0
       ELSE currentChannel # 0
  /\ socket \in Sockets /\ down[socket] # <<>> /\ down[socket][1].type = "INITIAL_CONNECT" =>
       initialListeners > 0

\* Where no handshake was overtaken, the front end that does not wait has the channel of
\* the registered context, and of the one that the socket in use was given to.
Agreement ==
  ~overtaken =>
    /\ initialListeners = 0 /\ connection # 0 => currentChannel = connection
    /\ socket \in Sockets /\ watched[socket] # 0 =>
         /\ connection \in {0, watched[socket]}
         /\ channelOpen => currentChannel = watched[socket]

IInv == StateType /\ Links /\ Waiting /\ Agreement

-----------------------------------------------------------------------------
(* Facts about the transports *)

LEMMA HeadFacts ==
  ASSUME NEW S, NEW s \in Seq(S), s # <<>>
  PROVE  /\ Head(s) = s[1] /\ s[1] \in S /\ 1 \in 1..Len(s)
         /\ Tail(s) \in Seq(S)
         /\ Len(Tail(s)) = Len(s) - 1
         /\ \A i \in 1..Len(Tail(s)) : i + 1 \in 1..Len(s) /\ Tail(s)[i] = s[i + 1]
OBVIOUS

\* Sockets that listen have connected.
LEMMA ListeningSocket ==
  ASSUME StateType, NEW k \in listening
  PROVE  k \in 1..socket /\ socket \in Nat /\ k \in Sockets /\ socket \in Sockets
BY MaxSocketsAssumption DEF StateType, Sockets

\* There is a number left for the context that a handshake makes.
LEMMA ContextNumber ==
  ASSUME StateType, NEW k \in listening
  PROVE  /\ created + 1 \in Sockets
         /\ created + 1 <= Cardinality(1..socket \ (listening \ {k}))
         /\ created <= Cardinality(1..socket \ (listening \ {k}))
<1> DEFINE S == 1..socket \ listening
<1>1. /\ socket \in Nat /\ k \in 1..socket /\ IsFiniteSet(1..socket) /\ Cardinality(1..socket) = socket
  BY FS_Interval, MaxSocketsAssumption DEF StateType
<1>2. IsFiniteSet(S) /\ Cardinality(S) \in Nat
  BY <1>1, FS_Subset, FS_CardinalityType
<1>3. 1..socket \ (listening \ {k}) = S \cup {k} /\ k \notin S
  BY <1>1
<1>4. Cardinality(S \cup {k}) = Cardinality(S) + 1
  BY <1>2, <1>3, FS_AddElement
<1>5. Cardinality(S \cup {k}) <= socket
  <2>1. S \cup {k} \subseteq 1..socket
    BY <1>1
  <2> QED
    BY <1>1, <2>1, FS_Subset
<1>6. created <= Cardinality(S) /\ created \in Nat /\ socket <= MaxSockets
  BY MaxSocketsAssumption DEF StateType
<1>7. created + 1 \in 1..MaxSockets
  <2> HIDE DEF S
  <2> QED
    BY <1>1, <1>2, <1>4, <1>5, <1>6, MaxSocketsAssumption
<1>8. Cardinality(1..socket \ (listening \ {k})) = Cardinality(S) + 1
  BY <1>3, <1>4
<1> HIDE DEF S
<1> QED
  BY <1>2, <1>6, <1>7, <1>8 DEF Sockets

\* A message is taken off a transport to the backend.
LEMMA RequestTaken ==
  ASSUME StateType, NEW k \in Sockets, NEW t, Arrives(k, t)
  PROVE  /\ k \notin gone /\ up[k] # <<>> /\ 1 \in 1..Len(up[k]) /\ up[k][1].type = t
         /\ up' \in [Sockets -> Seq(Requests)]
         /\ \A l \in Sockets : l # k => up'[l] = up[l]
         /\ \A l \in Sockets : \A i \in 1..Len(up'[l]) :
              \E j \in 1..Len(up[l]) : up'[l][i] = up[l][j]
<1>1. /\ k \notin gone /\ up[k] # <<>> /\ Head(up[k]).type = t
      /\ up' = [up EXCEPT ![k] = Tail(@)] /\ up \in [Sockets -> Seq(Requests)]
  BY DEF Arrives, StateType
<1>2. up[k] \in Seq(Requests)
  BY <1>1
<1>3. /\ Head(up[k]) = up[k][1] /\ 1 \in 1..Len(up[k])
      /\ Tail(up[k]) \in Seq(Requests)
      /\ \A i \in 1..Len(Tail(up[k])) : i + 1 \in 1..Len(up[k]) /\ Tail(up[k])[i] = up[k][i + 1]
  BY <1>1, <1>2, HeadFacts
<1>4. up' \in [Sockets -> Seq(Requests)] /\ up'[k] = Tail(up[k]) /\ \A l \in Sockets : l # k => up'[l] = up[l]
  BY <1>1, <1>3
<1> QED
  BY <1>1, <1>3, <1>4

\* An answer is sent on a socket that has none yet.
LEMMA AnswerSent ==
  ASSUME StateType, Links, NEW k \in Sockets, k \in listening, NEW m \in Answers,
         ToFrontend(k, m)
  PROVE  /\ down' \in [Sockets -> Seq(Answers)]
         /\ \A l \in Sockets : l # k => down'[l] = down[l]
         /\ Len(down'[k]) <= 1
         /\ down'[k] # <<>> => down'[k][1] = m /\ k = socket
<1>1. down[k] = <<>> /\ down \in [Sockets -> Seq(Answers)]
  BY DEF StateType, Links
<1>2. CASE UsedByFrontend(k)
  <2>1. down' = [down EXCEPT ![k] = <<m>>]
    BY <1>1, <1>2 DEF ToFrontend
  <2>2. <<m>> \in Seq(Answers)
    OBVIOUS
  <2> QED
    BY <1>1, <1>2, <2>1, <2>2 DEF UsedByFrontend
<1>3. CASE ~UsedByFrontend(k)
  BY <1>1, <1>3 DEF ToFrontend
<1> QED
  BY <1>2, <1>3

\* An answer is taken off, or all are lost with the transport.
LEMMA AnswersLost ==
  ASSUME StateType, Links, UNCHANGED <<socket, connection, watched, attached, dataListeners, listening>>,
         \/ down' = [down EXCEPT ![socket] = Tail(@)] /\ down[socket] # <<>>
         \/ down' = [down EXCEPT ![socket] = <<>>]
  PROVE  /\ down' \in [Sockets -> Seq(Answers)]
         /\ socket \in Sockets => down'[socket] = <<>>
         /\ \A l \in Sockets : l # socket => down'[l] = down[l]
         /\ Links'
<1>1. /\ down' \in [Sockets -> Seq(Answers)]
      /\ \A l \in Sockets : l # socket => down'[l] = down[l]
      /\ socket \in Sockets => down'[socket] = <<>>
  <2>1. CASE socket \notin Sockets
    BY <2>1 DEF StateType
  <2>2. CASE socket \in Sockets
    <3>1. down[socket] \in Seq(Answers) /\ Len(down[socket]) <= 1 /\ <<>> \in Seq(Answers)
      BY <2>2 DEF StateType, Links
    <3>2. down[socket] # <<>> => Tail(down[socket]) = <<>>
      BY <3>1
    <3> QED
      BY <2>2, <3>1, <3>2 DEF StateType
  <2> QED
    BY <2>1, <2>2
<1>2. \A l \in Sockets : down'[l] \in {down[l], <<>>}
  BY <1>1
<1> QED
  BY <1>1, <1>2 DEF Links

-----------------------------------------------------------------------------
(* Every step keeps the invariant *)

LEMMA InitIInv == Init => IInv
<1> SUFFICES ASSUME Init PROVE IInv
  OBVIOUS
<1>1. 1..0 = {} /\ Cardinality({}) = 0 /\ <<>> \in Seq(Requests) /\ <<>> \in Seq(Answers) /\ Len(<<>>) = 0
  BY FS_EmptySet
<1>2. StateType
  <2>1. up \in [Sockets -> Seq(Requests)] /\ down \in [Sockets -> Seq(Answers)]
        /\ watched \in [Sockets -> Nat] /\ attached \in [Sockets -> Nat]
    BY <1>1 DEF Init
  <2>2. 1..socket \ listening = {} /\ 0 \in 0..MaxSockets /\ 0 \in 0..0
    BY <1>1, MaxSocketsAssumption DEF Init
  <2>3. created <= Cardinality(1..socket \ listening)
    BY <1>1, <2>2 DEF Init
  <2>4. socket \in 0..MaxSockets /\ connection \in 0..created
    BY <2>2 DEF Init
  <2> QED
    BY <2>1, <2>3, <2>4 DEF Init, StateType
<1>3. Links /\ Waiting /\ Agreement
  BY <1>1 DEF Init, Links, Waiting, Agreement, Sockets
<1> QED
  BY <1>2, <1>3 DEF IInv

\* The new socket has no context yet.
LEMMA ConnectIInv ==
  ASSUME IInv, Connect
  PROVE  IInv'
<1> USE DEF IInv
<1> DEFINE k == socket + 1
           kept == [i \in 1..emitted |-> InitialConnect]
<1>1. /\ ~connected /\ connected' = TRUE /\ emitted' = 0
      /\ socket \in Nat /\ k \in Sockets /\ socket' = k /\ k \notin listening
      /\ listening' = listening \cup {k}
      /\ UNCHANGED <<currentChannel, channelOpen, overtaken, watched, gone, connection, created,
                     attached, dataListeners, down>>
  BY MaxSocketsAssumption DEF Connect, contexts, StateType, Sockets
<1>2. PICK m \in {InitialConnect, Reconnect} :
        /\ up' = [up EXCEPT ![k] = Append(kept, m)]
        /\ m = Reconnect => currentChannel # 0 /\ initialListeners' = initialListeners
        /\ m = InitialConnect => currentChannel = 0 /\ initialListeners' = initialListeners + 1
  BY <1>1 DEF Connect, HasChannel, InitialConnect, Reconnect
<1>3. /\ kept \in Seq(Requests) /\ m \in Requests
      /\ \A i \in 1..Len(kept) : kept[i] = InitialConnect
      /\ Len(kept) = emitted
  BY DEF StateType, Requests, InitialConnect, Reconnect
<1>4. /\ Append(kept, m) \in Seq(Requests)
      /\ \A i \in 1..Len(Append(kept, m)) :
           \/ Append(kept, m)[i] = InitialConnect /\ emitted > 0
           \/ Append(kept, m)[i] = m
  BY <1>3 DEF StateType
<1> HIDE DEF kept
<1>5. /\ up' \in [Sockets -> Seq(Requests)] /\ up'[k] = Append(kept, m)
      /\ \A l \in Sockets : l # k => up'[l] = up[l]
  BY <1>1, <1>2, <1>4 DEF StateType
<1>6. initialListeners' \in Nat /\ initialListeners' >= initialListeners /\ reconnectListeners' \in Nat
  BY <1>2 DEF StateType, Connect
<1>7. StateType'
  <2>1. 1..socket' \ listening' = 1..socket \ listening
    BY <1>1 DEF StateType
  <2>2. created' <= Cardinality(1..socket' \ listening')
    BY <1>1, <2>1 DEF StateType
  <2>3. socket' \in 0..MaxSockets /\ listening' \subseteq 1..socket' /\ gone' \subseteq 1..socket'
    BY <1>1 DEF StateType, Sockets
  <2> QED
    BY <1>1, <1>5, <1>6, <2>2, <2>3 DEF StateType
<1>8. watched[k] = 0 /\ down[k] = <<>>
  BY <1>1 DEF Links
<1>9. Links'
  <2>1. \A l \in Sockets : l \in listening' \/ l > socket' => l \in listening \/ l > socket \/ l = k
    BY <1>1 DEF Sockets
  <2> QED
    BY <1>1, <1>8, <2>1 DEF Links
<1>10. Waiting'
  <2>1. initialListeners' > 0 => ~channelOpen'
    BY <1>1, <1>2, <1>6 DEF Waiting, StateType
  <2>2. currentChannel' # 0 /\ initialListeners' = 0 => channelOpen'
    BY <1>1, <1>2, <1>6 DEF Waiting, StateType
  <2>3. ASSUME NEW l \in listening', NEW i \in 1..Len(up'[l]), up'[l][i].type = "INITIAL_CONNECT"
        PROVE  initialListeners' > 0 \/ \E j \in l + 1..socket' : j \notin listening'
    <3>1. CASE l = k
      BY <1>2, <1>4, <1>5, <1>6, <2>3, <3>1 DEF Waiting, StateType, InitialConnect, Reconnect
    <3>2. CASE l # k
      <4>1. l \in listening /\ l \in Sockets /\ up'[l] = up[l] /\ l \in Nat
        BY <1>1, <1>5, <3>2, MaxSocketsAssumption DEF StateType, Sockets
      <4>2. initialListeners > 0 \/ \E j \in l + 1..socket : j \notin listening
        BY <2>3, <4>1 DEF Waiting
      <4> QED
        BY <1>1, <1>6, <4>1, <4>2 DEF StateType
    <3> QED
      BY <3>1, <3>2
  <2>4. ASSUME NEW l \in Sockets, NEW i \in 1..Len(up'[l]), up'[l][i].type = "RECONNECT"
        PROVE  currentChannel' # 0
    <3>1. CASE l = k
      BY <1>1, <1>2, <1>4, <1>5, <2>4, <3>1 DEF InitialConnect, Reconnect
    <3>2. CASE l # k
      BY <1>1, <1>5, <2>4, <3>2 DEF Waiting
    <3> QED
      BY <3>1, <3>2
  <2> QED
    BY <1>1, <1>8, <2>1, <2>2, <2>3, <2>4 DEF Waiting
<1>11. Agreement'
  <2>1. initialListeners' = 0 => initialListeners = 0
    BY <1>6 DEF StateType
  <2> QED
    BY <1>1, <1>8, <2>1 DEF Agreement
<1> QED
  BY <1>7, <1>9, <1>10, <1>11

\* What a handshake has in common: it is the first of its socket, whose transport loses it.
LEMMA HandshakeFacts ==
  ASSUME IInv, NEW k \in Sockets, NEW t, k \in listening, Arrives(k, t), HandshakeHandled(k)
  PROVE  /\ k \in 1..socket /\ socket \in Sockets
         /\ watched[k] = 0 /\ down[k] = <<>>
         /\ listening' = listening \ {k} /\ overtaken' \in BOOLEAN
         /\ ~overtaken' => ~overtaken /\ \A j \in k + 1..socket : j \in listening
         /\ ~overtaken' /\ k # socket => socket \in listening
         /\ \E i \in 1..Len(up[k]) : up[k][i].type = t
         /\ up' \in [Sockets -> Seq(Requests)]
         /\ \A l \in Sockets : \A i \in 1..Len(up'[l]) :
              \E j \in 1..Len(up[l]) : up'[l][i] = up[l][j]
<1>1. k \in 1..socket /\ socket \in Sockets /\ socket \in Nat
  BY ListeningSocket DEF IInv
<1>2. /\ up' \in [Sockets -> Seq(Requests)]
      /\ \A l \in Sockets : \A i \in 1..Len(up'[l]) :
           \E j \in 1..Len(up[l]) : up'[l][i] = up[l][j]
      /\ 1 \in 1..Len(up[k]) /\ up[k][1].type = t
  BY RequestTaken DEF IInv
<1>3. watched[k] = 0 /\ down[k] = <<>>
  BY DEF IInv, Links
<1>4. listening' = listening \ {k} /\ overtaken' = (overtaken \/ \E j \in k + 1..socket : j \notin listening)
  BY DEF HandshakeHandled
<1>5. k # socket => socket \in k + 1..socket
  BY <1>1
<1> QED
  BY <1>1, <1>2, <1>3, <1>4, <1>5

\* What is left to be handled is as it was, when a handshake has been handled.
LEMMA HandshakeWaiting ==
  ASSUME IInv, NEW k \in Sockets, k \in 1..socket,
         UNCHANGED <<socket, connected, emitted, currentChannel, channelOpen, initialListeners>>,
         listening' = listening \ {k},
         \A l \in Sockets : \A i \in 1..Len(up'[l]) :
           \E j \in 1..Len(up[l]) : up'[l][i] = up[l][j],
         \A l \in Sockets : l # k => down'[l] = down[l],
         down'[k] # <<>> =>
           IF down'[k][1].type = "INITIAL_CONNECT"
           THEN down'[k][1].context # 0 /\ (k = socket => initialListeners > 0)
           ELSE currentChannel # 0
  PROVE  Waiting'
<1> USE DEF IInv
<1>1. ASSUME NEW l \in listening', NEW i \in 1..Len(up'[l]), up'[l][i].type = "INITIAL_CONNECT"
      PROVE  initialListeners' > 0 \/ \E j \in l + 1..socket' : j \notin listening'
  <2>1. l \in listening /\ l \in Sockets
    BY MaxSocketsAssumption DEF StateType, Sockets
  <2>2. PICK j \in 1..Len(up[l]) : up[l][j].type = "INITIAL_CONNECT"
    BY <1>1, <2>1
  <2>3. initialListeners > 0 \/ \E n \in l + 1..socket : n \notin listening
    BY <2>1, <2>2 DEF Waiting
  <2> QED
    BY <2>3
<1>2. ASSUME NEW l \in Sockets, NEW i \in 1..Len(up'[l]), up'[l][i].type = "RECONNECT"
      PROVE  currentChannel' # 0
  BY <1>2 DEF Waiting
<1>3. ASSUME NEW l \in Sockets, down'[l] # <<>>
      PROVE  /\ IF down'[l][1].type = "INITIAL_CONNECT" THEN down'[l][1].context # 0
                ELSE currentChannel' # 0
             /\ l = socket /\ down'[l][1].type = "INITIAL_CONNECT" => initialListeners' > 0
  <2>1. CASE l = k
    BY <1>3, <2>1
  <2>2. CASE l # k
    BY <1>3, <2>2 DEF Waiting
  <2> QED
    BY <2>1, <2>2
<1> QED
  BY <1>1, <1>2, <1>3 DEF Waiting

\* The links after a handshake that gave socket k to context c, or to none.
LEMMA HandshakeLinks ==
  ASSUME IInv, NEW k \in listening, k \in Sockets, NEW c \in Nat,
         UNCHANGED socket, listening' = listening \ {k},
         watched' = [watched EXCEPT ![k] = c],
         c # 0 => attached' = [attached EXCEPT ![c] = k] /\ dataListeners' = dataListeners \cup {<<k, c>>},
         c = 0 => UNCHANGED <<attached, dataListeners>>,
         \A l \in Sockets : l # k => down'[l] = down[l],
         Len(down'[k]) <= 1,
         down'[k] # <<>> => down'[k][1].context = c
  PROVE  Links'
<1> USE DEF IInv
<1>0. k \in 1..socket /\ socket \in Nat
  BY ListeningSocket
<1>1. /\ watched'[k] = c /\ watched[k] = 0
      /\ \A l \in Sockets : l # k => watched'[l] = watched[l]
      /\ ~(k > socket)
  BY <1>0 DEF StateType, Links
<1>2. \A l \in Sockets : l \in listening' \/ l > socket' => watched'[l] = 0 /\ down'[l] = <<>>
  BY <1>1 DEF Links
<1>3. ASSUME NEW d \in Sockets, NEW l \in Sockets, attached'[d] = l
      PROVE  watched'[l] = d
  <2>1. CASE l = k
    <3>1. attached[d] # k
      BY <1>1 DEF Links, Sockets
    <3> QED
      BY <1>1, <1>3, <2>1, <3>1 DEF StateType
  <2>2. CASE l # k
    <3>1. attached[d] = l
      BY <1>3, <2>2 DEF StateType
    <3> QED
      BY <1>1, <2>2, <3>1 DEF Links
  <2> QED
    BY <2>1, <2>2
<1>4. ASSUME NEW l \in Sockets, NEW d \in Nat, <<l, d>> \in dataListeners'
      PROVE  watched'[l] = d /\ d # 0
  <2>1. CASE <<l, d>> \in dataListeners
    BY <1>1, <2>1 DEF Links
  <2>2. CASE <<l, d>> = <<k, c>> /\ c # 0
    BY <1>1, <2>2
  <2> QED
    BY <1>4, <2>1, <2>2
<1>5. \A l \in Sockets : Len(down'[l]) <= 1 /\ (down'[l] # <<>> => down'[l][1].context = watched'[l])
  BY <1>1 DEF Links
<1> QED
  BY <1>2, <1>3, <1>4, <1>5 DEF Links

LEMMA InitialConnectIInv ==
  ASSUME IInv, NEW k \in Sockets, HandleInitialConnect(k)
  PROVE  IInv'
<1> DEFINE c == created + 1
<1> USE DEF IInv, frontend
<1>1. /\ k \in listening /\ Arrives(k, "INITIAL_CONNECT") /\ HandshakeHandled(k)
      /\ UNCHANGED <<socket, connected, emitted, currentChannel, channelOpen, initialListeners,
                     reconnectListeners, gone>>
      /\ created' = c /\ connection' = c
      /\ attached' = [attached EXCEPT ![c] = k]
      /\ dataListeners' = dataListeners \cup {<<k, c>>}
      /\ watched' = [watched EXCEPT ![k] = c]
      /\ ToFrontend(k, InitialReply(c))
  BY DEF HandleInitialConnect, Attach
<1>2. /\ k \in 1..socket /\ socket \in Sockets
      /\ watched[k] = 0 /\ down[k] = <<>>
      /\ listening' = listening \ {k} /\ overtaken' \in BOOLEAN
      /\ ~overtaken' => ~overtaken /\ \A j \in k + 1..socket : j \in listening
      /\ \E i \in 1..Len(up[k]) : up[k][i].type = "INITIAL_CONNECT"
      /\ up' \in [Sockets -> Seq(Requests)]
      /\ \A l \in Sockets : \A i \in 1..Len(up'[l]) :
           \E j \in 1..Len(up[l]) : up'[l][i] = up[l][j]
  BY <1>1, HandshakeFacts
<1>3. /\ c \in Sockets /\ c <= Cardinality(1..socket \ listening') /\ c \in Nat /\ c # 0 /\ c \in 0..c
  <2>1. c \in Sockets /\ c <= Cardinality(1..socket \ (listening \ {k}))
    BY <1>1, ContextNumber
  <2>2. c \in Nat /\ c # 0 /\ c \in 0..c
    BY DEF StateType
  <2> HIDE DEF c
  <2> QED
    BY <1>2, <2>1, <2>2
<1>4. InitialReply(c) \in Answers /\ InitialReply(c).type = "INITIAL_CONNECT" /\ InitialReply(c).context = c
  BY <1>3 DEF InitialReply, Answers
<1> HIDE DEF c
<1>5. /\ down' \in [Sockets -> Seq(Answers)]
      /\ \A l \in Sockets : l # k => down'[l] = down[l]
      /\ Len(down'[k]) <= 1
      /\ down'[k] # <<>> => down'[k][1] = InitialReply(c) /\ k = socket
  BY <1>1, <1>4, AnswerSent
<1>6. initialListeners > 0 \/ overtaken'
  BY <1>1, <1>2 DEF Waiting, HandshakeHandled
<1>7. StateType'
  <2>1. watched' \in [Sockets -> Nat] /\ attached' \in [Sockets -> Nat]
    BY <1>1, <1>2, <1>3 DEF StateType, Sockets
  <2>2. listening' \subseteq 1..socket' /\ created' <= Cardinality(1..socket' \ listening')
    BY <1>1, <1>2, <1>3 DEF StateType
  <2> QED
    BY <1>1, <1>2, <1>3, <1>5, <2>1, <2>2 DEF StateType
<1>8. Links'
  <2>1. Len(down'[k]) <= 1 /\ (down'[k] # <<>> => down'[k][1].context = c)
    BY <1>4, <1>5
  <2> QED
    BY <1>1, <1>2, <1>3, <1>5, <2>1, HandshakeLinks
<1>9. Waiting'
  <2>1. down'[k] # <<>> =>
          IF down'[k][1].type = "INITIAL_CONNECT"
          THEN down'[k][1].context # 0 /\ (k = socket => initialListeners > 0)
          ELSE currentChannel # 0
    <3>1. k = socket => initialListeners > 0
      BY <1>1, <1>2 DEF Waiting, StateType
    <3> QED
      BY <1>3, <1>4, <1>5, <3>1
  <2> QED
    BY <1>1, <1>2, <1>5, <2>1, HandshakeWaiting
<1>10. Agreement'
  <2> SUFFICES ASSUME ~overtaken' PROVE Agreement'
    BY DEF Agreement
  <2>1. initialListeners > 0 /\ ~channelOpen
    BY <1>6 DEF Waiting
  <2>2. k = socket \/ watched'[socket] = 0
    <3>1. k # socket => socket \in listening
      BY <1>1, HandshakeFacts
    <3> QED
      BY <1>1, <1>2, <3>1 DEF StateType, Links
  <2>3. k = socket => watched'[socket] = c
    BY <1>1, <1>2 DEF StateType
  <2> QED
    BY <1>1, <2>1, <2>2, <2>3 DEF Agreement, StateType
<1> QED
  BY <1>7, <1>8, <1>9, <1>10

LEMMA ReconnectIInv ==
  ASSUME IInv, NEW k \in Sockets, HandleReconnect(k)
  PROVE  IInv'
<1> USE DEF IInv, frontend
<1>1. /\ k \in listening /\ Arrives(k, "RECONNECT") /\ HandshakeHandled(k)
      /\ UNCHANGED <<socket, connected, emitted, currentChannel, channelOpen, initialListeners,
                     reconnectListeners, gone>>
      /\ created' = created /\ connection' = connection
      /\ connection # 0 =>
           /\ attached' = [attached EXCEPT ![connection] = k]
           /\ dataListeners' = dataListeners \cup {<<k, connection>>}
      /\ connection = 0 => UNCHANGED <<attached, dataListeners>>
      /\ ToFrontend(k, ReconnectReply(connection))
  BY DEF HandleReconnect, Attach
<1>2. /\ k \in 1..socket /\ socket \in Sockets
      /\ watched[k] = 0 /\ down[k] = <<>>
      /\ listening' = listening \ {k} /\ overtaken' \in BOOLEAN
      /\ ~overtaken' => ~overtaken /\ \A j \in k + 1..socket : j \in listening
      /\ \E i \in 1..Len(up[k]) : up[k][i].type = "RECONNECT"
      /\ up' \in [Sockets -> Seq(Requests)]
      /\ \A l \in Sockets : \A i \in 1..Len(up'[l]) :
           \E j \in 1..Len(up[l]) : up'[l][i] = up[l][j]
  BY <1>1, HandshakeFacts
<1>3. watched' = [watched EXCEPT ![k] = connection]
  <2>1. CASE connection # 0
    BY <2>1 DEF HandleReconnect, Attach
  <2>2. CASE connection = 0
    BY <1>2, <2>2 DEF HandleReconnect, StateType
  <2> QED
    BY <2>1, <2>2
<1>4. created' <= Cardinality(1..socket \ listening') /\ connection \in Nat
  <2>1. created <= Cardinality(1..socket \ (listening \ {k}))
    BY <1>1, ContextNumber
  <2>2. connection \in Nat
    BY DEF StateType
  <2> QED
    BY <1>1, <1>2, <2>1, <2>2
<1>5. /\ ReconnectReply(connection) \in Answers
      /\ ReconnectReply(connection).type = "RECONNECT" /\ ReconnectReply(connection).context = connection
  BY <1>4 DEF ReconnectReply, Answers
<1>6. /\ down' \in [Sockets -> Seq(Answers)]
      /\ \A l \in Sockets : l # k => down'[l] = down[l]
      /\ Len(down'[k]) <= 1
      /\ down'[k] # <<>> => down'[k][1] = ReconnectReply(connection) /\ k = socket
  BY <1>1, <1>5, AnswerSent
<1>7. StateType'
  <2>1. watched' \in [Sockets -> Nat]
    BY <1>3, <1>4 DEF StateType
  <2>3. attached' \in [Sockets -> Nat]
    <3>1. k \in Nat
      BY <1>2
    <3>2. CASE connection # 0
      BY <1>1, <3>1, <3>2 DEF StateType
    <3>3. CASE connection = 0
      BY <1>1, <3>3 DEF StateType
    <3> QED
      BY <3>2, <3>3
  <2>2. listening' \subseteq 1..socket' /\ created' <= Cardinality(1..socket' \ listening')
    BY <1>1, <1>2, <1>4 DEF StateType
  <2> QED
    BY <1>1, <1>2, <1>6, <2>1, <2>2, <2>3 DEF StateType
<1>8. Links'
  <2>1. Len(down'[k]) <= 1 /\ (down'[k] # <<>> => down'[k][1].context = connection)
    BY <1>5, <1>6
  <2> QED
    BY <1>1, <1>2, <1>3, <1>4, <1>6, <2>1, HandshakeLinks
<1>9. Waiting'
  <2>1. currentChannel # 0
    BY <1>2 DEF Waiting
  <2>2. down'[k] # <<>> =>
          IF down'[k][1].type = "INITIAL_CONNECT"
          THEN down'[k][1].context # 0 /\ (k = socket => initialListeners > 0)
          ELSE currentChannel # 0
    BY <1>5, <1>6, <2>1
  <2> QED
    BY <1>1, <1>2, <1>6, <2>2, HandshakeWaiting
<1>10. Agreement'
  <2> SUFFICES ASSUME ~overtaken' PROVE Agreement'
    BY DEF Agreement
  <2>1. k = socket \/ watched'[socket] = watched[socket]
    BY <1>2, <1>3 DEF StateType
  <2>2. k = socket => watched'[socket] = connection
    BY <1>2, <1>3 DEF StateType
  <2>3. channelOpen => initialListeners = 0
    BY DEF Waiting, StateType
  <2> QED
    BY <1>1, <1>2, <2>1, <2>2, <2>3 DEF Agreement, StateType
<1> QED
  BY <1>7, <1>8, <1>9, <1>10

\* The steps that handle no handshake and no answer: they may close the registered context,
\* detach contexts from sockets, and mark for close.
LEMMA QuietIInv ==
  ASSUME IInv,
         UNCHANGED <<socket, connected, emitted, currentChannel, channelOpen, initialListeners,
                     reconnectListeners, listening, overtaken, watched, created, down>>,
         connection' \in {0, connection}, gone' \subseteq 1..socket,
         dataListeners' \subseteq dataListeners,
         attached' \in [Sockets -> Nat], \A c \in Sockets : attached'[c] \in {0, attached[c]},
         up' \in [Sockets -> Seq(Requests)],
         \A l \in Sockets : \A i \in 1..Len(up'[l]) :
           up'[l][i].type = "markForClose" \/ \E j \in 1..Len(up[l]) : up'[l][i] = up[l][j]
  PROVE  IInv'
<1> USE DEF IInv
<1>1. StateType'
  <2>1. connection' \in 0..created' /\ created' <= Cardinality(1..socket' \ listening')
    BY DEF StateType
  <2> QED
    BY <2>1 DEF StateType
<1>2. Links'
  <2>1. \A c, k \in Sockets : attached'[c] = k => watched'[k] = c
    <3>1. 0 \notin Sockets
      BY MaxSocketsAssumption DEF Sockets
    <3> QED
      BY <3>1 DEF Links
  <2> QED
    BY <2>1 DEF Links
<1>3. Waiting'
  <2>1. ASSUME NEW l \in listening, NEW i \in 1..Len(up'[l]), up'[l][i].type = "INITIAL_CONNECT"
        PROVE  initialListeners > 0 \/ \E j \in l + 1..socket : j \notin listening
    <3>1. l \in Sockets
      BY MaxSocketsAssumption DEF StateType, Sockets
    <3>2. PICK j \in 1..Len(up[l]) : up[l][j].type = "INITIAL_CONNECT"
      BY <2>1, <3>1
    <3> QED
      BY <3>2 DEF Waiting
  <2>2. ASSUME NEW l \in Sockets, NEW i \in 1..Len(up'[l]), up'[l][i].type = "RECONNECT"
        PROVE  currentChannel # 0
    BY <2>2 DEF Waiting
  <2> QED
    BY <2>1, <2>2 DEF Waiting
<1>4. Agreement'
  BY DEF Agreement
<1> QED
  BY <1>1, <1>2, <1>3, <1>4

LEMMA DisconnectedIInv ==
  ASSUME IInv, NEW k \in Sockets, SocketDisconnected(k)
  PROVE  IInv'
<1> USE DEF frontend
<1>1. /\ UNCHANGED <<frontend, listening, overtaken, watched, created, down>>
      /\ k \in 1..socket /\ gone' = gone \cup {k} /\ up' = [up EXCEPT ![k] = <<>>]
      /\ connection' \in {0, connection}
      /\ dataListeners' \subseteq dataListeners
      /\ attached' = attached \/ attached' = [attached EXCEPT ![watched[k]] = 0]
  BY DEF SocketDisconnected, CloseConnection, contexts
<1>2. /\ attached' \in [Sockets -> Nat] /\ \A c \in Sockets : attached'[c] \in {0, attached[c]}
      /\ up' \in [Sockets -> Seq(Requests)] /\ \A l \in Sockets : up'[l] \in {<<>>, up[l]}
      /\ gone' \subseteq 1..socket
  BY <1>1 DEF IInv, StateType
<1> QED
  BY <1>1, <1>2, QuietIInv

LEMMA MarkedIInv ==
  ASSUME IInv, AboutToClose
  PROVE  IInv'
<1> USE DEF contexts
<1>1. /\ UNCHANGED <<socket, connected, emitted, currentChannel, channelOpen, initialListeners,
                     reconnectListeners, listening, overtaken, watched, gone, contexts, down>>
      /\ up' = [up EXCEPT ![socket] = Append(@, MarkForClose)]
  BY DEF AboutToClose
<1>2. MarkForClose \in Requests /\ MarkForClose.type = "markForClose"
  BY DEF Requests, MarkForClose
<1>3. /\ up' \in [Sockets -> Seq(Requests)]
      /\ \A l \in Sockets : \A i \in 1..Len(up'[l]) :
           up'[l][i].type = "markForClose" \/ \E j \in 1..Len(up[l]) : up'[l][i] = up[l][j]
  <2>1. up \in [Sockets -> Seq(Requests)]
    BY DEF IInv, StateType
  <2>2. CASE socket \in Sockets
    <3>1. up[socket] \in Seq(Requests)
      BY <2>1, <2>2
    <3>2. /\ Append(up[socket], MarkForClose) \in Seq(Requests)
          /\ \A i \in 1..Len(Append(up[socket], MarkForClose)) :
               \/ Append(up[socket], MarkForClose)[i] = MarkForClose
               \/ i \in 1..Len(up[socket]) /\ Append(up[socket], MarkForClose)[i] = up[socket][i]
      BY <1>2, <3>1
    <3> QED
      BY <1>1, <1>2, <2>1, <2>2, <3>2
  <2>3. CASE socket \notin Sockets
    BY <1>1, <2>1, <2>3
  <2> QED
    BY <2>2, <2>3
<1> QED
  BY <1>1, <1>3, QuietIInv DEF IInv, StateType

\* A message that is taken off a transport, and changes nothing these proofs are about.
LEMMA IgnoredIInv ==
  ASSUME IInv, NEW k \in Sockets, IgnoredHandshake(k) \/ HandleMarkForClose(k)
  PROVE  IInv'
<1>1. UNCHANGED <<frontend, listening, overtaken, watched, gone, contexts, down>>
  BY DEF IgnoredHandshake, HandleMarkForClose
<1>2. PICK t : Arrives(k, t)
  BY DEF IgnoredHandshake, HandleMarkForClose
<1>3. /\ up' \in [Sockets -> Seq(Requests)]
      /\ \A l \in Sockets : \A i \in 1..Len(up'[l]) : \E j \in 1..Len(up[l]) : up'[l][i] = up[l][j]
  BY <1>2, RequestTaken DEF IInv
<1> QED
  BY <1>1, <1>3, QuietIInv DEF IInv, StateType, frontend, contexts

LEMMA TimeoutIInv ==
  ASSUME IInv, NEW h \in timers, TimeoutElapses(h)
  PROVE  IInv'
<1>1. /\ UNCHANGED <<frontend, listening, overtaken, watched, gone, created, attached, dataListeners, up, down>>
      /\ connection' = 0
  BY DEF TimeoutElapses, CloseConnection
<1> QED
  BY <1>1, QuietIInv DEF IInv, StateType, frontend

\* The front end takes an answer, or loses those that are on their way.
LEMMA FrontendIInv ==
  ASSUME IInv, TransportLost \/ FrontendReceives
  PROVE  IInv'
<1> USE DEF IInv
<1>1. /\ UNCHANGED <<socket, listening, overtaken, watched, gone, contexts, up>>
      /\ connected /\ socket \in Sockets
      /\ \/ down' = [down EXCEPT ![socket] = Tail(@)] /\ down[socket] # <<>>
         \/ down' = [down EXCEPT ![socket] = <<>>]
  BY MaxSocketsAssumption DEF TransportLost, FrontendReceives, InitialConnectReceived, ReconnectSucceeded, ReconnectFailedReload,
     ReconnectFailedRestart, Answered, StateType, Sockets
<1>2. /\ down' \in [Sockets -> Seq(Answers)] /\ Links'
      /\ down'[socket] = <<>> /\ \A l \in Sockets : l # socket => down'[l] = down[l]
  BY <1>1, AnswersLost DEF contexts
<1>3. UNCHANGED <<connection, created, attached>>
  BY <1>1 DEF contexts
<1>4. CASE TransportLost \/ ReconnectSucceeded \/ ReconnectFailedReload
  <2>1. /\ UNCHANGED <<emitted, currentChannel, channelOpen, initialListeners>>
        /\ connected' = FALSE \/ connected' = connected
        /\ reconnectListeners' \in {0, reconnectListeners}
    <3>1. CASE TransportLost
      BY <3>1 DEF TransportLost
    <3>2. CASE ReconnectSucceeded
      BY <3>2 DEF ReconnectSucceeded
    <3>3. CASE ReconnectFailedReload
      BY <3>3 DEF ReconnectFailedReload
    <3> QED
      BY <1>4, <3>1, <3>2, <3>3
  <2>2. StateType'
    <3>1. connected' \in BOOLEAN /\ (connected' => socket' # 0)
      BY <1>1, <2>1 DEF StateType
    <3> QED
      BY <1>1, <1>2, <1>3, <2>1, <3>1 DEF StateType
  <2>3. Waiting'
    BY <1>1, <1>2, <2>1 DEF Waiting
  <2>4. Agreement'
    BY <1>1, <1>3, <2>1 DEF Agreement
  <2> QED
    BY <1>2, <2>2, <2>3, <2>4
<1>5. CASE ReconnectFailedRestart
  <2>1. /\ currentChannel' = currentChannel /\ channelOpen' = FALSE /\ connected' = FALSE
        /\ reconnectListeners > 0 /\ reconnectListeners' = 0
        /\ initialListeners' = initialListeners + reconnectListeners
        /\ emitted' = emitted + reconnectListeners
    BY <1>5 DEF ReconnectFailedRestart
  <2>2. initialListeners' \in Nat /\ initialListeners' > 0 /\ emitted' \in Nat
    BY <2>1 DEF StateType
  <2>3. StateType'
    BY <1>1, <1>2, <1>3, <2>1, <2>2 DEF StateType
  <2>4. Waiting'
    BY <1>1, <1>2, <2>1, <2>2 DEF Waiting
  <2>5. Agreement'
    BY <1>1, <1>3, <2>1, <2>2 DEF Agreement
  <2> QED
    BY <1>2, <2>3, <2>4, <2>5
<1>6. CASE InitialConnectReceived
  <2>1. /\ connected' = connected /\ emitted' = emitted /\ initialListeners' = 0
        /\ reconnectListeners' = reconnectListeners
        /\ initialListeners > 0 =>
             currentChannel' = Head(down[socket]).context /\ channelOpen' = TRUE
        /\ down[socket] # <<>> /\ Head(down[socket]).type = "INITIAL_CONNECT"
    BY <1>6 DEF InitialConnectReceived, ConnectNewChannel, Answered
  <2>2. down[socket][1] = Head(down[socket])
    BY <1>1, <2>1, HeadFacts DEF StateType
  <2>3. /\ initialListeners > 0 /\ emitted = 0 /\ ~channelOpen
        /\ watched[socket] # 0 /\ Head(down[socket]).context = watched[socket]
        /\ socket \notin listening
    BY <1>1, <2>1, <2>2 DEF Waiting, Links, StateType
  <2>4. currentChannel' = watched[socket] /\ channelOpen' = TRUE
    BY <2>1, <2>3
  <2>5. StateType'
    BY <1>1, <1>2, <1>3, <2>1, <2>4 DEF StateType
  <2>6. Waiting'
    <3>1. ASSUME NEW l \in listening
          PROVE  \E j \in l + 1..socket : j \notin listening
      BY <2>3 DEF StateType
    <3>2. \A l \in Sockets : \A i \in 1..Len(up[l]) : up[l][i].type = "RECONNECT" => currentChannel' # 0
      BY <2>3, <2>4
    <3>3. \A l \in Sockets : down'[l] # <<>> =>
            IF down'[l][1].type = "INITIAL_CONNECT" THEN down'[l][1].context # 0 ELSE currentChannel' # 0
      BY <1>2, <2>3, <2>4 DEF Waiting
    <3> QED
      BY <1>1, <1>2, <2>1, <2>3, <2>4, <3>1, <3>2, <3>3 DEF Waiting
  <2>7. Agreement'
    BY <1>1, <1>3, <2>3, <2>4 DEF Agreement
  <2> QED
    BY <1>2, <2>5, <2>6, <2>7
<1> QED
  BY <1>4, <1>5, <1>6 DEF FrontendReceives

LEMMA NextIInv ==
  ASSUME IInv, [Next]_vars
  PROVE  IInv'
<1>1. CASE Connect
  BY <1>1, ConnectIInv
<1>2. CASE TransportLost \/ FrontendReceives
  BY <1>2, FrontendIInv
<1>3. CASE AboutToClose
  BY <1>3, MarkedIInv
<1>4. ASSUME NEW k \in Sockets, BackendReceives(k) \/ SocketDisconnected(k)
      PROVE  IInv'
  BY <1>4, IgnoredIInv, InitialConnectIInv, ReconnectIInv, DisconnectedIInv DEF BackendReceives
<1>5. ASSUME NEW h \in timers, TimeoutElapses(h)
      PROVE  IInv'
  BY <1>5, TimeoutIInv
<1>6. CASE UNCHANGED vars
  BY <1>6 DEF vars, frontend, contexts, IInv, StateType, Links, Waiting, Agreement
<1> QED
  BY <1>1, <1>2, <1>3, <1>4, <1>5, <1>6 DEF Next

LEMMA IInvAlways == Spec => []IInv
<1>1. Init => IInv
  BY InitIInv
<1>2. IInv /\ [Next]_vars => IInv'
  BY NextIInv
<1> QED
  BY <1>1, <1>2, PTL DEF Spec

-----------------------------------------------------------------------------
(* One context *)

\* What a step does to the contexts there are.
LEMMA ContextSteps ==
  ASSUME [Next]_vars
  PROVE  \/ UNCHANGED <<connection, created, closed>>
         \/ connection' = 0 /\ created' = created /\ Close
         \/ /\ created' = created + 1 /\ connection' = created + 1
            /\ Close \/ (connection = 0 /\ closed' = closed)
<1>1. CASE Connect \/ TransportLost \/ FrontendReceives \/ AboutToClose
  BY <1>1 DEF Connect, TransportLost, FrontendReceives, InitialConnectReceived, ReconnectSucceeded,
     ReconnectFailedReload, ReconnectFailedRestart, AboutToClose, contexts
<1>2. ASSUME NEW k \in Sockets, BackendReceives(k)
      PROVE  \/ UNCHANGED <<connection, created, closed>>
             \/ /\ created' = created + 1 /\ connection' = created + 1
                /\ Close \/ (connection = 0 /\ closed' = closed)
  <2>1. CASE IgnoredHandshake(k) \/ HandleMarkForClose(k)
    BY <2>1 DEF IgnoredHandshake, HandleMarkForClose, contexts
  <2>2. CASE HandleInitialConnect(k)
    BY <2>2 DEF HandleInitialConnect
  <2>3. CASE HandleReconnect(k)
    BY <2>3 DEF HandleReconnect
  <2> QED
    BY <1>2, <2>1, <2>2, <2>3 DEF BackendReceives
<1>3. ASSUME NEW k \in Sockets, SocketDisconnected(k)
      PROVE  \/ UNCHANGED <<connection, created, closed>>
             \/ connection' = 0 /\ created' = created /\ Close
  BY <1>3 DEF SocketDisconnected, CloseConnection, contexts
<1>4. ASSUME NEW h \in timers, TimeoutElapses(h)
      PROVE  connection' = 0 /\ created' = created /\ Close
  BY <1>4 DEF TimeoutElapses, CloseConnection
<1>5. CASE UNCHANGED vars
  BY <1>5 DEF vars, contexts
<1> QED
  BY <1>1, <1>2, <1>3, <1>4, <1>5 DEF Next

\* Every context is closed but the registered one: the invariant holds for the contexts
\* that are known to exist.
THEOREM OneContextAlways == Spec => []OneContext
<1> DEFINE Inv == closed \subseteq Contexts /\ OneContext
<1>1. Init => Inv
  BY DEF Init, OneContext, Contexts
<1>2. IInv /\ Inv /\ [Next]_vars => Inv'
  <2> SUFFICES ASSUME IInv, Inv, [Next]_vars PROVE Inv'
    OBVIOUS
  <2>1. created \in Nat /\ connection \in 0..created /\ closed \subseteq 1..created
    BY DEF IInv, StateType, Contexts
  <2>2. 1..created \ closed = {connection} \ {0}
    BY DEF OneContext, Contexts
  <2>3. CASE UNCHANGED <<connection, created, closed>>
    BY <2>3 DEF OneContext, Contexts
  <2>4. CASE connection' = 0 /\ created' = created /\ Close
    BY <2>1, <2>2, <2>4 DEF OneContext, Contexts, Close
  <2>5. CASE /\ created' = created + 1 /\ connection' = created + 1
             /\ Close \/ (connection = 0 /\ closed' = closed)
    <3>1. closed' = closed \cup ({connection} \ {0})
      BY <2>5 DEF Close
    <3>2. 1..created' = (1..created) \cup {created + 1} /\ created + 1 \notin 1..created /\ created + 1 # 0
      BY <2>1, <2>5
    <3>3. closed' = 1..created
      BY <2>1, <2>2, <3>1
    <3> QED
      BY <2>5, <3>2, <3>3 DEF OneContext, Contexts
  <2> QED
    BY <2>3, <2>4, <2>5, ContextSteps
<1> QED
  BY <1>1, <1>2, IInvAlways, PTL DEF Spec

-----------------------------------------------------------------------------
(* Served frontends, and reconnects *)

\* No step but the end of the transport takes the context from a front end it serves: the
\* only socket whose disconnect is to come is the one in use, which has been given to that
\* context, so that no handshake is left on it.
THEOREM ServedUntilDisconnectedAlways == Spec => ServedUntilDisconnected
<1> DEFINE Kept == /\ Served /\ OldSocketsGone /\ timers = {}
                   /\ connected /\ connected' /\ socket \notin gone'
                   => Served'
<1>1. ASSUME IInv, Next PROVE Kept
  <2> SUFFICES ASSUME Served, OldSocketsGone, timers = {}, connected, connected', socket \notin gone'
               PROVE  Served'
    OBVIOUS
  <2> USE <1>1
  <2>1. /\ socket \in Sockets /\ connection \in Nat /\ connection # 0
        /\ <<socket, connection>> \in dataListeners
    BY MaxSocketsAssumption DEF IInv, StateType, Served, Sockets
  <2>2. watched[socket] = connection /\ socket \notin listening
    BY <2>1 DEF IInv, Links
  <2>3. ASSUME NEW k \in 1..socket, k \notin gone
        PROVE  k = socket
    BY <2>3 DEF OldSocketsGone, IInv, StateType
  <2>4. CASE Connect \/ TransportLost \/ ReconnectFailedRestart
    BY <2>4 DEF Connect, TransportLost, ReconnectFailedRestart
  <2>5. ASSUME NEW h \in timers, TimeoutElapses(h)
        PROVE  Served'
    OBVIOUS
  <2>6. CASE ReconnectSucceeded \/ ReconnectFailedReload \/ AboutToClose
    BY <2>6 DEF ReconnectSucceeded, ReconnectFailedReload, AboutToClose, contexts, Served
  <2>7. CASE InitialConnectReceived
    <3>1. down[socket] # <<>> /\ down[socket] \in Seq(Answers)
      BY <2>1, <2>7 DEF InitialConnectReceived, Answered, IInv, StateType
    <3>2. Head(down[socket]).context = connection
      BY <2>1, <2>2, <3>1, HeadFacts DEF IInv, Links
    <3>3. UNCHANGED <<socket, contexts>>
      BY <2>7 DEF InitialConnectReceived
    <3>4. channelOpen' /\ currentChannel' = connection
      BY <2>7, <3>2 DEF InitialConnectReceived, ConnectNewChannel, Served
    <3> QED
      BY <3>3, <3>4 DEF Served, contexts
  <2>8. ASSUME NEW k \in Sockets, BackendReceives(k) \/ SocketDisconnected(k)
        PROVE  Served'
    <3>1. k \notin gone
      BY <2>8 DEF BackendReceives, SocketDisconnected, IgnoredHandshake, HandleInitialConnect,
         HandleReconnect, HandleMarkForClose, Arrives
    <3>2. ~SocketDisconnected(k)
      BY <2>3, <3>1 DEF SocketDisconnected
    <3>3. k \in listening => k = socket
      BY <2>3, <3>1 DEF IInv, StateType
    <3>4. ~HandleInitialConnect(k) /\ ~HandleReconnect(k)
      BY <2>2, <3>3 DEF HandleInitialConnect, HandleReconnect
    <3>5. IgnoredHandshake(k) \/ HandleMarkForClose(k)
      BY <2>8, <3>2, <3>4 DEF BackendReceives
    <3> QED
      BY <3>5 DEF IgnoredHandshake, HandleMarkForClose, frontend, contexts, Served
  <2> QED
    BY <2>4, <2>5, <2>6, <2>7, <2>8 DEF Next, FrontendReceives
<1>2. IInv /\ [Next]_vars => [Kept]_vars
  <2> HIDE DEF Kept
  <2> QED
    BY <1>1
<1> QED
  BY <1>2, IInvAlways, PTL DEF Spec, ServedUntilDisconnected

\* The answer to a reconnect finds the front end with the channel it asked for.
THEOREM ReconnectResumesChannelAlways == Spec => ReconnectResumesChannel
<1> DEFINE Resumes == /\ ReconnectSucceeded /\ Head(down[socket]).context # 0
                      /\ ~overtaken /\ initialListeners = 0
                      => channelOpen /\ currentChannel = Head(down[socket]).context
<1>1. ASSUME IInv PROVE Resumes
  <2> SUFFICES ASSUME ReconnectSucceeded, Head(down[socket]).context # 0, ~overtaken, initialListeners = 0
               PROVE  channelOpen /\ currentChannel = Head(down[socket]).context
    OBVIOUS
  <2> USE <1>1 DEF IInv
  <2>1. connected /\ down[socket] # <<>> /\ Head(down[socket]).type = "RECONNECT"
    BY DEF ReconnectSucceeded, Answered
  <2>2. socket \in Sockets
    BY <2>1, MaxSocketsAssumption DEF StateType, Sockets
  <2>3. Head(down[socket]) = down[socket][1]
    BY <2>1, <2>2, HeadFacts DEF StateType
  <2>4. Head(down[socket]).context = watched[socket]
    BY <2>1, <2>2, <2>3 DEF Links
  <2>5. currentChannel # 0
    BY <2>1, <2>2, <2>3 DEF Waiting
  <2> QED
    BY <2>2, <2>4, <2>5 DEF Waiting, Agreement
<1>2. IInv /\ [Next]_vars => [Resumes]_vars
  <2> HIDE DEF Resumes
  <2> QED
    BY <1>1
<1> QED
  BY <1>2, IInvAlways, PTL DEF Spec, ReconnectResumesChannel

-----------------------------------------------------------------------------
(* The data *)

Message == [on : Sockets, number : Nat, late : BOOLEAN]
Frame == Seq(Message) \ {<<>>}
Arrival == [message : Message, at : Nat]

DataType ==
  /\ buffer \in Seq(Message)
  /\ buffers \in [Sockets -> Seq(Message)]
  /\ upFrames \in [Sockets -> Seq(Frame)]
  /\ downFrames \in [Sockets -> Seq(Frame)]
  /\ written \in [Ends -> Nat]
  /\ atFrontend \in Seq(Arrival)
  /\ atBackend \in Seq(Arrival)

\* What a receiver reads from a frame.
Read(f) == f[1]

\* A number that the front end has written is in one place at most of those it can be
\* received from: first in the buffer, first in a frame, or at the backend.
UpOnce ==
  /\ buffer # <<>> =>
       /\ buffer[1].number <= written["frontend"]
       /\ \A k \in Sockets : \A i \in 1..Len(upFrames[k]) : Read(upFrames[k][i]).number # buffer[1].number
       /\ \A i \in 1..Len(atBackend) : atBackend[i].message.number # buffer[1].number
  /\ \A k \in Sockets : \A i \in 1..Len(upFrames[k]) :
       /\ Read(upFrames[k][i]).number <= written["frontend"]
       /\ \A l \in Sockets : \A j \in 1..Len(upFrames[l]) :
            k # l \/ i # j => Read(upFrames[k][i]).number # Read(upFrames[l][j]).number
       /\ \A j \in 1..Len(atBackend) : atBackend[j].message.number # Read(upFrames[k][i]).number
  /\ \A i \in 1..Len(atBackend) : atBackend[i].message.number <= written["frontend"]
  /\ BackendReceivesOnce

\* What is written on the open channel is on its way to the context the channel was made
\* for, if its socket has been given to any; the front end has still got that channel if
\* neither that socket nor a later one has shaken hands.  Nobody writes on a socket to come.
UpContext ==
  /\ buffer # <<>> /\ ~buffer[1].late => channelOpen /\ buffer[1].on = currentChannel
  /\ \A k \in Sockets : k > socket => upFrames[k] = <<>>
  /\ ~overtaken =>
       \A k \in Sockets : \A i \in 1..Len(upFrames[k]) :
         ~Read(upFrames[k][i]).late =>
           /\ watched[k] \in {0, Read(upFrames[k][i]).on}
           /\ k..socket \subseteq listening => channelOpen /\ Read(upFrames[k][i]).on = currentChannel

\* The messages of a context arrive, are on their way and are buffered in this order.
DownOrder ==
  /\ \A c \in Sockets : buffers[c] # <<>> =>
       /\ buffers[c][1].on = c
       /\ buffers[c][1].number <= written["backend"]
       /\ \A k \in Sockets : \A i \in 1..Len(downFrames[k]) :
            Read(downFrames[k][i]).on = c => Read(downFrames[k][i]).number < buffers[c][1].number
       /\ \A i \in 1..Len(atFrontend) :
            atFrontend[i].message.on = c => atFrontend[i].message.number < buffers[c][1].number
  /\ \A k \in Sockets : \A i \in 1..Len(downFrames[k]) :
       /\ Read(downFrames[k][i]).number <= written["backend"]
       /\ \A j \in 1..Len(downFrames[k]) :
            i < j /\ Read(downFrames[k][j]).on = Read(downFrames[k][i]).on =>
              Read(downFrames[k][i]).number < Read(downFrames[k][j]).number
       /\ \A j \in 1..Len(atFrontend) :
            atFrontend[j].message.on = Read(downFrames[k][i]).on =>
              atFrontend[j].message.number < Read(downFrames[k][i]).number
  /\ \A i \in 1..Len(atFrontend) : atFrontend[i].message.number <= written["backend"]
  /\ FrontendReceivesInOrder

\* A context buffers only while it is detached, and only the socket in use carries anything:
\* what the context writes that it was given to.
DownContext ==
  /\ \A c \in Sockets : buffers[c] # <<>> => c <= created /\ attached[c] = 0
  /\ \A k \in Sockets : ~UsedByFrontend(k) => downFrames[k] = <<>>
  /\ socket \in Sockets =>
       \A i \in 1..Len(downFrames[socket]) : Read(downFrames[socket][i]).on = watched[socket]

ArrivedWhereMeant(arrivals) ==
  \A i \in 1..Len(arrivals) :
    ~arrivals[i].message.late => arrivals[i].at = arrivals[i].message.on

WhereMeant == ~overtaken => ArrivedWhereMeant(atBackend) /\ ArrivedWhereMeant(atFrontend)

DataInv ==
  /\ DataType /\ UpOnce /\ UpContext /\ DownOrder /\ DownContext
  /\ WhereMeant

-----------------------------------------------------------------------------
(* Sequences and buffers *)

LEMMA AppendFacts ==
  ASSUME NEW S, NEW s \in Seq(S), NEW x \in S
  PROVE  /\ Append(s, x) \in Seq(S)
         /\ Len(Append(s, x)) = Len(s) + 1
         /\ \A i \in 1..Len(s) : Append(s, x)[i] = s[i]
         /\ Append(s, x)[Len(s) + 1] = x
         /\ Len(s) \in Nat
OBVIOUS

LEMMA TailFacts ==
  ASSUME NEW S, NEW s \in Seq(S), s # <<>>
  PROVE  /\ Tail(s) \in Seq(S)
         /\ Len(Tail(s)) = Len(s) - 1
         /\ \A i \in 1..Len(Tail(s)) : i + 1 \in 1..Len(s) /\ Tail(s)[i] = s[i + 1]
         /\ 1 \in 1..Len(s) /\ Head(s) = s[1] /\ Head(s) \in S
OBVIOUS

\* A frame has a first message.
LEMMA ReadType == ASSUME NEW f \in Frame PROVE Read(f) \in Message /\ Head(f) = Read(f)
<1>1. f \in Seq(Message) /\ f # <<>>
  BY DEF Frame
<1> QED
  BY <1>1 DEF Read

LEMMA OneMessage == ASSUME NEW m \in Message PROVE <<m>> \in Frame /\ Read(<<m>>) = m
<1>1. <<m>> \in Seq(Message) /\ <<m>> # <<>> /\ <<m>>[1] = m
  OBVIOUS
<1> QED
  BY <1>1 DEF Frame, Read

\* A buffer that holds a message keeps it first.
LEMMA BufferedFirst ==
  ASSUME NEW b \in Seq(Message), NEW m \in Message
  PROVE  /\ Buffered(b, m) \in Seq(Message)
         /\ b # <<>> => Buffered(b, m)[1] = b[1]
         /\ b = <<>> => Buffered(b, m)[1] = m
<1>1. CASE b = <<>>
  <2>1. Len(b) = 0 /\ 0 < Capacity
    BY <1>1, DataBoundsAssumption
  <2>2. Buffered(b, m) = Append(b, m)
    BY <2>1 DEF Buffered
  <2>3. Append(b, m) \in Seq(Message) /\ Append(b, m)[Len(b) + 1] = m
    BY AppendFacts
  <2>4. Append(b, m)[1] = m
    <3>1. Len(b) + 1 = 1
      BY <2>1
    <3> QED
      BY <2>3, <3>1
  <2>5. Buffered(b, m) \in Seq(Message) /\ Buffered(b, m)[1] = m
    BY <2>2, <2>3, <2>4
  <2> QED
    BY <1>1, <2>5
<1>2. CASE b # <<>>
  <2>1. 1 \in 1..Len(b)
    BY <1>2
  <2> QED
    BY <1>2, <2>1, AppendFacts DEF Buffered
<1> QED
  BY <1>1, <1>2

\* An arrival is one element more, or none.
LEMMA SetOfOneOrNone ==
  /\ SetToSeq({}) = <<>>
  /\ \A a : SetToSeq({a}) = <<a>>
<1>1. SetToSeq({}) = <<>>
  <2>1. Cardinality({}) = 0
    BY FS_EmptySet
  <2>2. \A f \in [1..0 -> {}] : f = <<>>
    OBVIOUS
  <2>3. <<>> \in [1..0 -> {}] /\ IsInjective(<<>>)
    BY DEF IsInjective
  <2> QED
    BY <2>1, <2>2, <2>3 DEF SetToSeq
<1>2. ASSUME NEW a PROVE SetToSeq({a}) = <<a>>
  <2>1. Cardinality({a}) = 1
    BY FS_Singleton
  <2>2. \A f \in [1..1 -> {a}] : f = <<a>>
    OBVIOUS
  <2>3. <<a>> \in [1..1 -> {a}] /\ IsInjective(<<a>>)
    BY DEF IsInjective
  <2> QED
    BY <2>1, <2>2, <2>3 DEF SetToSeq
<1> QED
  BY <1>1, <1>2

-----------------------------------------------------------------------------
(* Up: what is written by the front end *)

\* The buffer is drained, or frames are lost.
LEMMA UpLost ==
  ASSUME DataType, UpOnce, UNCHANGED <<written, atBackend>>,
         buffer' \in {buffer, <<>>},
         \A k \in Sockets : upFrames'[k] \in {upFrames[k], <<>>}
  PROVE  UpOnce'
<1>1. \A k \in Sockets : \A i \in 1..Len(upFrames'[k]) : upFrames'[k] = upFrames[k] /\ i \in 1..Len(upFrames[k])
  OBVIOUS
<1>2. buffer' # <<>> => buffer' = buffer
  OBVIOUS
<1> QED
  BY <1>1, <1>2 DEF UpOnce, BackendReceivesOnce

\* A message with a new number is sent, or buffered.
LEMMA UpWritten ==
  ASSUME DataType, UpOnce, NEW k \in Sockets, NEW m \in Message,
         m.number = written["frontend"] + 1,
         written' = [written EXCEPT !["frontend"] = @ + 1],
         UNCHANGED atBackend,
         \/ upFrames' = [upFrames EXCEPT ![k] = Append(@, <<m>>)] /\ buffer' = buffer
         \/ buffer' = Buffered(buffer, m) /\ upFrames' = upFrames
  PROVE  UpOnce'
<1>1. written["frontend"] \in Nat /\ written'["frontend"] = written["frontend"] + 1
  BY DEF DataType, Ends
<1>2. /\ \A l \in Sockets : \A i \in 1..Len(upFrames[l]) : Read(upFrames[l][i]) \in Message
      /\ \A i \in 1..Len(atBackend) : atBackend[i].message \in Message
      /\ buffer # <<>> => buffer[1] \in Message
  <2>1. \A l \in Sockets : \A i \in 1..Len(upFrames[l]) : upFrames[l][i] \in Frame
    BY DEF DataType
  <2>2. \A i \in 1..Len(atBackend) : atBackend[i] \in Arrival
    BY DEF DataType
  <2>3. buffer # <<>> => buffer[1] \in Message
    BY DEF DataType
  <2> QED
    BY <2>1, <2>2, <2>3, ReadType DEF Arrival
<1>3. \A x \in Message : x.number \in Nat
  BY DEF Message
<1>4. CASE buffer' = Buffered(buffer, m) /\ upFrames' = upFrames
  <2>1. buffer' # <<>> => buffer'[1] = m \/ (buffer # <<>> /\ buffer'[1] = buffer[1])
    BY <1>4, BufferedFirst DEF DataType
  <2> QED
    BY <1>1, <1>2, <1>3, <1>4, <2>1 DEF UpOnce, BackendReceivesOnce
<1>5. CASE upFrames' = [upFrames EXCEPT ![k] = Append(@, <<m>>)] /\ buffer' = buffer
  <2>1. upFrames[k] \in Seq(Frame) /\ <<m>> \in Frame /\ Read(<<m>>) = m
    BY OneMessage DEF DataType
  <2>2. /\ \A l \in Sockets : l # k => upFrames'[l] = upFrames[l]
        /\ upFrames'[k] = Append(upFrames[k], <<m>>)
    BY <1>5 DEF DataType
  <2>3. \A l \in Sockets : \A i \in 1..Len(upFrames'[l]) :
          \/ i \in 1..Len(upFrames[l]) /\ upFrames'[l][i] = upFrames[l][i]
          \/ l = k /\ i = Len(upFrames[k]) + 1 /\ upFrames'[l][i] = <<m>>
    <3> DEFINE f == <<m>>
    <3>1. f \in Frame /\ upFrames'[k] = Append(upFrames[k], f)
      BY <2>1, <2>2
    <3> HIDE DEF f
    <3>2. /\ Len(upFrames'[k]) = Len(upFrames[k]) + 1 /\ Len(upFrames[k]) \in Nat
          /\ \A i \in 1..Len(upFrames[k]) : upFrames'[k][i] = upFrames[k][i]
          /\ upFrames'[k][Len(upFrames[k]) + 1] = f
      BY <2>1, <3>1, AppendFacts
    <3>3. \A l \in Sockets : \A i \in 1..Len(upFrames'[l]) :
            \/ i \in 1..Len(upFrames[l]) /\ upFrames'[l][i] = upFrames[l][i]
            \/ l = k /\ i = Len(upFrames[k]) + 1 /\ upFrames'[l][i] = f
      BY <2>2, <3>2
    <3> QED
      BY <3>3 DEF f
  <2>4. \A l \in Sockets : \A i \in 1..Len(upFrames[l]) : Read(upFrames[l][i]).number # m.number
    BY <1>1, <1>2, <1>3 DEF UpOnce
  <2>5. \A i \in 1..Len(atBackend) : atBackend[i].message.number # m.number
    BY <1>1, <1>2, <1>3 DEF UpOnce
  <2>6. buffer # <<>> => buffer[1].number # m.number
    BY <1>1, <1>2, <1>3 DEF UpOnce
  <2>7. ASSUME NEW l \in Sockets, NEW i \in 1..Len(upFrames'[l])
        PROVE  /\ Read(upFrames'[l][i]).number <= written'["frontend"]
               /\ buffer # <<>> => Read(upFrames'[l][i]).number # buffer[1].number
               /\ \A j \in 1..Len(atBackend) : atBackend[j].message.number # Read(upFrames'[l][i]).number
    <3>1. CASE i \in 1..Len(upFrames[l]) /\ upFrames'[l][i] = upFrames[l][i]
      BY <1>1, <1>2, <1>3, <3>1 DEF UpOnce
    <3>2. CASE upFrames'[l][i] = <<m>>
      BY <1>1, <2>1, <2>5, <2>6, <3>2
    <3> QED
      BY <2>3, <3>1, <3>2
  <2>8. ASSUME NEW l \in Sockets, NEW i \in 1..Len(upFrames'[l]),
               NEW q \in Sockets, NEW j \in 1..Len(upFrames'[q]), l # q \/ i # j
        PROVE  Read(upFrames'[l][i]).number # Read(upFrames'[q][j]).number
    <3>1. CASE /\ i \in 1..Len(upFrames[l]) /\ upFrames'[l][i] = upFrames[l][i]
               /\ j \in 1..Len(upFrames[q]) /\ upFrames'[q][j] = upFrames[q][j]
      BY <2>8, <3>1 DEF UpOnce
    <3>2. CASE /\ i \in 1..Len(upFrames[l]) /\ upFrames'[l][i] = upFrames[l][i]
               /\ upFrames'[q][j] = <<m>>
      BY <2>1, <2>4, <3>2
    <3>3. CASE /\ upFrames'[l][i] = <<m>>
               /\ j \in 1..Len(upFrames[q]) /\ upFrames'[q][j] = upFrames[q][j]
      BY <2>1, <2>4, <3>3
    <3> QED
      BY <2>3, <2>8, <3>1, <3>2, <3>3
  <2>9. buffer' # <<>> => buffer'[1].number <= written'["frontend"]
    BY <1>1, <1>2, <1>3, <1>5 DEF UpOnce
  <2>10. \A i \in 1..Len(atBackend) : atBackend[i].message.number <= written'["frontend"]
    BY <1>1, <1>2, <1>3 DEF UpOnce
  <2>11. \A i \in 1..Len(atBackend) : buffer # <<>> => atBackend[i].message.number # buffer[1].number
    BY DEF UpOnce
  <2> QED
    BY <1>5, <2>7, <2>8, <2>9, <2>10, <2>11 DEF UpOnce, BackendReceivesOnce
<1> QED
  BY <1>4, <1>5

\* What is buffered becomes a frame.
LEMMA UpFlushed ==
  ASSUME DataType, UpOnce, NEW k \in Sockets, UNCHANGED <<written, atBackend>>,
         upFrames' = [upFrames EXCEPT ![k] = Flushed(@, buffer)], buffer' = <<>>
  PROVE  UpOnce'
<1>1. CASE buffer = <<>>
  <2>1. upFrames' = upFrames
    BY <1>1 DEF Flushed, DataType
  <2> QED
    BY <2>1, UpLost
<1>2. CASE buffer # <<>>
  <2>1. buffer \in Frame /\ upFrames[k] \in Seq(Frame)
    BY <1>2 DEF Frame, DataType
  <2>2. /\ \A l \in Sockets : l # k => upFrames'[l] = upFrames[l]
        /\ upFrames'[k] = Append(upFrames[k], buffer)
    BY <1>2 DEF Flushed, DataType
  <2>3. \A l \in Sockets : \A i \in 1..Len(upFrames'[l]) :
          \/ i \in 1..Len(upFrames[l]) /\ upFrames'[l][i] = upFrames[l][i]
          \/ l = k /\ i = Len(upFrames[k]) + 1 /\ upFrames'[l][i] = buffer
    BY <2>1, <2>2, AppendFacts
  <2>4. Read(buffer) = buffer[1]
    BY DEF Read
  <2>5. ASSUME NEW l \in Sockets, NEW i \in 1..Len(upFrames'[l])
        PROVE  /\ Read(upFrames'[l][i]).number <= written["frontend"]
               /\ \A j \in 1..Len(atBackend) : atBackend[j].message.number # Read(upFrames'[l][i]).number
    BY <1>2, <2>3, <2>4 DEF UpOnce
  <2>6. ASSUME NEW l \in Sockets, NEW i \in 1..Len(upFrames'[l]),
               NEW q \in Sockets, NEW j \in 1..Len(upFrames'[q]), l # q \/ i # j
        PROVE  Read(upFrames'[l][i]).number # Read(upFrames'[q][j]).number
    <3>1. CASE /\ i \in 1..Len(upFrames[l]) /\ upFrames'[l][i] = upFrames[l][i]
               /\ j \in 1..Len(upFrames[q]) /\ upFrames'[q][j] = upFrames[q][j]
      BY <2>6, <3>1 DEF UpOnce
    <3>2. CASE /\ i \in 1..Len(upFrames[l]) /\ upFrames'[l][i] = upFrames[l][i]
               /\ upFrames'[q][j] = buffer
      BY <1>2, <2>4, <3>2 DEF UpOnce
    <3>3. CASE /\ upFrames'[l][i] = buffer
               /\ j \in 1..Len(upFrames[q]) /\ upFrames'[q][j] = upFrames[q][j]
      BY <1>2, <2>4, <3>3 DEF UpOnce
    <3> QED
      BY <2>3, <2>6, <3>1, <3>2, <3>3
  <2> QED
    BY <2>5, <2>6 DEF UpOnce, BackendReceivesOnce
<1> QED
  BY <1>1, <1>2

\* The first frame of a socket is received, or ignored.
LEMMA UpReceived ==
  ASSUME DataType, UpOnce, NEW k \in Sockets, upFrames[k] # <<>>, NEW x \in Nat,
         UNCHANGED <<written, buffer>>,
         upFrames' = [upFrames EXCEPT ![k] = Tail(@)],
         \/ atBackend' = atBackend
         \/ atBackend' = Append(atBackend, [message |-> Read(upFrames[k][1]), at |-> x])
  PROVE  UpOnce' /\ atBackend' \in Seq(Arrival) /\ upFrames' \in [Sockets -> Seq(Frame)]
<1> DEFINE a == [message |-> Read(upFrames[k][1]), at |-> x]
<1>1. upFrames[k] \in Seq(Frame) /\ atBackend \in Seq(Arrival)
  BY DEF DataType
<1>2. /\ Tail(upFrames[k]) \in Seq(Frame)
      /\ \A i \in 1..Len(Tail(upFrames[k])) : i + 1 \in 1..Len(upFrames[k]) /\ Tail(upFrames[k])[i] = upFrames[k][i + 1]
      /\ 1 \in 1..Len(upFrames[k]) /\ Head(upFrames[k]) = upFrames[k][1] /\ Head(upFrames[k]) \in Frame
  BY <1>1, TailFacts
<1>3. a \in Arrival /\ a.message = Read(upFrames[k][1])
  BY <1>2, ReadType DEF Arrival
<1>4. /\ \A l \in Sockets : l # k => upFrames'[l] = upFrames[l]
      /\ upFrames'[k] = Tail(upFrames[k])
      /\ upFrames' \in [Sockets -> Seq(Frame)]
  BY <1>2 DEF DataType
<1> HIDE DEF a
<1>5. atBackend' \in Seq(Arrival)
  BY <1>1, <1>3 DEF a
<1>6. \A l \in Sockets : \A i \in 1..Len(upFrames'[l]) :
        \/ l # k /\ i \in 1..Len(upFrames[l]) /\ upFrames'[l][i] = upFrames[l][i]
        \/ l = k /\ i + 1 \in 1..Len(upFrames[l]) /\ i + 1 # 1 /\ upFrames'[l][i] = upFrames[l][i + 1]
  BY <1>2, <1>4
<1>7. \A i \in 1..Len(atBackend') :
        \/ i \in 1..Len(atBackend) /\ atBackend'[i] = atBackend[i]
        \/ atBackend' # atBackend /\ i = Len(atBackend) + 1 /\ atBackend'[i] = a
  <2>1. CASE atBackend' = atBackend
    BY <2>1
  <2>2. CASE atBackend' = Append(atBackend, a) /\ atBackend' # atBackend
    BY <1>1, <1>3, <2>2, AppendFacts
  <2> QED
    BY <2>1, <2>2 DEF a
<1>8. /\ a.message.number <= written["frontend"]
      /\ buffer # <<>> => a.message.number # buffer[1].number
      /\ \A j \in 1..Len(atBackend) : atBackend[j].message.number # a.message.number
      /\ \A l \in Sockets : \A j \in 1..Len(upFrames[l]) :
           l # k \/ j # 1 => Read(upFrames[l][j]).number # a.message.number
  BY <1>2, <1>3 DEF UpOnce
<1>9. ASSUME NEW l \in Sockets, NEW i \in 1..Len(upFrames'[l])
      PROVE  \E j \in 1..Len(upFrames[l]) :
               /\ upFrames'[l][i] = upFrames[l][j]
               /\ l # k \/ j # 1
               /\ j = IF l = k THEN i + 1 ELSE i
  BY <1>6
<1>10. ASSUME NEW l \in Sockets, NEW i \in 1..Len(upFrames'[l])
       PROVE  /\ Read(upFrames'[l][i]).number <= written["frontend"]
              /\ buffer # <<>> => Read(upFrames'[l][i]).number # buffer[1].number
              /\ \A j \in 1..Len(atBackend') : atBackend'[j].message.number # Read(upFrames'[l][i]).number
              /\ \A q \in Sockets : \A j \in 1..Len(upFrames'[q]) :
                   l # q \/ i # j => Read(upFrames'[l][i]).number # Read(upFrames'[q][j]).number
  <2>1. PICK p \in 1..Len(upFrames[l]) :
          upFrames'[l][i] = upFrames[l][p] /\ (l # k \/ p # 1) /\ p = IF l = k THEN i + 1 ELSE i
    BY <1>9
  <2>2. /\ Read(upFrames[l][p]).number <= written["frontend"]
        /\ buffer # <<>> => Read(upFrames[l][p]).number # buffer[1].number
        /\ \A j \in 1..Len(atBackend) : atBackend[j].message.number # Read(upFrames[l][p]).number
    BY DEF UpOnce
  <2>3. \A j \in 1..Len(atBackend') : atBackend'[j].message.number # Read(upFrames[l][p]).number
    BY <1>7, <1>8, <2>1, <2>2
  <2>4. ASSUME NEW q \in Sockets, NEW j \in 1..Len(upFrames'[q]), l # q \/ i # j
        PROVE  Read(upFrames[l][p]).number # Read(upFrames'[q][j]).number
    <3>1. PICK r \in 1..Len(upFrames[q]) :
            upFrames'[q][j] = upFrames[q][r] /\ r = IF q = k THEN j + 1 ELSE j
      BY <1>9
    <3>2. l # q \/ p # r
      BY <2>1, <2>4, <3>1
    <3> QED
      BY <3>1, <3>2 DEF UpOnce
  <2> QED
    BY <2>1, <2>2, <2>3, <2>4
<1>11. \A i \in 1..Len(atBackend') :
         /\ atBackend'[i].message.number <= written["frontend"]
         /\ buffer # <<>> => atBackend'[i].message.number # buffer[1].number
  BY <1>7, <1>8 DEF UpOnce
<1>12. BackendReceivesOnce'
  BY <1>7, <1>8 DEF UpOnce, BackendReceivesOnce
<1>13. buffer # <<>> => buffer[1].number <= written["frontend"]
  BY DEF UpOnce
<1>14. UpOnce'
  BY <1>10, <1>11, <1>12, <1>13 DEF UpOnce
<1> QED
  BY <1>4, <1>5, <1>14

-----------------------------------------------------------------------------
(* Down: what is written by the contexts *)

\* The types of what the order is about.
LEMMA DownTypes ==
  ASSUME DataType
  PROVE  /\ \A k \in Sockets : \A i \in 1..Len(downFrames[k]) : Read(downFrames[k][i]).number \in Nat
         /\ \A i \in 1..Len(atFrontend) : atFrontend[i].message.number \in Nat
         /\ \A c \in Sockets : buffers[c] # <<>> => buffers[c][1].number \in Nat
         /\ written["backend"] \in Nat
<1>1. \A k \in Sockets : \A i \in 1..Len(downFrames[k]) : downFrames[k][i] \in Frame
  BY DEF DataType
<1>2. \A i \in 1..Len(atFrontend) : atFrontend[i] \in Arrival
  BY DEF DataType
<1>3. \A c \in Sockets : buffers[c] # <<>> => buffers[c][1] \in Message
  <2>1. \A c \in Sockets : buffers[c] \in Seq(Message)
    BY DEF DataType
  <2> QED
    BY <2>1
<1>4. \A m \in Message : m.number \in Nat
  BY DEF Message
<1> QED
  BY <1>1, <1>2, <1>3, <1>4, ReadType DEF Arrival, DataType, Ends

\* Frames are lost, or buffers.
LEMMA DownLost ==
  ASSUME DataType, DownOrder, UNCHANGED <<written, atFrontend>>,
         \A c \in Sockets : buffers'[c] \in {buffers[c], <<>>},
         \A k \in Sockets : downFrames'[k] \in {downFrames[k], <<>>}
  PROVE  DownOrder'
<1>1. \A k \in Sockets : \A i \in 1..Len(downFrames'[k]) :
        downFrames'[k] = downFrames[k] /\ i \in 1..Len(downFrames[k])
  OBVIOUS
<1>2. \A c \in Sockets : buffers'[c] # <<>> => buffers'[c] = buffers[c]
  OBVIOUS
<1> QED
  BY <1>1, <1>2 DEF DownOrder, FrontendReceivesInOrder, InOrder

\* A frame f of context d is put on socket k, after all that is known of that context.
LEMMA DownFrameAdded ==
  ASSUME DataType, DownOrder, NEW k \in Sockets, NEW d \in Sockets, NEW f \in Frame, NEW w \in Nat,
         written["backend"] <= w, written'["backend"] = w,
         Read(f).on = d, Read(f).number \in Nat, Read(f).number <= w,
         \A l \in Sockets : \A i \in 1..Len(downFrames[l]) :
           Read(downFrames[l][i]).on = d => Read(downFrames[l][i]).number < Read(f).number,
         \A i \in 1..Len(atFrontend) :
           atFrontend[i].message.on = d => atFrontend[i].message.number < Read(f).number,
         buffers'[d] = <<>>, \A c \in Sockets : c # d => buffers'[c] = buffers[c],
         UNCHANGED atFrontend,
         downFrames' = [downFrames EXCEPT ![k] = Append(@, f)]
  PROVE  DownOrder'
<1>1. downFrames[k] \in Seq(Frame)
  BY DEF DataType
<1>2. /\ \A l \in Sockets : l # k => downFrames'[l] = downFrames[l]
      /\ downFrames'[k] = Append(downFrames[k], f)
  BY DEF DataType
<1>3. \A l \in Sockets : \A i \in 1..Len(downFrames'[l]) :
        \/ i \in 1..Len(downFrames[l]) /\ downFrames'[l][i] = downFrames[l][i]
        \/ l = k /\ i = Len(downFrames[k]) + 1 /\ downFrames'[l][i] = f
  BY <1>1, <1>2, AppendFacts
<1>4. \A c \in Sockets : buffers'[c] # <<>> => c # d /\ buffers'[c] = buffers[c]
  OBVIOUS
<1>5. ASSUME NEW c \in Sockets, buffers'[c] # <<>>
      PROVE  /\ buffers'[c][1].on = c
             /\ buffers'[c][1].number <= written'["backend"]
             /\ \A l \in Sockets : \A i \in 1..Len(downFrames'[l]) :
                  Read(downFrames'[l][i]).on = c => Read(downFrames'[l][i]).number < buffers'[c][1].number
             /\ \A i \in 1..Len(atFrontend) :
                  atFrontend[i].message.on = c => atFrontend[i].message.number < buffers'[c][1].number
  <2>1. c # d /\ buffers'[c] = buffers[c]
    BY <1>4, <1>5
  <2>2. buffers[c][1].number <= w /\ buffers[c][1].on = c
    BY <1>5, <2>1, DownTypes DEF DownOrder
  <2>3. \A l \in Sockets : \A i \in 1..Len(downFrames'[l]) :
          Read(downFrames'[l][i]).on = c => Read(downFrames'[l][i]).number < buffers[c][1].number
    BY <1>3, <1>5, <2>1 DEF DownOrder
  <2> QED
    BY <1>5, <2>1, <2>2, <2>3 DEF DownOrder
<1>6. ASSUME NEW l \in Sockets, NEW i \in 1..Len(downFrames'[l])
      PROVE  /\ Read(downFrames'[l][i]).number <= w
             /\ \A j \in 1..Len(atFrontend) :
                  atFrontend[j].message.on = Read(downFrames'[l][i]).on =>
                    atFrontend[j].message.number < Read(downFrames'[l][i]).number
  <2>1. CASE i \in 1..Len(downFrames[l]) /\ downFrames'[l][i] = downFrames[l][i]
    BY <2>1, DownTypes DEF DownOrder
  <2>2. CASE downFrames'[l][i] = f
    BY <2>2
  <2> QED
    BY <1>3, <2>1, <2>2
<1>7. ASSUME NEW l \in Sockets, NEW i \in 1..Len(downFrames'[l]), NEW j \in 1..Len(downFrames'[l]),
             i < j, Read(downFrames'[l][j]).on = Read(downFrames'[l][i]).on
      PROVE  Read(downFrames'[l][i]).number < Read(downFrames'[l][j]).number
  <2>1. i \in 1..Len(downFrames[l]) /\ downFrames'[l][i] = downFrames[l][i]
    BY <1>1, <1>2, <1>3, <1>7, AppendFacts
  <2>2. CASE j \in 1..Len(downFrames[l]) /\ downFrames'[l][j] = downFrames[l][j]
    BY <1>7, <2>1, <2>2 DEF DownOrder
  <2>3. CASE downFrames'[l][j] = f
    BY <1>7, <2>1, <2>3
  <2> QED
    BY <1>3, <2>2, <2>3
<1>8. \A i \in 1..Len(atFrontend) : atFrontend[i].message.number <= w
  BY DownTypes DEF DownOrder
<1> QED
  BY <1>5, <1>6, <1>7, <1>8 DEF DownOrder, FrontendReceivesInOrder, InOrder

\* A message with a new number is put into the buffer of its context.
LEMMA DownBuffered ==
  ASSUME DataType, DownOrder, NEW d \in Sockets, NEW m \in Message,
         m.on = d, m.number = written["backend"] + 1, written'["backend"] = written["backend"] + 1,
         buffers' = [buffers EXCEPT ![d] = Buffered(@, m)],
         UNCHANGED <<atFrontend, downFrames>>
  PROVE  DownOrder'
<1>1. buffers[d] \in Seq(Message)
  BY DEF DataType
<1>2. /\ \A c \in Sockets : c # d => buffers'[c] = buffers[c]
      /\ buffers[d] # <<>> => buffers'[d][1] = buffers[d][1]
      /\ buffers[d] = <<>> => buffers'[d][1] = m
  BY <1>1, BufferedFirst DEF DataType
<1>3. ASSUME NEW c \in Sockets, buffers'[c] # <<>>
      PROVE  /\ buffers'[c][1].on = c
             /\ buffers'[c][1].number <= written'["backend"]
             /\ \A l \in Sockets : \A i \in 1..Len(downFrames[l]) :
                  Read(downFrames[l][i]).on = c => Read(downFrames[l][i]).number < buffers'[c][1].number
             /\ \A i \in 1..Len(atFrontend) :
                  atFrontend[i].message.on = c => atFrontend[i].message.number < buffers'[c][1].number
  <2>1. CASE buffers[c] # <<>> /\ buffers'[c][1] = buffers[c][1]
    BY <2>1, DownTypes DEF DownOrder
  <2>2. CASE c = d /\ buffers'[c][1] = m
    BY <2>2, DownTypes DEF DownOrder
  <2>3. CASE c = d
    BY <1>2, <2>1, <2>2, <2>3
  <2>4. CASE c # d
    <3>1. buffers'[c] = buffers[c]
      BY <1>2, <2>4
    <3> QED
      BY <1>3, <2>1, <3>1
  <2> QED
    BY <2>3, <2>4
<1>4. \A k \in Sockets : \A i \in 1..Len(downFrames[k]) : Read(downFrames[k][i]).number <= written'["backend"]
  <2>1. \A k \in Sockets : \A i \in 1..Len(downFrames[k]) : Read(downFrames[k][i]).number <= written["backend"]
    BY DEF DownOrder
  <2> QED
    BY <2>1, DownTypes
<1>5. \A i \in 1..Len(atFrontend) : atFrontend[i].message.number <= written'["backend"]
  BY DownTypes DEF DownOrder
<1> QED
  BY <1>3, <1>4, <1>5 DEF DownOrder, FrontendReceivesInOrder, InOrder

\* The first frame of the socket in use is received, or ignored.
LEMMA DownReceived ==
  ASSUME DataType, DownOrder, NEW k \in Sockets, downFrames[k] # <<>>, NEW x \in Nat,
         \A l \in Sockets : l # k => downFrames[l] = <<>>,
         UNCHANGED <<written, buffers>>,
         downFrames' = [downFrames EXCEPT ![k] = Tail(@)],
         \/ atFrontend' = atFrontend
         \/ atFrontend' = Append(atFrontend, [message |-> Read(downFrames[k][1]), at |-> x])
  PROVE  DownOrder' /\ atFrontend' \in Seq(Arrival) /\ downFrames' \in [Sockets -> Seq(Frame)]
<1> DEFINE a == [message |-> Read(downFrames[k][1]), at |-> x]
<1>1. downFrames[k] \in Seq(Frame) /\ atFrontend \in Seq(Arrival)
  BY DEF DataType
<1>2. /\ Tail(downFrames[k]) \in Seq(Frame)
      /\ \A i \in 1..Len(Tail(downFrames[k])) :
           i + 1 \in 1..Len(downFrames[k]) /\ Tail(downFrames[k])[i] = downFrames[k][i + 1]
      /\ 1 \in 1..Len(downFrames[k]) /\ Head(downFrames[k]) = downFrames[k][1] /\ Head(downFrames[k]) \in Frame
  BY <1>1, TailFacts
<1>3. a \in Arrival /\ a.message = Read(downFrames[k][1]) /\ a.message.number \in Nat
  BY <1>2, ReadType, DownTypes DEF Arrival
<1>4. /\ \A l \in Sockets : l # k => downFrames'[l] = <<>>
      /\ downFrames'[k] = Tail(downFrames[k])
      /\ downFrames' \in [Sockets -> Seq(Frame)]
  BY <1>2 DEF DataType
<1> HIDE DEF a
<1>5. atFrontend' \in Seq(Arrival)
  BY <1>1, <1>3 DEF a
<1>6. \A l \in Sockets : \A i \in 1..Len(downFrames'[l]) :
        l = k /\ i + 1 \in 1..Len(downFrames[k]) /\ 1 < i + 1 /\ downFrames'[l][i] = downFrames[k][i + 1]
  BY <1>2, <1>4
<1>7. \A i \in 1..Len(atFrontend') :
        \/ i \in 1..Len(atFrontend) /\ atFrontend'[i] = atFrontend[i]
        \/ i = Len(atFrontend) + 1 /\ Len(atFrontend) \in Nat /\ atFrontend'[i] = a
  <2>1. CASE atFrontend' = atFrontend
    BY <2>1
  <2>2. CASE atFrontend' = Append(atFrontend, a)
    BY <1>1, <1>3, <2>2, AppendFacts
  <2> QED
    BY <2>1, <2>2 DEF a
<1>8. /\ a.message.number <= written["backend"]
      /\ \A c \in Sockets : buffers[c] # <<>> /\ a.message.on = c => a.message.number < buffers[c][1].number
      /\ \A i \in 1..Len(downFrames[k]) :
           1 < i /\ Read(downFrames[k][i]).on = a.message.on => a.message.number < Read(downFrames[k][i]).number
      /\ \A j \in 1..Len(atFrontend) :
           atFrontend[j].message.on = a.message.on => atFrontend[j].message.number < a.message.number
  <2>1. \A i \in 1..Len(downFrames[k]) :
           1 < i /\ Read(downFrames[k][i]).on = a.message.on => a.message.number < Read(downFrames[k][i]).number
    BY <1>2, <1>3 DEF DownOrder
  <2>2. a.message.number <= written["backend"]
    BY <1>2, <1>3 DEF DownOrder
  <2>3. \A j \in 1..Len(atFrontend) :
           atFrontend[j].message.on = a.message.on => atFrontend[j].message.number < a.message.number
    BY <1>2, <1>3 DEF DownOrder
  <2>4. \A c \in Sockets : buffers[c] # <<>> /\ a.message.on = c => a.message.number < buffers[c][1].number
    BY <1>2, <1>3 DEF DownOrder
  <2> QED
    BY <2>1, <2>2, <2>3, <2>4
<1>9. ASSUME NEW c \in Sockets, buffers[c] # <<>>
      PROVE  /\ buffers[c][1].on = c
             /\ buffers[c][1].number <= written["backend"]
             /\ \A l \in Sockets : \A i \in 1..Len(downFrames'[l]) :
                  Read(downFrames'[l][i]).on = c => Read(downFrames'[l][i]).number < buffers[c][1].number
             /\ \A i \in 1..Len(atFrontend') :
                  atFrontend'[i].message.on = c => atFrontend'[i].message.number < buffers[c][1].number
  <2>1. \A l \in Sockets : \A i \in 1..Len(downFrames'[l]) :
          Read(downFrames'[l][i]).on = c => Read(downFrames'[l][i]).number < buffers[c][1].number
    <3>1. \A j \in 1..Len(downFrames[k]) :
            Read(downFrames[k][j]).on = c => Read(downFrames[k][j]).number < buffers[c][1].number
      BY <1>9 DEF DownOrder
    <3>2. ASSUME NEW l \in Sockets, NEW i \in 1..Len(downFrames'[l]), Read(downFrames'[l][i]).on = c
          PROVE  Read(downFrames'[l][i]).number < buffers[c][1].number
      <4>1. i + 1 \in 1..Len(downFrames[k]) /\ downFrames'[l][i] = downFrames[k][i + 1]
        BY <1>6
      <4>2. Read(downFrames[k][i + 1]).on = c
        BY <3>2, <4>1
      <4>3. Read(downFrames[k][i + 1]).number < buffers[c][1].number
        BY <3>1, <4>1, <4>2
      <4> QED
        BY <4>1, <4>3
    <3> QED
      BY <3>2
  <2>2. \A i \in 1..Len(atFrontend') :
          atFrontend'[i].message.on = c => atFrontend'[i].message.number < buffers[c][1].number
    BY <1>7, <1>8, <1>9 DEF DownOrder
  <2> QED
    BY <1>9, <2>1, <2>2 DEF DownOrder
<1>10. ASSUME NEW l \in Sockets, NEW i \in 1..Len(downFrames'[l])
       PROVE  /\ Read(downFrames'[l][i]).number <= written["backend"]
              /\ \A j \in 1..Len(downFrames'[l]) :
                   i < j /\ Read(downFrames'[l][j]).on = Read(downFrames'[l][i]).on =>
                     Read(downFrames'[l][i]).number < Read(downFrames'[l][j]).number
              /\ \A j \in 1..Len(atFrontend') :
                   atFrontend'[j].message.on = Read(downFrames'[l][i]).on =>
                     atFrontend'[j].message.number < Read(downFrames'[l][i]).number
  <2>1. l = k /\ i + 1 \in 1..Len(downFrames[k]) /\ 1 < i + 1 /\ downFrames'[l][i] = downFrames[k][i + 1]
    BY <1>6
  <2>2. Read(downFrames[k][i + 1]).number <= written["backend"]
    BY <2>1 DEF DownOrder
  <2>3. ASSUME NEW j \in 1..Len(downFrames'[l]), i < j,
               Read(downFrames'[l][j]).on = Read(downFrames[k][i + 1]).on
        PROVE  Read(downFrames[k][i + 1]).number < Read(downFrames'[l][j]).number
    <3>1. j + 1 \in 1..Len(downFrames[k]) /\ downFrames'[l][j] = downFrames[k][j + 1] /\ i + 1 < j + 1
      BY <1>6, <2>3
    <3>2. \A p, q \in 1..Len(downFrames[k]) :
            p < q /\ Read(downFrames[k][q]).on = Read(downFrames[k][p]).on =>
              Read(downFrames[k][p]).number < Read(downFrames[k][q]).number
      BY DEF DownOrder
    <3> QED
      BY <2>1, <2>3, <3>1, <3>2
  <2>4. \A j \in 1..Len(atFrontend') :
          atFrontend'[j].message.on = Read(downFrames[k][i + 1]).on =>
            atFrontend'[j].message.number < Read(downFrames[k][i + 1]).number
    BY <1>7, <1>8, <2>1 DEF DownOrder
  <2> QED
    BY <2>1, <2>2, <2>3, <2>4
<1>11. \A i \in 1..Len(atFrontend') : atFrontend'[i].message.number <= written["backend"]
  BY <1>7, <1>8 DEF DownOrder
<1>12. FrontendReceivesInOrder'
  <2>1. \A i, j \in 1..Len(atFrontend) :
          i < j /\ atFrontend[i].message.on = atFrontend[j].message.on =>
            atFrontend[i].message.number < atFrontend[j].message.number
    BY DEF DownOrder, FrontendReceivesInOrder, InOrder
  <2>2. \A i, j \in 1..Len(atFrontend') :
          i < j /\ atFrontend'[i].message.on = atFrontend'[j].message.on =>
            atFrontend'[i].message.number < atFrontend'[j].message.number
    BY <1>7, <1>8, <2>1
  <2> QED
    BY <2>2 DEF FrontendReceivesInOrder, InOrder
<1>13. DownOrder'
  BY <1>9, <1>10, <1>11, <1>12 DEF DownOrder
<1> QED
  BY <1>4, <1>5, <1>13

-----------------------------------------------------------------------------
(* Every step keeps what is said of the data *)

\* Nothing is done to what the front end has written, except that some of it may be lost.
LEMMA UpKept ==
  ASSUME IInv, DataType, UpOnce, UpContext,
         UNCHANGED <<written, atBackend, socket, currentChannel, overtaken, listening, watched>>,
         buffer' \in {buffer, <<>>},
         \A k \in Sockets : upFrames'[k] \in {upFrames[k], <<>>},
         upFrames' \in [Sockets -> Seq(Frame)],
         channelOpen' = channelOpen \/ (buffer' = <<>> /\ socket \notin listening)
  PROVE  UpOnce' /\ UpContext'
<1>1. UpOnce'
  BY UpLost
<1>2. \A k \in Sockets : \A i \in 1..Len(upFrames'[k]) : upFrames'[k] = upFrames[k] /\ i \in 1..Len(upFrames[k])
  OBVIOUS
<1>3. buffer' # <<>> => buffer' = buffer /\ channelOpen' = channelOpen
  OBVIOUS
<1>4. \A k \in Sockets : k > socket => upFrames'[k] = <<>>
  BY DEF UpContext
<1>5. ASSUME ~overtaken, NEW k \in Sockets, NEW i \in 1..Len(upFrames'[k]), ~Read(upFrames'[k][i]).late
      PROVE  /\ watched[k] \in {0, Read(upFrames'[k][i]).on}
             /\ k..socket \subseteq listening => channelOpen' /\ Read(upFrames'[k][i]).on = currentChannel
  <2>1. /\ watched[k] \in {0, Read(upFrames[k][i]).on}
        /\ k..socket \subseteq listening => channelOpen /\ Read(upFrames[k][i]).on = currentChannel
    BY <1>2, <1>5 DEF UpContext
  <2>2. k..socket \subseteq listening => socket \in listening
    <3>1. ~(k > socket)
      BY <1>2, <1>5 DEF UpContext
    <3> QED
      BY <3>1, MaxSocketsAssumption DEF IInv, StateType, Sockets
  <2> QED
    BY <1>2, <1>5, <2>1, <2>2
<1>6. buffer' # <<>> /\ ~buffer'[1].late => channelOpen' /\ buffer'[1].on = currentChannel
  BY <1>3 DEF UpContext
<1> QED
  BY <1>1, <1>4, <1>5, <1>6 DEF UpContext

\* A handshake gives socket k to context c, or to none.
LEMMA UpHandshake ==
  ASSUME IInv, DataInv, NEW k \in Sockets, k \in listening, NEW c \in Nat,
         UNCHANGED <<socket, currentChannel, channelOpen, buffer, upFrames, written, atBackend>>,
         listening' = listening \ {k}, watched' = [watched EXCEPT ![k] = c],
         ~overtaken' => ~overtaken /\ \A j \in k + 1..socket : j \in listening,
         ~overtaken' /\ c # 0 /\ channelOpen => c = currentChannel
  PROVE  UpOnce' /\ UpContext'
<1> USE DEF DataInv
<1>1. UpOnce'
  BY UpLost
<1>2. k \in k..socket /\ socket \in Nat /\ k \in Nat
  BY MaxSocketsAssumption DEF IInv, StateType, Sockets
<1>3. ASSUME ~overtaken', NEW l \in Sockets, NEW i \in 1..Len(upFrames[l]), ~Read(upFrames[l][i]).late
      PROVE  /\ watched'[l] \in {0, Read(upFrames[l][i]).on}
             /\ l..socket \subseteq listening' => channelOpen /\ Read(upFrames[l][i]).on = currentChannel
  <2>1. /\ watched[l] \in {0, Read(upFrames[l][i]).on}
        /\ l..socket \subseteq listening => channelOpen /\ Read(upFrames[l][i]).on = currentChannel
    BY <1>3 DEF UpContext
  <2>2. CASE l = k
    <3>1. k..socket \subseteq listening
      BY <1>2, <1>3
    <3>2. watched'[k] = c
      BY DEF IInv, StateType
    <3> QED
      BY <1>2, <1>3, <2>1, <2>2, <3>1, <3>2
  <2>3. CASE l # k
    BY <2>1, <2>3 DEF IInv, StateType
  <2> QED
    BY <2>2, <2>3
<1> QED
  BY <1>1, <1>3 DEF UpContext

\* Nothing is done to what the backend has written.
LEMMA DownKept ==
  ASSUME DownOrder, DownContext, UNCHANGED <<written, atFrontend, buffers, downFrames, socket, connected>>,
         socket \in Sockets => watched'[socket] = watched[socket],
         created' = created,
         \A c \in Sockets : attached'[c] \in {attached[c], 0}
  PROVE  DownOrder' /\ DownContext'
<1>1. DownOrder'
  BY DEF DownOrder, FrontendReceivesInOrder, InOrder
<1>2. DownContext'
  BY DEF DownContext, UsedByFrontend
<1> QED
  BY <1>1, <1>2

\* The front end leaves its socket, and with it what was on its way there.
LEMMA DownLeft ==
  ASSUME DataType, DownOrder, DownContext, socket \in Sockets,
         UNCHANGED <<written, atFrontend, buffers, socket, watched, created, attached>>,
         ~connected', downFrames' = [downFrames EXCEPT ![socket] = <<>>]
  PROVE  DownOrder' /\ DownContext' /\ downFrames' \in [Sockets -> Seq(Frame)]
<1>1. /\ downFrames' \in [Sockets -> Seq(Frame)]
      /\ \A k \in Sockets : downFrames'[k] = <<>>
  BY DEF DataType, DownContext, UsedByFrontend
<1>2. DownOrder'
  BY <1>1, DownLost
<1>3. DownContext'
  BY <1>1 DEF DownContext, UsedByFrontend
<1> QED
  BY <1>1, <1>2, <1>3

\* The front end's socket exists once it has connected.
LEMMA ConnectedSocket ==
  ASSUME IInv
  PROVE  /\ connected => socket \in Sockets
         /\ \A t : Answered(t) /\ socket \in Sockets => socket \notin listening
<1>1. connected => socket \in Sockets
  BY MaxSocketsAssumption DEF IInv, StateType, Sockets
<1>2. \A t : Answered(t) /\ socket \in Sockets => socket \notin listening
  BY DEF Answered, IInv, Links
<1> QED
  BY <1>1, <1>2

LEMMA LostWithTransportInv ==
  ASSUME IInv, DataInv, LostWithTransport
  PROVE  DataInv'
<1> USE DEF DataInv
<1>1. /\ connected /\ ~connected' /\ socket \in Sockets
      /\ UNCHANGED <<socket, currentChannel, channelOpen, listening, overtaken, watched, created, attached>>
      /\ UNCHANGED <<buffer, buffers, upFrames, written, atFrontend, atBackend>>
      /\ downFrames' = [downFrames EXCEPT ![socket] = <<>>]
  BY ConnectedSocket DEF LostWithTransport, TransportLost, contexts
<1>2. UpOnce' /\ UpContext'
  BY <1>1, UpKept DEF DataType
<1>3. DownOrder' /\ DownContext' /\ downFrames' \in [Sockets -> Seq(Frame)]
  BY <1>1, DownLeft
<1>4. DataType' /\ WhereMeant'
  BY <1>1, <1>3 DEF DataType, WhereMeant, ArrivedWhereMeant
<1> QED
  BY <1>2, <1>3, <1>4

LEMMA DrainAndRestartInv ==
  ASSUME IInv, DataInv, DrainAndRestart
  PROVE  DataInv'
<1> USE DEF DataInv
<1>1. /\ connected /\ ~connected' /\ socket \in Sockets /\ socket \notin listening
      /\ UNCHANGED <<socket, currentChannel, listening, overtaken, watched, created, attached>>
      /\ UNCHANGED <<buffers, upFrames, written, atFrontend, atBackend>>
      /\ buffer' = <<>>
      /\ downFrames' = [downFrames EXCEPT ![socket] = <<>>]
  BY ConnectedSocket DEF DrainAndRestart, ReconnectFailedRestart, Answered, contexts, AfterDrain
<1>2. UpOnce' /\ UpContext'
  BY <1>1, UpKept DEF DataType
<1>3. DownOrder' /\ DownContext' /\ downFrames' \in [Sockets -> Seq(Frame)]
  BY <1>1, DownLeft
<1>4. DataType' /\ WhereMeant'
  BY <1>1, <1>3 DEF DataType, WhereMeant, ArrivedWhereMeant
<1> QED
  BY <1>2, <1>3, <1>4

LEMMA DisconnectedAndLostInv ==
  ASSUME IInv, DataInv, NEW k \in Sockets, DisconnectedAndLost(k)
  PROVE  DataInv'
<1> USE DEF DataInv
<1>1. /\ UNCHANGED <<socket, connected, currentChannel, channelOpen, listening, overtaken, watched, created>>
      /\ UNCHANGED <<buffer, buffers, downFrames, written, atFrontend, atBackend>>
      /\ upFrames' = [upFrames EXCEPT ![k] = <<>>]
  BY DEF DisconnectedAndLost, SocketDisconnected, CloseConnection, frontend, contexts
<1>2. \A c \in Sockets : attached'[c] \in {attached[c], 0}
  BY DEF DisconnectedAndLost, SocketDisconnected, contexts, IInv, StateType
<1>3. /\ \A l \in Sockets : upFrames'[l] \in {upFrames[l], <<>>}
      /\ upFrames' \in [Sockets -> Seq(Frame)]
  BY <1>1 DEF DataType
<1>4. UpOnce' /\ UpContext'
  BY <1>1, <1>3, UpKept
<1>5. DownOrder' /\ DownContext'
  BY <1>1, <1>2, DownKept
<1>6. DataType' /\ WhereMeant'
  BY <1>1, <1>3 DEF DataType, WhereMeant, ArrivedWhereMeant
<1> QED
  BY <1>4, <1>5, <1>6

\* The steps of the connection that touch nothing the data is said to agree with.
LEMMA DataUntouchedInv ==
  ASSUME IInv, DataInv, UNCHANGED data,
         UNCHANGED <<socket, connected, currentChannel, channelOpen, listening, overtaken, watched, created>>,
         UNCHANGED attached
  PROVE  DataInv'
<1> USE DEF DataInv, data
<1>1. UpOnce' /\ UpContext'
  BY UpKept DEF DataType
<1>2. DownOrder' /\ DownContext'
  BY DownKept
<1>3. DataType' /\ WhereMeant'
  BY DEF DataType, WhereMeant, ArrivedWhereMeant
<1> QED
  BY <1>1, <1>2, <1>3

LEMMA ConnectInv ==
  ASSUME IInv, DataInv, Connect, UNCHANGED data
  PROVE  DataInv'
<1> USE DEF DataInv, data
<1>1. /\ socket' = socket + 1 /\ socket' \in Sockets /\ socket \in Nat /\ ~connected
      /\ listening' = listening \cup {socket'}
      /\ UNCHANGED <<currentChannel, channelOpen, overtaken, watched, created, attached>>
  BY MaxSocketsAssumption DEF Connect, contexts, IInv, StateType, Sockets
<1>2. upFrames[socket + 1] = <<>> /\ \A k \in Sockets : downFrames[k] = <<>>
  BY <1>1 DEF UpContext, DownContext, UsedByFrontend
<1>3. UpOnce'
  BY UpLost
<1>4. UpContext'
  <2>1. ASSUME NEW k \in Sockets, upFrames[k] # <<>>, k..socket' \subseteq listening'
        PROVE  k..socket \subseteq listening
    <3>1. k \in Nat /\ k <= socket
      BY <2>1, <1>1, MaxSocketsAssumption DEF UpContext, Sockets
    <3> QED
      BY <1>1, <2>1, <3>1
  <2>2. \A k \in Sockets : k > socket' => upFrames[k] = <<>>
    BY <1>1, MaxSocketsAssumption DEF UpContext, Sockets
  <2>3. \A k \in Sockets : \A i \in 1..Len(upFrames[k]) : upFrames[k] # <<>>
    OBVIOUS
  <2> QED
    BY <1>1, <2>1, <2>2, <2>3 DEF UpContext
<1>5. DownOrder' /\ DownContext'
  <2>1. DownOrder'
    BY DEF DownOrder, FrontendReceivesInOrder, InOrder
  <2>2. DownContext'
    BY <1>1, <1>2 DEF DownContext
  <2> QED
    BY <2>1, <2>2
<1>6. DataType' /\ WhereMeant'
  BY <1>1 DEF DataType, WhereMeant, ArrivedWhereMeant
<1> QED
  BY <1>3, <1>4, <1>5, <1>6

\* A socket that has not shaken hands carries nothing.
LEMMA NothingBeforeHandshake ==
  ASSUME IInv, DataInv, socket \in Sockets, watched[socket] = 0
  PROVE  Len(downFrames[socket]) = 0
<1>1. downFrames[socket] \in Seq(Frame)
  BY DEF DataInv, DataType
<1>2. \A i \in 1..Len(downFrames[socket]) : Read(downFrames[socket][i]).on # 0
  <2>1. \A m \in Message : m.on # 0
    BY DEF Message, Sockets
  <2>2. \A i \in 1..Len(downFrames[socket]) : downFrames[socket][i] \in Frame
    BY <1>1
  <2> QED
    BY <2>1, <2>2, ReadType
<1>3. \A i \in 1..Len(downFrames[socket]) : FALSE
  BY <1>2 DEF DataInv, DownContext
<1> QED
  BY <1>1, <1>3

LEMMA InitialConnectInv ==
  ASSUME IInv, DataInv, NEW k \in Sockets, HandleInitialConnect(k), UNCHANGED data
  PROVE  DataInv'
<1> USE DEF DataInv, data
<1>1. /\ k \in listening /\ Arrives(k, "INITIAL_CONNECT") /\ HandshakeHandled(k)
      /\ UNCHANGED <<socket, connected, currentChannel, channelOpen>>
      /\ created' = created + 1
      /\ attached' = [attached EXCEPT ![created + 1] = k]
      /\ watched' = [watched EXCEPT ![k] = created + 1]
  BY DEF HandleInitialConnect, Attach, frontend
<1>2. /\ k \in 1..socket /\ socket \in Sockets /\ watched[k] = 0
      /\ listening' = listening \ {k}
      /\ ~overtaken' => ~overtaken /\ \A j \in k + 1..socket : j \in listening
      /\ \E i \in 1..Len(up[k]) : up[k][i].type = "INITIAL_CONNECT"
  BY <1>1, HandshakeFacts
<1>3. created \in Nat /\ created + 1 \in Nat
  BY DEF IInv, StateType
<1>4. ~overtaken' => ~channelOpen
  BY <1>1, <1>2 DEF IInv, Waiting
<1>5. UpOnce' /\ UpContext'
  BY <1>1, <1>2, <1>3, <1>4, UpHandshake
<1>6. DownOrder'
  BY DEF DownOrder, FrontendReceivesInOrder, InOrder
<1>7. \A c \in Sockets : buffers[c] # <<>> => c <= created' /\ attached'[c] = 0
  <2>1. ASSUME NEW c \in Sockets, buffers[c] # <<>>
        PROVE  c <= created + 1 /\ c # created + 1 /\ attached[c] = 0
    BY <1>3, <2>1, MaxSocketsAssumption DEF DownContext, Sockets
  <2> QED
    BY <1>1, <2>1 DEF IInv, StateType
<1>8. DownContext'
  <2>1. \A i \in 1..Len(downFrames[socket]) : Read(downFrames[socket][i]).on = watched'[socket]
    <3>1. CASE k = socket
      BY <1>2, <3>1, NothingBeforeHandshake
    <3>2. CASE k # socket
      BY <1>1, <1>2, <3>2 DEF DownContext, IInv, StateType
    <3> QED
      BY <3>1, <3>2
  <2> QED
    BY <1>1, <1>7, <2>1 DEF DownContext, UsedByFrontend
<1>9. DataType' /\ WhereMeant'
  BY <1>2 DEF DataType, WhereMeant, ArrivedWhereMeant
<1> QED
  BY <1>5, <1>6, <1>8, <1>9

LEMMA ReconnectAndFlushInv ==
  ASSUME IInv, DataInv, NEW k \in Sockets, ReconnectAndFlush(k)
  PROVE  DataInv'
<1> USE DEF DataInv
<1>1. /\ k \in listening /\ Arrives(k, "RECONNECT") /\ HandshakeHandled(k)
      /\ UNCHANGED <<socket, connected, currentChannel, channelOpen, connection, created>>
      /\ UNCHANGED <<buffer, upFrames, written, atFrontend, atBackend>>
  BY DEF ReconnectAndFlush, HandleReconnect, frontend
<1>2. /\ k \in 1..socket /\ socket \in Sockets /\ watched[k] = 0
      /\ listening' = listening \ {k}
      /\ ~overtaken' => ~overtaken /\ \A j \in k + 1..socket : j \in listening
  BY <1>1, HandshakeFacts
<1>3. UpOnce' /\ UpContext'
  <2>1. watched' = [watched EXCEPT ![k] = connection]
    <3>1. CASE connection # 0
      BY <3>1 DEF ReconnectAndFlush, HandleReconnect, Attach
    <3>2. CASE connection = 0
      BY <1>2, <3>2 DEF ReconnectAndFlush, HandleReconnect, IInv, StateType
    <3> QED
      BY <3>1, <3>2
  <2>2. ~overtaken' /\ connection # 0 /\ channelOpen => connection = currentChannel
    BY <1>2 DEF IInv, Waiting, Agreement, StateType
  <2>3. connection \in Nat
    BY DEF IInv, StateType
  <2> QED
    BY <1>1, <1>2, <2>1, <2>2, <2>3, UpHandshake
<1>4. CASE connection = 0
  <2>1. UNCHANGED <<buffers, downFrames, attached, watched>>
    BY <1>4 DEF ReconnectAndFlush, HandleReconnect
  <2>2. DownOrder' /\ DownContext'
    BY <1>1, <2>1, DownKept
  <2>3. DataType' /\ WhereMeant'
    BY <1>1, <1>2, <2>1 DEF DataType, WhereMeant, ArrivedWhereMeant
  <2> QED
    BY <1>3, <2>2, <2>3
<1>5. CASE connection # 0
  <2> DEFINE d == connection
  <2>1. d \in Sockets
    <3>1. created + 1 \in Sockets
      BY <1>1, ContextNumber DEF IInv
    <3> QED
      BY <1>5, <3>1, MaxSocketsAssumption DEF IInv, StateType, Sockets
  <2>2. /\ buffers' = [buffers EXCEPT ![d] = <<>>]
        /\ downFrames' = IF UsedByFrontend(k)
                         THEN [downFrames EXCEPT ![k] = Flushed(@, buffers[d])]
                         ELSE downFrames
        /\ attached' = [attached EXCEPT ![d] = k]
        /\ watched' = [watched EXCEPT ![k] = d]
    BY <1>5 DEF ReconnectAndFlush, HandleReconnect, Attach, AfterFlush
  <2> HIDE DEF d
  <2>3. /\ buffers'[d] = <<>> /\ \A c \in Sockets : c # d => buffers'[c] = buffers[c]
        /\ buffers' \in [Sockets -> Seq(Message)]
    BY <2>1, <2>2 DEF DataType
  <2>4. \A c \in Sockets : buffers'[c] # <<>> => c <= created' /\ attached'[c] = 0
    BY <1>1, <2>1, <2>2, <2>3 DEF DownContext, IInv, StateType
  <2>5. /\ k = socket => watched'[socket] = d /\ Len(downFrames[socket]) = 0
        /\ k # socket => watched'[socket] = watched[socket]
    BY <1>2, <2>2, NothingBeforeHandshake DEF IInv, StateType
  <2>6. CASE downFrames' = downFrames
    <3>1. DownOrder'
      BY <1>1, <2>3, <2>6, DownLost
    <3>2. DownContext'
      BY <1>1, <1>2, <2>4, <2>5, <2>6 DEF DownContext, UsedByFrontend
    <3>3. DataType' /\ WhereMeant'
      BY <1>1, <1>2, <2>3, <2>6 DEF DataType, WhereMeant, ArrivedWhereMeant
    <3> QED
      BY <1>3, <3>1, <3>2, <3>3
  <2>7. CASE buffers[d] # <<>> /\ UsedByFrontend(k) /\ downFrames' = [downFrames EXCEPT ![k] = Append(@, buffers[d])]
    <3> DEFINE f == buffers[d]
    <3>1. f \in Frame /\ downFrames[k] \in Seq(Frame) /\ Read(f) = f[1]
      BY <2>1, <2>7 DEF DataType, Frame, Read
    <3>2. /\ f # <<>> /\ f[1].on = d /\ f[1].number <= written["backend"] /\ f[1].number \in Nat
          /\ written["backend"] \in Nat
          /\ \A l \in Sockets : \A i \in 1..Len(downFrames[l]) :
               Read(downFrames[l][i]).on = d => Read(downFrames[l][i]).number < f[1].number
          /\ \A i \in 1..Len(atFrontend) :
               atFrontend[i].message.on = d => atFrontend[i].message.number < f[1].number
      BY <2>1, <2>7, DownTypes DEF DownOrder
    <3>3. downFrames' = [downFrames EXCEPT ![k] = Append(@, f)] /\ UsedByFrontend(k) /\ k = socket
      BY <2>7 DEF UsedByFrontend
    <3> HIDE DEF f
    <3>4. DownOrder'
      <4>1. /\ written'["backend"] = written["backend"] /\ written["backend"] <= written["backend"]
            /\ atFrontend' = atFrontend
        BY <1>1, <3>2
      <4>2. /\ Read(f).on = d /\ Read(f).number \in Nat /\ Read(f).number <= written["backend"]
            /\ \A l \in Sockets : \A i \in 1..Len(downFrames[l]) :
                 Read(downFrames[l][i]).on = d => Read(downFrames[l][i]).number < Read(f).number
            /\ \A i \in 1..Len(atFrontend) :
                 atFrontend[i].message.on = d => atFrontend[i].message.number < Read(f).number
        BY <3>1, <3>2
      <4> QED
        BY <2>1, <2>3, <3>1, <3>2, <3>3, <4>1, <4>2, DownFrameAdded
    <3>5. /\ downFrames' \in [Sockets -> Seq(Frame)]
          /\ \A l \in Sockets : l # k => downFrames'[l] = downFrames[l]
          /\ \A i \in 1..Len(downFrames'[k]) :
               (i \in 1..Len(downFrames[k]) /\ downFrames'[k][i] = downFrames[k][i]) \/ downFrames'[k][i] = f
      <4>1. downFrames'[k] = Append(downFrames[k], f) /\ \A l \in Sockets : l # k => downFrames'[l] = downFrames[l]
        BY <3>3 DEF DataType
      <4>2. Append(downFrames[k], f) \in Seq(Frame)
        BY <3>1
      <4>3. downFrames' \in [Sockets -> Seq(Frame)]
        BY <3>3, <4>2 DEF DataType
      <4> QED
        BY <3>1, <4>1, <4>3, AppendFacts
    <3>6. \A i \in 1..Len(downFrames'[socket]) : Read(downFrames'[socket][i]).on = d
      BY <2>5, <3>1, <3>2, <3>3, <3>5
    <3>7. \A l \in Sockets : ~UsedByFrontend(l)' => downFrames'[l] = <<>>
      BY <1>1, <3>3, <3>5 DEF DownContext, UsedByFrontend
    <3>8. DownContext'
      BY <1>1, <2>4, <2>5, <3>3, <3>6, <3>7 DEF DownContext
    <3>9. DataType' /\ WhereMeant'
      BY <1>1, <1>2, <2>3, <3>5 DEF DataType, WhereMeant, ArrivedWhereMeant
    <3> QED
      BY <1>3, <3>4, <3>8, <3>9
  <2>8. \/ downFrames' = downFrames
        \/ buffers[d] # <<>> /\ UsedByFrontend(k) /\ downFrames' = [downFrames EXCEPT ![k] = Append(@, buffers[d])]
    <3>1. buffers[d] = <<>> => [downFrames EXCEPT ![k] = Flushed(@, buffers[d])] = downFrames
      BY DEF Flushed, DataType
    <3>2. buffers[d] # <<>> =>
            [downFrames EXCEPT ![k] = Flushed(@, buffers[d])] = [downFrames EXCEPT ![k] = Append(@, buffers[d])]
      BY DEF Flushed
    <3> QED
      BY <2>2, <3>1, <3>2
  <2> QED
    BY <2>6, <2>7, <2>8
<1> QED
  BY <1>4, <1>5

\* A frame that the front end puts on its socket is for the context of its open channel,
\* or late.
LEMMA UpFrameAdded ==
  ASSUME IInv, DataType, UpContext, NEW f \in Frame, socket \in Sockets,
         UNCHANGED <<socket, currentChannel, channelOpen, listening, overtaken, watched>>,
         buffer' \in {buffer, <<>>},
         ~Read(f).late => channelOpen /\ Read(f).on = currentChannel,
         upFrames' = [upFrames EXCEPT ![socket] = Append(@, f)]
  PROVE  UpContext' /\ upFrames' \in [Sockets -> Seq(Frame)]
<1>1. upFrames[socket] \in Seq(Frame)
  BY DEF DataType
<1>2. /\ \A l \in Sockets : l # socket => upFrames'[l] = upFrames[l]
      /\ upFrames'[socket] = Append(upFrames[socket], f)
  BY DEF DataType
<1>3. Append(upFrames[socket], f) \in Seq(Frame)
  BY <1>1
<1>4. upFrames' \in [Sockets -> Seq(Frame)]
  BY <1>3 DEF DataType
<1>5. \A i \in 1..Len(upFrames'[socket]) :
        (i \in 1..Len(upFrames[socket]) /\ upFrames'[socket][i] = upFrames[socket][i]) \/ upFrames'[socket][i] = f
  BY <1>1, <1>2, AppendFacts
<1>6. ~overtaken /\ ~Read(f).late => watched[socket] \in {0, Read(f).on}
  BY DEF IInv, Agreement
<1>7. ASSUME ~overtaken, NEW k \in Sockets, NEW i \in 1..Len(upFrames'[k]), ~Read(upFrames'[k][i]).late
      PROVE  /\ watched[k] \in {0, Read(upFrames'[k][i]).on}
             /\ k..socket \subseteq listening => channelOpen /\ Read(upFrames'[k][i]).on = currentChannel
  <2>1. CASE k # socket
    BY <1>2, <1>7, <2>1 DEF UpContext
  <2>2. CASE k = socket /\ i \in 1..Len(upFrames[k]) /\ upFrames'[k][i] = upFrames[k][i]
    <3>1. i \in 1..Len(upFrames[k]) /\ ~Read(upFrames[k][i]).late
      BY <1>7, <2>2
    <3>2. /\ watched[k] \in {0, Read(upFrames[k][i]).on}
          /\ k..socket \subseteq listening => channelOpen /\ Read(upFrames[k][i]).on = currentChannel
      BY <1>7, <3>1 DEF UpContext
    <3> QED
      BY <2>2, <3>2
  <2>3. CASE k = socket /\ upFrames'[k][i] = f
    BY <1>6, <1>7, <2>3
  <2> QED
    BY <1>5, <2>1, <2>2, <2>3
<1>8. \A k \in Sockets : k > socket => upFrames'[k] = <<>>
  BY <1>2 DEF UpContext, IInv, StateType
<1>9. buffer' # <<>> /\ ~buffer'[1].late => channelOpen /\ buffer'[1].on = currentChannel
  BY DEF UpContext
<1> QED
  BY <1>4, <1>7, <1>8, <1>9 DEF UpContext

LEMMA NewChannelInv ==
  ASSUME IInv, DataInv, NewChannel
  PROVE  DataInv'
<1> USE DEF DataInv
<1>1. /\ socket \in Sockets /\ socket \notin listening
      /\ UNCHANGED <<socket, connected, listening, overtaken, watched, created, attached>>
      /\ UNCHANGED <<buffers, upFrames, downFrames, written, atFrontend, atBackend>>
      /\ \/ buffer' = <<>>
         \/ UNCHANGED <<buffer, currentChannel, channelOpen>>
  BY ConnectedSocket DEF NewChannel, InitialConnectReceived, Answered, contexts, AfterDrain
<1>2. UpOnce'
  BY <1>1, UpLost
<1>3. UpContext'
  <2>1. CASE UNCHANGED <<buffer, currentChannel, channelOpen>>
    BY <1>1, <2>1 DEF UpContext
  <2>2. CASE buffer' = <<>>
    <3>1. ASSUME NEW k \in Sockets, upFrames[k] # <<>>
          PROVE  ~(k..socket \subseteq listening)
      <4>1. ~(k > socket) /\ k \in Nat /\ socket \in Nat
        BY <1>1, <3>1, MaxSocketsAssumption DEF UpContext, Sockets
      <4> QED
        BY <1>1, <4>1
    <3>2. \A k \in Sockets : \A i \in 1..Len(upFrames[k]) : upFrames[k] # <<>>
      OBVIOUS
    <3> QED
      BY <1>1, <2>2, <3>1, <3>2 DEF UpContext
  <2> QED
    BY <1>1, <2>1, <2>2
<1>4. DownOrder' /\ DownContext'
  BY <1>1, DownKept
<1>5. buffer' \in Seq(Message)
  <2>1. <<>> \in Seq(Message)
    OBVIOUS
  <2>2. buffer \in Seq(Message)
    BY DEF DataType
  <2>3. buffer' = <<>> \/ buffer' = buffer
    BY <1>1
  <2> QED
    BY <2>1, <2>2, <2>3
<1>6. DataType' /\ WhereMeant'
  BY <1>1, <1>5 DEF DataType, WhereMeant, ArrivedWhereMeant
<1> QED
  BY <1>2, <1>3, <1>4, <1>6

LEMMA FlushAfterReconnectInv ==
  ASSUME IInv, DataInv, FlushAfterReconnect
  PROVE  DataInv'
<1> USE DEF DataInv
<1>1. /\ socket \in Sockets
      /\ UNCHANGED <<socket, connected, currentChannel, channelOpen, listening, overtaken, watched, created, attached>>
      /\ UNCHANGED <<buffers, downFrames, written, atFrontend, atBackend>>
      /\ \/ UNCHANGED <<buffer, upFrames>>
         \/ buffer' = <<>> /\ upFrames' = [upFrames EXCEPT ![socket] = Flushed(@, buffer)]
  BY ConnectedSocket DEF FlushAfterReconnect, ReconnectSucceeded, Answered, contexts, AfterFlush
<1>2. DownOrder' /\ DownContext'
  BY <1>1, DownKept
<1>3. CASE UNCHANGED upFrames /\ buffer' \in {buffer, <<>>}
  <2>1. UpOnce' /\ UpContext'
    BY <1>1, <1>3, UpKept DEF DataType
  <2>2. buffer' \in Seq(Message)
    <3>1. <<>> \in Seq(Message)
      OBVIOUS
    <3>2. buffer \in Seq(Message)
      BY DEF DataType
    <3> QED
      BY <1>3, <3>1, <3>2
  <2>3. DataType' /\ WhereMeant'
    BY <1>1, <1>3, <2>2 DEF DataType, WhereMeant, ArrivedWhereMeant
  <2> QED
    BY <1>2, <2>1, <2>3
<1>4. CASE buffer # <<>> /\ buffer' = <<>> /\ upFrames' = [upFrames EXCEPT ![socket] = Flushed(@, buffer)]
  <2>1. UpOnce'
    BY <1>1, <1>4, UpFlushed
  <2>2. buffer \in Frame /\ Read(buffer) = buffer[1]
    BY <1>4 DEF DataType, Frame, Read
  <2>3. upFrames' = [upFrames EXCEPT ![socket] = Append(@, buffer)]
    BY <1>4 DEF Flushed
  <2>4. ~Read(buffer).late => channelOpen /\ Read(buffer).on = currentChannel
    BY <1>4, <2>2 DEF UpContext
  <2>5. UpContext' /\ upFrames' \in [Sockets -> Seq(Frame)]
    BY <1>1, <1>4, <2>2, <2>3, <2>4, UpFrameAdded
  <2>6. DataType' /\ WhereMeant'
    BY <1>1, <1>4, <2>5 DEF DataType, WhereMeant, ArrivedWhereMeant
  <2> QED
    BY <1>2, <2>1, <2>5, <2>6
<1>5. buffer = <<>> => [upFrames EXCEPT ![socket] = Flushed(@, buffer)] = upFrames
  BY DEF Flushed, DataType
<1> QED
  BY <1>1, <1>3, <1>4, <1>5

LEMMA WriteAtFrontendInv ==
  ASSUME IInv, DataInv, NEW c \in Sockets, WriteAtFrontend(c)
  PROVE  DataInv'
<1> USE DEF DataInv
<1> DEFINE m == [on |-> c, number |-> written["frontend"] + 1, late |-> ~(channelOpen /\ c = currentChannel)]
<1>1. m \in Message
  BY DEF Message, DataType, Ends
<1>2. m.number = written["frontend"] + 1 /\ m.on = c /\ (~m.late => channelOpen /\ m.on = currentChannel)
  OBVIOUS
<1>3. /\ UNCHANGED <<socket, connected, currentChannel, channelOpen, listening, overtaken, watched, created, attached>>
      /\ UNCHANGED <<buffers, downFrames, atFrontend, atBackend>>
      /\ written' = [written EXCEPT !["frontend"] = @ + 1]
      /\ \/ connected /\ upFrames' = [upFrames EXCEPT ![socket] = Append(@, <<m>>)] /\ buffer' = buffer
         \/ buffer' = Buffered(buffer, m) /\ upFrames' = upFrames
  BY DEF WriteAtFrontend, vars, frontend, contexts
<1> HIDE DEF m
<1>4. written' \in [Ends -> Nat] /\ written'["backend"] = written["backend"]
  BY <1>3 DEF DataType, Ends
<1>5. DownOrder' /\ DownContext'
  <2>1. DownOrder'
    BY <1>3, <1>4 DEF DownOrder, FrontendReceivesInOrder, InOrder
  <2>2. DownContext'
    BY <1>3 DEF DownContext, UsedByFrontend
  <2> QED
    BY <2>1, <2>2
<1>6. CASE connected /\ upFrames' = [upFrames EXCEPT ![socket] = Append(@, <<m>>)] /\ buffer' = buffer
  <2>1. socket \in Sockets
    BY <1>6, ConnectedSocket
  <2>2. UpOnce'
    BY <1>1, <1>2, <1>3, <1>6, <2>1, UpWritten
  <2>3. UpContext' /\ upFrames' \in [Sockets -> Seq(Frame)]
    BY <1>1, <1>2, <1>3, <1>6, <2>1, OneMessage, UpFrameAdded
  <2>4. DataType' /\ WhereMeant'
    BY <1>3, <1>4, <1>6, <2>3 DEF DataType, WhereMeant, ArrivedWhereMeant
  <2> QED
    BY <1>5, <2>2, <2>3, <2>4
<1>7. CASE buffer' = Buffered(buffer, m) /\ upFrames' = upFrames
  <2>2. PICK k : k \in Sockets
    OBVIOUS
  <2>3. UpOnce'
    BY <1>1, <1>2, <1>3, <1>7, <2>2, UpWritten
  <2>4. /\ Buffered(buffer, m) \in Seq(Message)
        /\ buffer # <<>> => Buffered(buffer, m)[1] = buffer[1]
        /\ buffer = <<>> => Buffered(buffer, m)[1] = m
    BY <1>1, BufferedFirst DEF DataType
  <2>5. buffer' # <<>> /\ ~buffer'[1].late => channelOpen /\ buffer'[1].on = currentChannel
    BY <1>2, <1>7, <2>4 DEF UpContext
  <2>6. UpContext'
    BY <1>3, <1>7, <2>5 DEF UpContext
  <2>7. DataType' /\ WhereMeant'
    BY <1>3, <1>4, <1>7, <2>4 DEF DataType, WhereMeant, ArrivedWhereMeant
  <2> QED
    BY <1>5, <2>3, <2>6, <2>7
<1> QED
  BY <1>3, <1>6, <1>7

LEMMA WriteAtBackendInv ==
  ASSUME IInv, DataInv, NEW c \in Sockets, WriteAtBackend(c)
  PROVE  DataInv'
<1> USE DEF DataInv
<1> DEFINE m == [on |-> c, number |-> written["backend"] + 1, late |-> c \in closed]
<1>1. m \in Message
  BY DEF Message, DataType, Ends
<1>2. m.number = written["backend"] + 1 /\ m.on = c /\ (~m.late => c \notin closed)
  OBVIOUS
<1>3. /\ UNCHANGED <<socket, connected, currentChannel, channelOpen, listening, overtaken, watched, created, attached>>
      /\ UNCHANGED <<buffer, upFrames, atFrontend, atBackend>>
      /\ c \in Contexts
      /\ written' = [written EXCEPT !["backend"] = @ + 1]
      /\ \/ /\ attached[c] # 0
            /\ downFrames' = IF UsedByFrontend(attached[c])
                             THEN [downFrames EXCEPT ![attached[c]] = Append(@, <<m>>)]
                             ELSE downFrames
            /\ UNCHANGED buffers
         \/ /\ attached[c] = 0
            /\ buffers' = [buffers EXCEPT ![c] = Buffered(@, m)]
            /\ UNCHANGED downFrames
  BY DEF WriteAtBackend, vars, frontend, contexts
<1> HIDE DEF m
<1>4. /\ written' \in [Ends -> Nat] /\ written'["frontend"] = written["frontend"]
      /\ written'["backend"] = written["backend"] + 1 /\ written["backend"] \in Nat
  BY <1>3 DEF DataType, Ends
<1>5. UpOnce' /\ UpContext'
  <2>1. UpOnce'
    BY <1>3, <1>4 DEF UpOnce, BackendReceivesOnce
  <2>2. UpContext'
    BY <1>3 DEF UpContext
  <2> QED
    BY <2>1, <2>2
<1>6. CASE attached[c] # 0 /\ UsedByFrontend(attached[c])
  <2>1. /\ attached[c] = socket /\ socket \in Sockets /\ UNCHANGED buffers
        /\ downFrames' = [downFrames EXCEPT ![socket] = Append(@, <<m>>)]
    BY <1>3, <1>6, ConnectedSocket DEF UsedByFrontend
  <2>2. buffers[c] = <<>> /\ downFrames[socket] \in Seq(Frame) /\ <<m>> \in Frame /\ Read(<<m>>) = m
    BY <1>1, <1>6, <2>1, OneMessage DEF DownContext, DataType
  <2> DEFINE f == <<m>>
             w == written["backend"] + 1
  <2>3. /\ f \in Frame /\ Read(f).on = c /\ Read(f).number = w /\ (~Read(f).late => c \notin closed)
        /\ downFrames' = [downFrames EXCEPT ![socket] = Append(@, f)]
    BY <1>2, <2>1, <2>2
  <2>4. /\ w \in Nat /\ written["backend"] <= w /\ written'["backend"] = w
        /\ Read(f).number \in Nat /\ Read(f).number <= w
    BY <1>4, <2>3
  <2>5. /\ \A l \in Sockets : \A i \in 1..Len(downFrames[l]) : Read(downFrames[l][i]).number < Read(f).number
        /\ \A i \in 1..Len(atFrontend) : atFrontend[i].message.number < Read(f).number
    <3>1. \A l \in Sockets : \A i \in 1..Len(downFrames[l]) : Read(downFrames[l][i]).number <= written["backend"]
      BY DEF DownOrder
    <3>2. \A i \in 1..Len(atFrontend) : atFrontend[i].message.number <= written["backend"]
      BY DEF DownOrder
    <3> QED
      BY <1>4, <2>3, <3>1, <3>2, DownTypes
  <2> HIDE DEF f, w
  <2>6. DownOrder'
    BY <1>3, <2>1, <2>2, <2>3, <2>4, <2>5, DownFrameAdded
  <2>7. /\ \A l \in Sockets : l # socket => downFrames'[l] = downFrames[l]
        /\ downFrames'[socket] = Append(downFrames[socket], f)
        /\ downFrames' \in [Sockets -> Seq(Frame)]
    <3>1. Append(downFrames[socket], f) \in Seq(Frame)
      BY <2>2, <2>3
    <3>2. downFrames' = [downFrames EXCEPT ![socket] = Append(@, f)] /\ socket \in Sockets
      BY <2>1, <2>3
    <3> QED
      BY <3>1, <3>2 DEF DataType
  <2>8. \A i \in 1..Len(downFrames'[socket]) :
          (i \in 1..Len(downFrames[socket]) /\ downFrames'[socket][i] = downFrames[socket][i])
            \/ downFrames'[socket][i] = f
    BY <2>2, <2>3, <2>7, AppendFacts
  <2>9. watched[socket] = c
    BY <2>1 DEF IInv, Links
  <2>10. DownContext'
    <3>1. \A i \in 1..Len(downFrames'[socket]) : Read(downFrames'[socket][i]).on = watched[socket]
      BY <2>1, <2>3, <2>8, <2>9 DEF DownContext
    <3>2. \A k \in Sockets : ~UsedByFrontend(k)' => downFrames'[k] = <<>>
      BY <1>3, <1>6, <2>1, <2>7 DEF DownContext, UsedByFrontend
    <3>3. \A d \in Sockets : buffers'[d] # <<>> => d <= created' /\ attached'[d] = 0
      BY <1>3, <2>1 DEF DownContext
    <3> QED
      BY <1>3, <3>1, <3>2, <3>3 DEF DownContext
  <2>11. DataType' /\ WhereMeant'
    BY <1>3, <1>4, <2>1, <2>7 DEF DataType, WhereMeant, ArrivedWhereMeant
  <2> QED
    BY <1>5, <2>6, <2>10, <2>11
<1>7. CASE UNCHANGED <<buffers, downFrames>>
  <2>1. DownOrder'
    <3>1. \A k \in Sockets : \A i \in 1..Len(downFrames[k]) : Read(downFrames[k][i]).number <= written["backend"]
      BY DEF DownOrder
    <3>2. \A i \in 1..Len(atFrontend) : atFrontend[i].message.number <= written["backend"]
      BY DEF DownOrder
    <3>3. \A d \in Sockets : buffers[d] # <<>> => buffers[d][1].number <= written["backend"]
      BY DEF DownOrder
    <3>4. /\ \A k \in Sockets : \A i \in 1..Len(downFrames[k]) : Read(downFrames[k][i]).number <= written'["backend"]
          /\ \A i \in 1..Len(atFrontend) : atFrontend[i].message.number <= written'["backend"]
          /\ \A d \in Sockets : buffers[d] # <<>> => buffers[d][1].number <= written'["backend"]
      BY <1>4, <3>1, <3>2, <3>3, DownTypes
    <3> QED
      BY <1>3, <1>7, <3>4 DEF DownOrder, FrontendReceivesInOrder, InOrder
  <2>2. DownContext'
    BY <1>3, <1>7 DEF DownContext, UsedByFrontend
  <2>3. DataType' /\ WhereMeant'
    BY <1>3, <1>4, <1>7 DEF DataType, WhereMeant, ArrivedWhereMeant
  <2> QED
    BY <1>5, <2>1, <2>2, <2>3
<1>8. CASE attached[c] = 0 /\ buffers' = [buffers EXCEPT ![c] = Buffered(@, m)] /\ UNCHANGED downFrames
  <2>1. DownOrder'
    BY <1>1, <1>2, <1>3, <1>4, <1>8, DownBuffered
  <2>2. Buffered(buffers[c], m) \in Seq(Message)
    BY <1>1, BufferedFirst DEF DataType
  <2>3. buffers' \in [Sockets -> Seq(Message)] /\ \A d \in Sockets : d # c => buffers'[d] = buffers[d]
    BY <1>8, <2>2 DEF DataType
  <2>4. c <= created
    BY <1>3 DEF Contexts, IInv, StateType
  <2>5. DownContext'
    BY <1>3, <1>8, <2>3, <2>4 DEF DownContext, UsedByFrontend
  <2>6. DataType' /\ WhereMeant'
    BY <1>3, <1>4, <1>8, <2>3 DEF DataType, WhereMeant, ArrivedWhereMeant
  <2> QED
    BY <1>5, <2>1, <2>5, <2>6
<1> QED
  BY <1>3, <1>6, <1>7, <1>8

\* A message of the open context reaches the channel that was made for it.
LEMMA FrameAtFrontendInv ==
  ASSUME IInv, DataInv, FrameAtFrontend
  PROVE  DataInv'
<1> USE DEF DataInv
<1>1. /\ connected /\ socket \in Sockets /\ downFrames[socket] # <<>>
      /\ UNCHANGED <<socket, connected, currentChannel, channelOpen, listening, overtaken, watched, created, attached>>
      /\ UNCHANGED <<buffer, buffers, upFrames, written, atBackend>>
      /\ downFrames' = [downFrames EXCEPT ![socket] = Tail(@)]
  BY ConnectedSocket DEF FrameAtFrontend, vars, frontend, contexts
<1> DEFINE r == Read(downFrames[socket][1])
<1>2. /\ downFrames[socket] \in Seq(Frame) /\ 1 \in 1..Len(downFrames[socket])
      /\ Head(downFrames[socket]) = downFrames[socket][1]
      /\ downFrames[socket][1] \in Frame /\ r \in Message
      /\ Head(Head(downFrames[socket])) = r
  BY <1>1, TailFacts, ReadType DEF DataType
<1>3. \/ atFrontend' = atFrontend
      \/ channelOpen /\ atFrontend' = Append(atFrontend, [message |-> r, at |-> currentChannel])
  BY <1>2 DEF FrameAtFrontend
<1>4. currentChannel \in Nat
  BY DEF IInv, StateType
<1>5. UpOnce' /\ UpContext'
  BY <1>1, UpKept DEF DataType
<1>6. \A l \in Sockets : l # socket => downFrames[l] = <<>>
  BY DEF DownContext, UsedByFrontend
<1>7. DownOrder' /\ atFrontend' \in Seq(Arrival) /\ downFrames' \in [Sockets -> Seq(Frame)]
  <2>1. CASE atFrontend' = atFrontend
    BY <1>1, <1>6, <2>1, DownReceived
  <2>2. CASE channelOpen /\ atFrontend' = Append(atFrontend, [message |-> r, at |-> currentChannel])
    BY <1>1, <1>4, <1>6, <2>2, DownReceived
  <2> QED
    BY <1>3, <2>1, <2>2
<1>8. DownContext'
  <2>1. \A i \in 1..Len(Tail(downFrames[socket])) :
          i + 1 \in 1..Len(downFrames[socket]) /\ Tail(downFrames[socket])[i] = downFrames[socket][i + 1]
    BY <1>1, <1>2, TailFacts
  <2>2. downFrames'[socket] = Tail(downFrames[socket]) /\ \A l \in Sockets : l # socket => downFrames'[l] = <<>>
    BY <1>1, <1>6 DEF DataType
  <2>3. \A i \in 1..Len(downFrames'[socket]) : Read(downFrames'[socket][i]).on = watched[socket]
    BY <1>1, <2>1, <2>2 DEF DownContext
  <2> QED
    BY <1>1, <2>2, <2>3 DEF DownContext, UsedByFrontend
<1>9. ~overtaken /\ channelOpen => currentChannel = r.on
  <2>1. r.on = watched[socket] /\ watched[socket] # 0
    BY <1>1, <1>2 DEF DownContext, Message, Sockets
  <2> QED
    BY <1>1, <2>1 DEF IInv, Agreement
<1>10. ~overtaken => ArrivedWhereMeant(atFrontend)'
  <2>1. CASE atFrontend' = atFrontend
    BY <2>1 DEF WhereMeant, ArrivedWhereMeant
  <2>2. CASE channelOpen /\ atFrontend' = Append(atFrontend, [message |-> r, at |-> currentChannel])
    <3> DEFINE a == [message |-> r, at |-> currentChannel]
    <3>1. atFrontend \in Seq(Arrival) /\ a \in Arrival /\ a.message = r /\ a.at = currentChannel
      BY <1>2, <1>4, <2>2 DEF DataType, Arrival
    <3>2. atFrontend' = Append(atFrontend, a)
      BY <2>2
    <3> HIDE DEF a, r
    <3>3. \A i \in 1..Len(atFrontend') :
            (i \in 1..Len(atFrontend) /\ atFrontend'[i] = atFrontend[i]) \/ atFrontend'[i] = a
      BY <3>1, <3>2, AppendFacts
    <3> QED
      BY <1>9, <2>2, <3>1, <3>3 DEF WhereMeant, ArrivedWhereMeant
  <2> QED
    BY <1>3, <2>1, <2>2
<1>11. DataType' /\ WhereMeant'
  BY <1>1, <1>7, <1>10 DEF DataType, WhereMeant, ArrivedWhereMeant
<1> QED
  BY <1>5, <1>7, <1>8, <1>11

\* A message of the open channel reaches the context it was made for, and no other.
LEMMA FrameAtBackendInv ==
  ASSUME IInv, DataInv, NEW k \in Sockets, FrameAtBackend(k)
  PROVE  DataInv'
<1> USE DEF DataInv
<1>1. /\ upFrames[k] # <<>>
      /\ UNCHANGED <<socket, connected, currentChannel, channelOpen, listening, overtaken, watched, created, attached>>
      /\ UNCHANGED <<buffer, buffers, downFrames, written, atFrontend>>
      /\ upFrames' = [upFrames EXCEPT ![k] = Tail(@)]
  BY DEF FrameAtBackend, vars, frontend, contexts
<1> DEFINE r == Read(upFrames[k][1])
           c == watched[k]
           a == [message |-> r, at |-> c]
<1>2. /\ upFrames[k] \in Seq(Frame) /\ 1 \in 1..Len(upFrames[k])
      /\ Head(upFrames[k]) = upFrames[k][1]
      /\ upFrames[k][1] \in Frame /\ r \in Message
      /\ Head(Head(upFrames[k])) = r
  BY <1>1, TailFacts, ReadType DEF DataType
<1>3. c \in Nat /\ atBackend \in Seq(Arrival) /\ a \in Arrival /\ a.message = r /\ a.at = c
  BY <1>2 DEF IInv, StateType, DataType, Arrival
<1>4. Listening(k) = {} \/ (Listening(k) = {c} /\ c # 0)
  <2>1. ASSUME NEW d \in Listening(k)
        PROVE  d = c /\ d # 0
    <3>1. d \in Nat /\ <<k, d>> \in dataListeners
      BY DEF Listening, Contexts, IInv, StateType
    <3> QED
      BY <3>1 DEF IInv, Links
  <2> QED
    BY <2>1
<1>5. \/ atBackend' = atBackend
      \/ c # 0 /\ atBackend' = Append(atBackend, a)
  <2> DEFINE arrivals == {[message |-> Head(Head(upFrames[k])), at |-> d] : d \in Listening(k)}
  <2>1. atBackend' = atBackend \o SetToSeq(arrivals)
    BY DEF FrameAtBackend
  <2>2. CASE Listening(k) = {}
    <3>1. arrivals = {}
      BY <2>2
    <3>2. atBackend' = atBackend \o <<>>
      BY <2>1, <3>1, SetOfOneOrNone
    <3> QED
      BY <1>3, <3>2
  <2>3. CASE Listening(k) = {c} /\ c # 0
    <3>1. arrivals = {a}
      BY <1>2, <2>3
    <3> HIDE DEF a, arrivals
    <3>2. atBackend' = atBackend \o <<a>>
      BY <2>1, <3>1, SetOfOneOrNone
    <3> QED
      BY <1>3, <2>3, <3>2
  <2> QED
    BY <1>4, <2>2, <2>3
<1>6. UpOnce' /\ atBackend' \in Seq(Arrival) /\ upFrames' \in [Sockets -> Seq(Frame)]
  BY <1>1, <1>3, <1>5, UpReceived
<1>7. UpContext'
  <2>1. \A i \in 1..Len(Tail(upFrames[k])) :
          i + 1 \in 1..Len(upFrames[k]) /\ Tail(upFrames[k])[i] = upFrames[k][i + 1]
    BY <1>1, <1>2, TailFacts
  <2>2. upFrames'[k] = Tail(upFrames[k]) /\ \A l \in Sockets : l # k => upFrames'[l] = upFrames[l]
    BY <1>1 DEF DataType
  <2>3. \A l \in Sockets : \A i \in 1..Len(upFrames'[l]) :
          \E j \in 1..Len(upFrames[l]) : upFrames'[l][i] = upFrames[l][j]
    BY <2>1, <2>2
  <2>4. ASSUME ~overtaken, NEW l \in Sockets, NEW i \in 1..Len(upFrames'[l]), ~Read(upFrames'[l][i]).late
        PROVE  /\ watched[l] \in {0, Read(upFrames'[l][i]).on}
               /\ l..socket \subseteq listening => channelOpen /\ Read(upFrames'[l][i]).on = currentChannel
    <3>1. PICK j \in 1..Len(upFrames[l]) : upFrames'[l][i] = upFrames[l][j]
      BY <2>3, <2>4
    <3> QED
      BY <2>4, <3>1 DEF UpContext
  <2>5. \A l \in Sockets : l > socket => upFrames'[l] = <<>>
    BY <1>1, <2>2 DEF UpContext
  <2> QED
    BY <1>1, <2>4, <2>5 DEF UpContext
<1>8. ~overtaken /\ c # 0 /\ ~r.late => c = r.on
  BY <1>2 DEF UpContext
<1>9. ~overtaken => ArrivedWhereMeant(atBackend)'
  <2> HIDE DEF a, r, c
  <2>1. CASE atBackend' = atBackend
    BY <2>1 DEF WhereMeant, ArrivedWhereMeant
  <2>2. CASE c # 0 /\ atBackend' = Append(atBackend, a)
    <3>1. \A i \in 1..Len(atBackend') :
            (i \in 1..Len(atBackend) /\ atBackend'[i] = atBackend[i]) \/ atBackend'[i] = a
      BY <1>3, <2>2, AppendFacts
    <3> QED
      BY <1>3, <1>8, <2>2, <3>1 DEF WhereMeant, ArrivedWhereMeant
  <2> QED
    BY <1>5, <2>1, <2>2
<1>10. DownOrder' /\ DownContext'
  BY <1>1, DownKept
<1>11. DataType' /\ WhereMeant'
  BY <1>1, <1>6, <1>9 DEF DataType, WhereMeant, ArrivedWhereMeant
<1> QED
  BY <1>6, <1>7, <1>10, <1>11

LEMMA DataNextInv ==
  ASSUME IInv, DataInv, [DataNext]_allVars
  PROVE  DataInv'
<1>1. CASE DataIsLeftAlone
  <2>1. UNCHANGED data
    BY <1>1 DEF DataIsLeftAlone
  <2>2. CASE Connect
    BY <2>1, <2>2, ConnectInv
  <2>3. ASSUME NEW k \in Sockets, HandleInitialConnect(k)
        PROVE  DataInv'
    BY <2>1, <2>3, InitialConnectInv
  <2>4. ASSUME \/ ReconnectFailedReload \/ AboutToClose
               \/ \E k \in Sockets : IgnoredHandshake(k) \/ HandleMarkForClose(k)
               \/ \E h \in timers : TimeoutElapses(h)
        PROVE  /\ UNCHANGED <<socket, connected, currentChannel, channelOpen, listening, overtaken, watched, created>>
               /\ UNCHANGED attached
    BY <2>4 DEF ReconnectFailedReload, AboutToClose, IgnoredHandshake, HandleMarkForClose, TimeoutElapses,
       CloseConnection, frontend, contexts
  <2> QED
    BY <1>1, <2>1, <2>2, <2>3, <2>4, DataUntouchedInv DEF DataIsLeftAlone
<1>2. CASE UNCHANGED allVars
  BY <1>2, DataUntouchedInv DEF allVars, vars, frontend, contexts
<1>3. ASSUME NEW k \in Sockets, ReconnectAndFlush(k) \/ DisconnectedAndLost(k) \/ FrameAtBackend(k)
      PROVE  DataInv'
  BY <1>3, ReconnectAndFlushInv, DisconnectedAndLostInv, FrameAtBackendInv
<1>4. ASSUME NEW c \in Sockets, WriteAtFrontend(c) \/ WriteAtBackend(c)
      PROVE  DataInv'
  BY <1>4, WriteAtFrontendInv, WriteAtBackendInv
<1> QED
  BY <1>1, <1>2, <1>3, <1>4, LostWithTransportInv, NewChannelInv, FlushAfterReconnectInv, DrainAndRestartInv,
     FrameAtFrontendInv DEF DataNext

LEMMA InitDataInv == Init /\ DataInit => DataInv
<1> SUFFICES ASSUME Init, DataInit PROVE DataInv
  OBVIOUS
<1>1. /\ <<>> \in Seq(Message) /\ <<>> \in Seq(Frame) /\ <<>> \in Seq(Arrival)
      /\ \A i \in 1..Len(<<>>) : FALSE
  OBVIOUS
<1>2. DataType
  BY <1>1 DEF DataInit, DataType
<1>3. \A k \in Sockets : upFrames[k] = <<>> /\ downFrames[k] = <<>> /\ buffers[k] = <<>>
  BY DEF DataInit
<1>4. buffer = <<>> /\ atBackend = <<>> /\ atFrontend = <<>>
  BY DEF DataInit
<1>5. UpOnce
  BY <1>1, <1>3, <1>4 DEF UpOnce, BackendReceivesOnce
<1>6. DownOrder
  BY <1>1, <1>3, <1>4 DEF DownOrder, FrontendReceivesInOrder, InOrder
<1>7. UpContext /\ DownContext
  BY <1>1, <1>3, <1>4 DEF UpContext, DownContext
<1>8. WhereMeant
  BY <1>1, <1>4 DEF WhereMeant, ArrivedWhereMeant
<1> QED
  BY <1>2, <1>5, <1>6, <1>7, <1>8 DEF DataInv

\* The steps with data are steps of the connection, or leave it as it is.
LEMMA DataSteps == [DataNext]_allVars => [Next]_vars
<1>1. DataIsLeftAlone => Next
  BY DEF DataIsLeftAlone, Next, BackendReceives, FrontendReceives
<1>2. \A k \in Sockets : ReconnectAndFlush(k) \/ DisconnectedAndLost(k) => Next
  BY DEF ReconnectAndFlush, DisconnectedAndLost, Next, BackendReceives
<1>3. LostWithTransport \/ NewChannel \/ FlushAfterReconnect \/ DrainAndRestart => Next
  BY DEF LostWithTransport, NewChannel, FlushAfterReconnect, DrainAndRestart, Next, FrontendReceives
<1>4. \A c \in Sockets : WriteAtFrontend(c) \/ WriteAtBackend(c) \/ FrameAtBackend(c) => UNCHANGED vars
  BY DEF WriteAtFrontend, WriteAtBackend, FrameAtBackend
<1>5. FrameAtFrontend => UNCHANGED vars
  BY DEF FrameAtFrontend
<1>6. UNCHANGED allVars => UNCHANGED vars
  BY DEF allVars
<1> QED
  BY <1>1, <1>2, <1>3, <1>4, <1>5, <1>6 DEF DataNext

\* The main channel is a main connection.
LEMMA DataSpecImpliesSpec == DataSpec => Spec
  BY DataSteps, PTL DEF DataSpec, Spec

LEMMA DataInvAlways == DataSpec => []DataInv
<1>1. IInv /\ DataInv /\ [DataNext]_allVars => DataInv'
  BY DataNextInv
<1> QED
  BY <1>1, InitDataInv, DataSpecImpliesSpec, IInvAlways, PTL DEF DataSpec

\* What a context writes arrives at the front end in the order in which it was written, and
\* at most once, whatever was buffered, flushed, drained or lost with a socket.
THEOREM FrontendReceivesInOrderAlways ==
  DataSpec => []FrontendReceivesInOrder
<1>1. DataInv => FrontendReceivesInOrder
  BY DEF DataInv, DownOrder
<1> QED
  BY <1>1, DataInvAlways, PTL

\* Nothing that the front end writes arrives twice at the backend, whatever was sent, or
\* buffered and flushed, on whichever socket.
THEOREM BackendReceivesOnceAlways ==
  DataSpec => []BackendReceivesOnce
<1>1. DataInv => BackendReceivesOnce
  BY DEF DataInv, UpOnce
<1> QED
  BY <1>1, DataInvAlways, PTL

\* What is written on an open channel is handled by the context that channel belongs to,
\* and the other way round, also when it was buffered over the end of a context.
THEOREM OpenChannelsReachTheirContextAlways ==
  DataSpec => []OpenChannelsReachTheirContext
<1>1. DataInv => OpenChannelsReachTheirContext
  <2> SUFFICES ASSUME DataInv, ~overtaken, NEW a \in Range(atBackend) \cup Range(atFrontend), ~a.message.late
               PROVE  a.at = a.message.on
    BY DEF OpenChannelsReachTheirContext
  <2>1. atBackend \in Seq(Arrival) /\ atFrontend \in Seq(Arrival)
    BY DEF DataInv, DataType
  <2>2. \/ \E i \in 1..Len(atBackend) : a = atBackend[i]
        \/ \E i \in 1..Len(atFrontend) : a = atFrontend[i]
    BY <2>1 DEF Range
  <2> QED
    BY <2>2 DEF DataInv, WhereMeant, ArrivedWhereMeant
<1> QED
  BY <1>1, DataInvAlways, PTL
=============================================================================
