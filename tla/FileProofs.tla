----------------------------- MODULE FileProofs -----------------------------
(***************************************************************************)
(* Proofs about RemoteFileSystem, for any number of watches, of reads and  *)
(* of lives of the channel, and about FileResource, for any calls, sizes   *)
(* and writes, by the editor and by others.                                *)
(***************************************************************************)
EXTENDS RemoteFileSystem, FileResource, FiniteSetTheorems, TLAPS

-----------------------------------------------------------------------------
(* RemoteFileSystem: the inductive invariant *)

Calls == [call : {"watch", "unwatch", "readFileStream"}, of : Nat]

Messages ==
  [type : {"handle", "data"}, of : Nat, handle : Nat]
    \cup [type : {"end"}, how : {"ended", "failed"}, handle : Nat]

Streams == [of : Nat, sent : Nat, over : BOOLEAN]

Readings ==
  [state : {"asked", "reading", "ended", "failed", "cancelled"}, life : Nat, handle : Nat, got : Seq(Nat)]

TypeOK ==
  /\ life \in Nat
  /\ connected \in BOOLEAN
  /\ waiting \in Seq(Calls)
  /\ toServer \in Seq(Calls)
  /\ toClient \in Seq(Messages)
  /\ watcherSequence \in Nat
  /\ watchOptions \subseteq 1..watcherSequence
  /\ reads \in Seq(Readings)
  /\ watchers \subseteq Nat
  /\ serving \in Seq(Streams)

\* Nothing waits for a connection that there is, nothing is on its way without one.
ConnectionInv ==
  /\ connected => life > 0 /\ waiting = <<>>
  /\ ~connected => toServer = <<>> /\ toClient = <<>> /\ watchers = {} /\ serving = <<>>

NoUnwatch(calls, id) == \A j \in 1..Len(calls) : calls[j] # Unwatch(id)

\* The last of the calls about the watch id makes it.
MadeBy(calls, id) ==
  \E i \in 1..Len(calls) : calls[i] = Watch(id) /\ \A j \in 1..Len(calls) : i < j => calls[j] # Unwatch(id)

\* A server with the watches made has the watch id when it has handled the calls.
MadeAfter(made, calls, id) == MadeBy(calls, id) \/ (id \in made /\ NoUnwatch(calls, id))

\* The calls on their way bring the server to the watches that are wanted.  Those that
\* wait do so before the first connection; later ones need not, but make no other watch.
WatchInv ==
  \A id \in Nat :
    /\ connected => (id \in watchOptions <=> MadeAfter(watchers, toServer, id))
    /\ ~connected /\ life = 0 => (id \in watchOptions <=> MadeBy(waiting, id))
    /\ MadeBy(waiting, id) => id \in watchOptions

\* The pieces for handle h among messages.
PendingIn(messages, h) == {i \in 1..Len(messages) : messages[i].type = "data" /\ messages[i].handle = h}

Pending(messages, h) == Cardinality(PendingIn(messages, h))

\* A message is about a stream of this life, as that stream is: its number comes before
\* all its pieces, its end after them.
MessageInv ==
  /\ \A i \in 1..Len(toClient) :
       /\ toClient[i].handle + 1 \in 1..Len(serving)
       /\ toClient[i].type \in {"handle", "data"} => toClient[i].of = serving[toClient[i].handle + 1].of
       /\ toClient[i].type = "end" => serving[toClient[i].handle + 1].over
       /\ toClient[i].type = "end" /\ toClient[i].how = "ended" => serving[toClient[i].handle + 1].sent = Pieces
       /\ toClient[i].type = "handle" =>
            Pending(toClient, toClient[i].handle) = serving[toClient[i].handle + 1].sent
  /\ \A i, j \in 1..Len(toClient) :
       i < j /\ toClient[i].handle = toClient[j].handle => toClient[i].type # "end" /\ toClient[j].type # "handle"

\* What the stream of read r has got, when it listens in this life or ended in it.
GotInv(r) ==
  /\ reads[r].life <= life
  /\ reads[r].state = "asked" => reads[r].got = <<>>
  /\ reads[r].life = life /\ reads[r].state \in {"reading", "ended"} =>
       \A n \in 1..Len(reads[r].got) : reads[r].got[n] = r
  /\ reads[r].life = life /\ reads[r].state = "ended" => Len(reads[r].got) = Pieces

\* A stream that listens has what was sent of its file but for what is on its way.
ListensInv(r) ==
  connected /\ reads[r].life = life /\ reads[r].state = "reading" =>
    /\ reads[r].handle + 1 \in 1..Len(serving)
    /\ serving[reads[r].handle + 1].of = r
    /\ Len(reads[r].got) + Pending(toClient, reads[r].handle) = serving[reads[r].handle + 1].sent
    /\ \A i \in 1..Len(toClient) : toClient[i].type = "handle" => toClient[i].handle # reads[r].handle

ReadInv == \A r \in 1..Len(reads) : GotInv(r) /\ ListensInv(r)

-----------------------------------------------------------------------------
(* Sequences of calls *)

LEMMA ConcatFacts ==
  ASSUME NEW S, NEW s \in Seq(S), NEW t \in Seq(S)
  PROVE  /\ s \o t \in Seq(S)
         /\ Len(s \o t) = Len(s) + Len(t)
         /\ \A i \in 1..Len(s) : (s \o t)[i] = s[i]
         /\ \A i \in 1..Len(t) : (s \o t)[Len(s) + i] = t[i]
  OBVIOUS

LEMMA AppendFacts ==
  ASSUME NEW S, NEW s \in Seq(S), NEW e \in S
  PROVE  /\ Append(s, e) \in Seq(S)
         /\ Append(s, e) = s \o <<e>>
         /\ Len(Append(s, e)) = Len(s) + 1
         /\ \A i \in 1..Len(s) : Append(s, e)[i] = s[i]
         /\ Append(s, e)[Len(s) + 1] = e
  OBVIOUS

LEMMA TailFacts ==
  ASSUME NEW S, NEW s \in Seq(S), s # <<>>
  PROVE  /\ Head(s) \in S /\ Head(s) = s[1] /\ 1 \in 1..Len(s)
         /\ Tail(s) \in Seq(S)
         /\ Len(s) = Len(Tail(s)) + 1
         /\ s = <<Head(s)>> \o Tail(s)
         /\ \A i \in 1..Len(Tail(s)) : i + 1 \in 1..Len(s) /\ Tail(s)[i] = s[i + 1]
  OBVIOUS

LEMMA OneFacts ==
  ASSUME NEW S, NEW e \in S
  PROVE  <<e>> \in Seq(S) /\ Len(<<e>>) = 1 /\ <<e>>[1] = e
  OBVIOUS

LEMMA CallTypes ==
  ASSUME NEW n \in Nat
  PROVE  Watch(n) \in Calls /\ Unwatch(n) \in Calls /\ ReadFileStream(n) \in Calls
BY DEF Calls, Watch, Unwatch, ReadFileStream

LEMMA CallsDiffer ==
  ASSUME NEW m, NEW n
  PROVE  /\ Watch(m) # Unwatch(n) /\ ReadFileStream(m) # Watch(n) /\ ReadFileStream(m) # Unwatch(n)
         /\ Watch(m) = Watch(n) <=> m = n
         /\ Unwatch(m) = Unwatch(n) <=> m = n
<1>1. /\ Watch(m).call = "watch" /\ Watch(n).call = "watch"
      /\ Unwatch(n).call = "unwatch" /\ ReadFileStream(m).call = "readFileStream"
  BY DEF Watch, Unwatch, ReadFileStream
<1>2. Watch(m).of = m /\ Watch(n).of = n /\ Unwatch(m).of = m /\ Unwatch(n).of = n
  BY DEF Watch, Unwatch
<1>3. Watch(m) # Unwatch(n) /\ ReadFileStream(m) # Watch(n) /\ ReadFileStream(m) # Unwatch(n)
  BY <1>1
<1>4. Watch(m) = Watch(n) <=> m = n
  BY <1>2
<1>5. Unwatch(m) = Unwatch(n) <=> m = n
  BY <1>2
<1> QED
  BY <1>3, <1>4, <1>5

\* Of two sequences of calls the second one decides, if it says anything.
LEMMA MadeByConcat ==
  ASSUME NEW s \in Seq(Calls), NEW t \in Seq(Calls), NEW id
  PROVE  /\ NoUnwatch(s \o t, id) <=> NoUnwatch(s, id) /\ NoUnwatch(t, id)
         /\ MadeBy(s \o t, id) <=> MadeBy(t, id) \/ (MadeBy(s, id) /\ NoUnwatch(t, id))
<1> DEFINE q == s \o t
<1>1. /\ q \in Seq(Calls) /\ Len(q) = Len(s) + Len(t) /\ Len(s) \in Nat /\ Len(t) \in Nat
      /\ \A i \in 1..Len(s) : i \in 1..Len(q) /\ q[i] = s[i]
      /\ \A i \in 1..Len(t) : Len(s) + i \in 1..Len(q) /\ q[Len(s) + i] = t[i]
  BY ConcatFacts
<1>2. \A i \in 1..Len(q) :
        \/ i \in 1..Len(s) /\ q[i] = s[i]
        \/ i - Len(s) \in 1..Len(t) /\ q[i] = t[i - Len(s)]
  <2> TAKE i \in 1..Len(q)
  <2>1. CASE i <= Len(s)
    BY <1>1, <2>1
  <2>2. CASE i > Len(s)
    <3>1. i - Len(s) \in 1..Len(t) /\ Len(s) + (i - Len(s)) = i
      BY <1>1, <2>2
    <3> QED
      BY <1>1, <3>1
  <2> QED
    BY <1>1, <2>1, <2>2
<1> HIDE DEF q
<1>3. NoUnwatch(q, id) <=> NoUnwatch(s, id) /\ NoUnwatch(t, id)
  BY <1>1, <1>2 DEF NoUnwatch
<1>4. ASSUME MadeBy(t, id) PROVE MadeBy(q, id)
  <2>1. PICK i \in 1..Len(t) : t[i] = Watch(id) /\ \A j \in 1..Len(t) : i < j => t[j] # Unwatch(id)
    BY <1>4 DEF MadeBy
  <2>2. Len(s) + i \in 1..Len(q) /\ q[Len(s) + i] = Watch(id)
    BY <1>1, <2>1
  <2>3. ASSUME NEW j \in 1..Len(q), Len(s) + i < j
        PROVE  q[j] # Unwatch(id)
    <3>1. j - Len(s) \in 1..Len(t) /\ q[j] = t[j - Len(s)] /\ i < j - Len(s)
      BY <1>1, <1>2, <2>3
    <3> QED
      BY <2>1, <3>1
  <2> QED
    BY <2>2, <2>3 DEF MadeBy
<1>5. ASSUME MadeBy(s, id), NoUnwatch(t, id) PROVE MadeBy(q, id)
  <2>1. PICK i \in 1..Len(s) : s[i] = Watch(id) /\ \A j \in 1..Len(s) : i < j => s[j] # Unwatch(id)
    BY <1>5 DEF MadeBy
  <2>2. i \in 1..Len(q) /\ q[i] = Watch(id)
    BY <1>1, <2>1
  <2>3. ASSUME NEW j \in 1..Len(q), i < j
        PROVE  q[j] # Unwatch(id)
    BY <1>2, <1>5, <2>1, <2>3 DEF NoUnwatch
  <2> QED
    BY <2>2, <2>3 DEF MadeBy
<1>6. ASSUME MadeBy(q, id) PROVE MadeBy(t, id) \/ (MadeBy(s, id) /\ NoUnwatch(t, id))
  <2>1. PICK i \in 1..Len(q) : q[i] = Watch(id) /\ \A j \in 1..Len(q) : i < j => q[j] # Unwatch(id)
    BY <1>6 DEF MadeBy
  <2>2. CASE i \in 1..Len(s) /\ q[i] = s[i]
    <3>1. \A j \in 1..Len(t) : t[j] # Unwatch(id)
      <4> TAKE j \in 1..Len(t)
      <4>1. Len(s) + j \in 1..Len(q) /\ q[Len(s) + j] = t[j] /\ i < Len(s) + j
        BY <1>1, <2>2
      <4> QED
        BY <2>1, <4>1
    <3>2. \A j \in 1..Len(s) : i < j => s[j] # Unwatch(id)
      BY <1>1, <2>1
    <3> QED
      BY <2>1, <2>2, <3>1, <3>2 DEF MadeBy, NoUnwatch
  <2>3. CASE i - Len(s) \in 1..Len(t) /\ q[i] = t[i - Len(s)]
    <3>1. \A j \in 1..Len(t) : i - Len(s) < j => t[j] # Unwatch(id)
      <4> TAKE j \in 1..Len(t)
      <4>1. Len(s) + j \in 1..Len(q) /\ q[Len(s) + j] = t[j] /\ (i - Len(s) < j => i < Len(s) + j)
        BY <1>1
      <4> QED
        BY <2>1, <4>1
    <3> QED
      BY <2>1, <2>3, <3>1 DEF MadeBy
  <2> QED
    BY <1>2, <2>2, <2>3
<1> QED
  BY <1>3, <1>4, <1>5, <1>6 DEF q

LEMMA MadeByOne ==
  ASSUME NEW c \in Calls, NEW id
  PROVE  /\ MadeBy(<<c>>, id) <=> c = Watch(id)
         /\ NoUnwatch(<<c>>, id) <=> c # Unwatch(id)
<1>1. Len(<<c>>) = 1 /\ <<c>>[1] = c
  BY OneFacts
<1>2. \A i : i \in 1..1 <=> i = 1
  OBVIOUS
<1> QED
  BY <1>1, <1>2 DEF MadeBy, NoUnwatch

LEMMA MadeByNone == \A id : ~MadeBy(<<>>, id) /\ NoUnwatch(<<>>, id)
BY DEF MadeBy, NoUnwatch

\* A call that is added decides, if it is about the watch.
LEMMA CallAdded ==
  ASSUME NEW s \in Seq(Calls), NEW c \in Calls, NEW id, NEW made
  PROVE  /\ MadeBy(Append(s, c), id) <=> c = Watch(id) \/ (c # Unwatch(id) /\ MadeBy(s, id))
         /\ MadeAfter(made, Append(s, c), id) <=> c = Watch(id) \/ (c # Unwatch(id) /\ MadeAfter(made, s, id))
<1>1. <<c>> \in Seq(Calls) /\ Append(s, c) = s \o <<c>>
  BY AppendFacts
<1>2. c = Watch(id) => c # Unwatch(id)
  BY CallsDiffer
<1>3. /\ NoUnwatch(s \o <<c>>, id) <=> NoUnwatch(s, id) /\ NoUnwatch(<<c>>, id)
      /\ MadeBy(s \o <<c>>, id) <=> MadeBy(<<c>>, id) \/ (MadeBy(s, id) /\ NoUnwatch(<<c>>, id))
  BY <1>1, MadeByConcat
<1>4. /\ MadeBy(<<c>>, id) <=> c = Watch(id)
      /\ NoUnwatch(<<c>>, id) <=> c # Unwatch(id)
  BY MadeByOne
<1> QED
  BY <1>1, <1>2, <1>3, <1>4 DEF MadeAfter

\* The server that handles the first call makes of the rest what it would have made of all.
LEMMA CallHandled ==
  ASSUME NEW s \in Seq(Calls), NEW c \in Calls, NEW t \in Seq(Calls), s = <<c>> \o t, NEW id, NEW made
  PROVE  MadeAfter(made, s, id) <=>
           MadeAfter(IF c = Watch(id) THEN made \cup {id} ELSE IF c = Unwatch(id) THEN made \ {id} ELSE made, t, id)
<1>1. <<c>> \in Seq(Calls)
  BY OneFacts
<1>2. /\ NoUnwatch(<<c>> \o t, id) <=> NoUnwatch(<<c>>, id) /\ NoUnwatch(t, id)
      /\ MadeBy(<<c>> \o t, id) <=> MadeBy(t, id) \/ (MadeBy(<<c>>, id) /\ NoUnwatch(t, id))
  BY <1>1, MadeByConcat
<1>3. /\ MadeBy(<<c>>, id) <=> c = Watch(id)
      /\ NoUnwatch(<<c>>, id) <=> c # Unwatch(id)
  BY MadeByOne
<1>4. c = Watch(id) => c # Unwatch(id)
  BY CallsDiffer
<1> QED
  BY <1>2, <1>3, <1>4 DEF MadeAfter

-----------------------------------------------------------------------------
(* Types *)

\* A call is kept or sent.
LEMMA CallKeepsTypes ==
  ASSUME TypeOK, NEW c \in Calls, Call(c)
  PROVE  waiting' \in Seq(Calls) /\ toServer' \in Seq(Calls)
<1>1. waiting \in Seq(Calls) /\ toServer \in Seq(Calls)
  BY DEF TypeOK
<1>2. Append(waiting, c) \in Seq(Calls) /\ Append(toServer, c) \in Seq(Calls)
  BY <1>1, AppendFacts
<1> QED
  BY <1>1, <1>2 DEF Call

\* The watches that a reconnect makes again.
LEMMA WatchAgainCalls ==
  ASSUME TypeOK, NEW again \in WatchAgain
  PROVE  /\ again \in Seq(Calls)
         /\ \A id \in watchOptions : MadeBy(again, id)
         /\ \A id : NoUnwatch(again, id) /\ (MadeBy(again, id) => id \in watchOptions)
<1>1. PICK o \in Surjection(1..Cardinality(watchOptions), watchOptions) : again = [n \in DOMAIN o |-> Watch(o[n])]
  BY DEF WatchAgain
<1> DEFINE N == Cardinality(watchOptions)
<1>2. N \in Nat
  <2>1. IsFiniteSet(1..watcherSequence)
    BY FS_Interval DEF TypeOK
  <2> QED
    BY <2>1, FS_Subset, FS_CardinalityType DEF TypeOK
<1> HIDE DEF N
<1>3. o \in [1..N -> watchOptions] /\ \A id \in watchOptions : \E n \in 1..N : o[n] = id
  BY <1>1 DEF Surjection, N
<1>4. \A n \in 1..N : o[n] \in watchOptions /\ o[n] \in Nat
  <2>1. \A id \in watchOptions : id \in Nat
    BY DEF TypeOK
  <2> QED
    BY <1>3, <2>1
<1>5. again = [n \in 1..N |-> Watch(o[n])]
  BY <1>1, <1>3
<1>6. \A n \in 1..N : Watch(o[n]) \in Calls
  BY <1>4, CallTypes
<1>7. again \in Seq(Calls) /\ Len(again) = N /\ \A n \in 1..N : again[n] = Watch(o[n])
  BY <1>2, <1>5, <1>6
<1>8. \A id : NoUnwatch(again, id)
  BY <1>7, CallsDiffer DEF NoUnwatch
<1>9. ASSUME NEW id \in watchOptions PROVE MadeBy(again, id)
  <2>1. PICK n \in 1..N : o[n] = id
    BY <1>3
  <2> QED
    BY <1>7, <1>8, <2>1 DEF MadeBy, NoUnwatch
<1>10. ASSUME NEW id, MadeBy(again, id) PROVE id \in watchOptions
  <2>1. PICK n \in 1..N : Watch(o[n]) = Watch(id)
    BY <1>7, <1>10 DEF MadeBy
  <2> QED
    BY <1>4, <2>1, CallsDiffer
<1> QED
  BY <1>7, <1>8, <1>9, <1>10

LEMMA MessageTypes ==
  ASSUME NEW r \in Nat, NEW h \in Nat, NEW how \in {"ended", "failed"}
  PROVE  Handle(r, h) \in Messages /\ Data(h, r) \in Messages /\ End(h, how) \in Messages
BY DEF Handle, Data, End, Messages

LEMMA InitTypeOK == Init => TypeOK /\ ConnectionInv /\ WatchInv
<1> SUFFICES ASSUME Init PROVE TypeOK /\ ConnectionInv /\ WatchInv
  OBVIOUS
<1>1. TypeOK /\ ConnectionInv
  <2>1. <<>> \in Seq(Calls) /\ <<>> \in Seq(Messages) /\ <<>> \in Seq(Readings) /\ <<>> \in Seq(Streams)
    OBVIOUS
  <2> QED
    BY <2>1 DEF Init, TypeOK, ConnectionInv
<1>2. WatchInv
  BY MadeByNone DEF Init, WatchInv
<1> QED
  BY <1>1, <1>2

\* Type correctness, and that nothing is on its way without a connection.
LEMMA TypesStep == TypeOK /\ ConnectionInv /\ [Next]_vars => TypeOK' /\ ConnectionInv'
<1> SUFFICES ASSUME TypeOK, ConnectionInv, [Next]_vars
             PROVE  TypeOK' /\ ConnectionInv'
  OBVIOUS
<1>1. CASE WatchPath
  <2>1. Watch(watcherSequence + 1) \in Calls
    BY CallTypes DEF TypeOK
  <2>2. waiting' \in Seq(Calls) /\ toServer' \in Seq(Calls)
    BY <1>1, <2>1, CallKeepsTypes DEF WatchPath
  <2>3. TypeOK'
    BY <1>1, <2>2 DEF WatchPath, TypeOK, server
  <2>4. ConnectionInv'
    BY <1>1 DEF WatchPath, Call, ConnectionInv, server
  <2> QED
    BY <2>3, <2>4
<1>2. ASSUME NEW id \in Watches, DisposeWatch(id) PROVE TypeOK' /\ ConnectionInv'
  <2>1. Unwatch(id) \in Calls
    BY CallTypes DEF Watches
  <2>2. waiting' \in Seq(Calls) /\ toServer' \in Seq(Calls)
    BY <1>2, <2>1, CallKeepsTypes DEF DisposeWatch
  <2>3. TypeOK'
    BY <1>2, <2>2 DEF DisposeWatch, TypeOK, server
  <2>4. ConnectionInv'
    BY <1>2 DEF DisposeWatch, Call, ConnectionInv, server
  <2> QED
    BY <2>3, <2>4
<1>3. CASE StartRead
  <2>1. Len(reads) + 1 \in Nat
    BY DEF TypeOK
  <2>2. ReadFileStream(Len(reads) + 1) \in Calls
    BY <2>1, CallTypes
  <2>3. waiting' \in Seq(Calls) /\ toServer' \in Seq(Calls)
    BY <1>3, <2>2, CallKeepsTypes DEF StartRead
  <2>4. [state |-> "asked", life |-> 0, handle |-> 0, got |-> <<>>] \in Readings
    BY DEF Readings
  <2>5. reads' \in Seq(Readings)
    BY <1>3, <2>4, AppendFacts DEF StartRead, TypeOK
  <2>6. TypeOK'
    BY <1>3, <2>3, <2>5 DEF StartRead, TypeOK, server
  <2>7. ConnectionInv'
    BY <1>3 DEF StartRead, Call, ConnectionInv, server
  <2> QED
    BY <2>6, <2>7
<1>4. ASSUME NEW r \in Reads, CancelRead(r) PROVE TypeOK' /\ ConnectionInv'
  <2>1. r \in 1..Len(reads) /\ reads[r] \in Readings
    BY <1>4 DEF CancelRead, TypeOK
  <2>2. [reads[r] EXCEPT !.state = "cancelled"] \in Readings
    BY <2>1 DEF Readings
  <2>3. reads' \in Seq(Readings)
    BY <1>4, <2>1, <2>2 DEF CancelRead, TypeOK
  <2> QED
    BY <1>4, <2>3 DEF CancelRead, TypeOK, ConnectionInv, server
<1>5. CASE ClientHandle
  <2>1. toClient \in Seq(Messages) /\ reads \in Seq(Readings)
    BY DEF TypeOK
  <2>2. Head(toClient) \in Messages /\ Tail(toClient) \in Seq(Messages)
    BY <1>5, <2>1, TailFacts DEF ClientHandle
  <2>3. ASSUME NEW m \in Messages, NEW r \in 1..Len(reads) PROVE Received(r, m) \in Readings
    <3>1. reads[r] \in Readings
      BY <2>1
    <3>2. CASE m.type = "handle"
      <4>1. m.handle \in Nat /\ [reads[r] EXCEPT !.state = "reading", !.life = life, !.handle = m.handle] \in Readings
        BY <3>1, <3>2 DEF TypeOK, Messages, Readings
      <4> QED
        BY <3>1, <3>2, <4>1 DEF Received
    <3>3. CASE m.type = "data"
      <4>1. m.of \in Nat
        BY <3>3 DEF Messages
      <4>2. reads[r].got \in Seq(Nat)
        BY <3>1 DEF Readings
      <4>3. Append(reads[r].got, m.of) \in Seq(Nat)
        BY <4>1, <4>2, AppendFacts
      <4>4. \A q \in Seq(Nat) : [reads[r] EXCEPT !.got = q] \in Readings
        BY <3>1 DEF Readings
      <4>5. Received(r, m) \in {reads[r], [reads[r] EXCEPT !.got = Append(reads[r].got, m.of)]}
        BY <3>3 DEF Received
      <4> QED
        BY <3>1, <4>3, <4>4, <4>5
    <3>4. CASE m.type = "end"
      <4>1. m.how \in {"ended", "failed"}
        BY <3>4 DEF Messages
      <4>2. [reads[r] EXCEPT !.state = m.how] \in Readings
        BY <3>1, <4>1 DEF Readings
      <4> QED
        BY <3>1, <3>4, <4>2 DEF Received
    <3> QED
      BY <3>2, <3>3, <3>4 DEF Messages
  <2>4. reads' = [r \in 1..Len(reads) |-> Received(r, Head(toClient))]
    BY <1>5, <2>1 DEF ClientHandle
  <2>5. reads' \in Seq(Readings)
    BY <2>1, <2>2, <2>3, <2>4
  <2> QED
    BY <1>5, <2>2, <2>5 DEF ClientHandle, TypeOK, ConnectionInv, server
<1>6. CASE Open
  <2>1. toServer' \in Seq(Calls)
    <3>1. CASE life = 0
      BY <1>6, <3>1 DEF Open, TypeOK
    <3>2. CASE life # 0
      <4>1. PICK again \in WatchAgain : toServer' = waiting \o again
        BY <1>6, <3>2 DEF Open
      <4>2. again \in Seq(Calls) /\ waiting \in Seq(Calls)
        BY WatchAgainCalls DEF TypeOK
      <4> QED
        BY <4>1, <4>2, ConcatFacts
    <3> QED
      BY <3>1, <3>2
  <2>2. waiting' \in Seq(Calls)
    BY <1>6 DEF Open
  <2>3. TypeOK'
    BY <1>6, <2>1, <2>2 DEF Open, TypeOK, client, server
  <2>4. ConnectionInv'
    BY <1>6 DEF Open, ConnectionInv, TypeOK
  <2> QED
    BY <2>3, <2>4
<1>7. CASE Close
  <2>1. /\ toServer' \in Seq(Calls) /\ toClient' \in Seq(Messages) /\ serving' \in Seq(Streams)
    BY <1>7 DEF Close
  <2>2. reads \in Seq(Readings)
    BY DEF TypeOK
  <2>3. ASSUME NEW r \in 1..Len(reads)
        PROVE  (IF reads[r].state = "asked" THEN [reads[r] EXCEPT !.state = "failed"] ELSE reads[r]) \in Readings
    <3>1. reads[r] \in Readings
      BY <2>2
    <3> QED
      BY <3>1 DEF Readings
  <2>4. reads' = [r \in 1..Len(reads) |->
                    IF reads[r].state = "asked" THEN [reads[r] EXCEPT !.state = "failed"] ELSE reads[r]]
    BY <1>7, <2>2 DEF Close
  <2>6. reads' \in Seq(Readings)
    BY <2>2, <2>3, <2>4
  <2>5. TypeOK'
    BY <1>7, <2>1, <2>6 DEF Close, TypeOK
  <2> QED
    BY <1>7, <2>5 DEF Close, ConnectionInv
<1>8. CASE ServerHandle
  <2>1. toServer \in Seq(Calls) /\ toServer # <<>>
    BY <1>8 DEF ServerHandle, TypeOK
  <2> DEFINE c == Head(toServer)
  <2>2. c \in Calls /\ c.of \in Nat /\ Tail(toServer) \in Seq(Calls)
    <3>1. c \in Calls /\ Tail(toServer) \in Seq(Calls)
      BY <2>1, TailFacts
    <3> QED
      BY <3>1 DEF Calls
  <2>3. connected
    BY <2>1 DEF ConnectionInv, TypeOK
  <2> HIDE DEF c
  <2>4. watchers' \subseteq Nat
    BY <1>8, <2>2 DEF ServerHandle, ServeRead, TypeOK, c
  <2>5. toClient' \in Seq(Messages) /\ serving' \in Seq(Streams)
    <3>1. CASE UNCHANGED <<serving, toClient>>
      BY <3>1 DEF TypeOK
    <3>2. CASE ServeRead(c.of)
      <4>1. Len(serving) \in Nat /\ toClient \in Seq(Messages) /\ serving \in Seq(Streams)
        BY DEF TypeOK
      <4>2. Handle(c.of, Len(serving)) \in Messages /\ [of |-> c.of, sent |-> 0, over |-> FALSE] \in Streams
        BY <2>2, <4>1, MessageTypes DEF Streams
      <4> QED
        BY <3>2, <4>1, <4>2, AppendFacts DEF ServeRead
    <3> QED
      BY <1>8, <3>1, <3>2 DEF ServerHandle, c
  <2>6. TypeOK'
    BY <1>8, <2>2, <2>4, <2>5 DEF ServerHandle, TypeOK, client
  <2>7. ConnectionInv'
    BY <1>8, <2>3 DEF ServerHandle, ConnectionInv
  <2> QED
    BY <2>6, <2>7
<1>9. ASSUME NEW s \in Reads, ServerSendData(s) \/ ServerSendEnd(s) PROVE TypeOK' /\ ConnectionInv'
  <2>1. s \in 1..Len(serving) /\ serving[s] \in Streams /\ s - 1 \in Nat /\ serving # <<>>
    BY <1>9 DEF ServerSendData, ServerSendEnd, TypeOK
  <2>2. connected
    BY <2>1 DEF ConnectionInv, TypeOK
  <2>3. /\ [serving[s] EXCEPT !.sent = @ + 1] \in Streams
        /\ [serving[s] EXCEPT !.over = TRUE] \in Streams
    <3>1. ASSUME NEW x \in Streams
          PROVE  [x EXCEPT !.sent = x.sent + 1] \in Streams /\ [x EXCEPT !.over = TRUE] \in Streams
      <4>1. x.sent + 1 \in Nat
        BY DEF Streams
      <4>2. \A n \in Nat : [x EXCEPT !.sent = n] \in Streams
        BY DEF Streams
      <4>3. [x EXCEPT !.over = TRUE] \in Streams
        BY DEF Streams
      <4> QED
        BY <4>1, <4>2, <4>3
    <3> QED
      BY <2>1, <3>1
  <2>4. serving' \in Seq(Streams)
    <3>1. \/ serving' = [serving EXCEPT ![s] = [serving[s] EXCEPT !.sent = @ + 1]]
          \/ serving' = [serving EXCEPT ![s] = [serving[s] EXCEPT !.over = TRUE]]
      BY <1>9 DEF ServerSendData, ServerSendEnd
    <3>2. serving \in Seq(Streams)
      BY DEF TypeOK
    <3>3. PICK v \in Streams : serving' = [serving EXCEPT ![s] = v]
      BY <2>3, <3>1
    <3> QED
      BY <2>1, <3>2, <3>3
  <2>5. /\ Data(s - 1, serving[s].of) \in Messages
        /\ End(s - 1, IF serving[s].sent = Pieces THEN "ended" ELSE "failed") \in Messages
    BY <2>1, MessageTypes DEF Streams, Data, End, Messages
  <2>6. toClient' \in Seq(Messages)
    <3>1. toClient \in Seq(Messages)
      BY DEF TypeOK
    <3>2. PICK m \in Messages : toClient' = Append(toClient, m)
      BY <1>9, <2>5 DEF ServerSendData, ServerSendEnd
    <3> QED
      BY <3>1, <3>2, AppendFacts
  <2> QED
    BY <1>9, <2>2, <2>4, <2>6 DEF ServerSendData, ServerSendEnd, TypeOK, ConnectionInv, client
<1>10. CASE UNCHANGED vars
  BY <1>10 DEF vars, client, server, TypeOK, ConnectionInv
<1> QED
  BY <1>1, <1>2, <1>3, <1>4, <1>5, <1>6, <1>7, <1>8, <1>9, <1>10 DEF Next, ServerStream

LEMMA TypesAlways == Spec => [](TypeOK /\ ConnectionInv)
<1>1. Init => TypeOK /\ ConnectionInv
  BY InitTypeOK
<1>2. (TypeOK /\ ConnectionInv) /\ [Next]_vars => (TypeOK /\ ConnectionInv)'
  BY TypesStep
<1> QED
  BY <1>1, <1>2, PTL DEF Spec

-----------------------------------------------------------------------------
(* Watches *)

\* A step that says nothing of watches.
LEMMA WatchesKept ==
  ASSUME WatchInv, UNCHANGED <<life, connected, waiting, toServer, watchOptions, watchers>>
  PROVE  WatchInv'
BY DEF WatchInv, MadeBy, MadeAfter, NoUnwatch

LEMMA WatchesStep == TypeOK /\ ConnectionInv /\ WatchInv /\ [Next]_vars => WatchInv'
<1> SUFFICES ASSUME TypeOK, ConnectionInv, WatchInv, [Next]_vars
             PROVE  WatchInv'
  OBVIOUS
<1>1. waiting \in Seq(Calls) /\ toServer \in Seq(Calls) /\ watcherSequence \in Nat /\ watchOptions \subseteq Nat
  BY DEF TypeOK
\* A call about a watch, together with what the front end remembers of it.
<1>2. ASSUME NEW c \in Calls, Call(c), UNCHANGED <<life, connected, watchers>>,
             \A id \in Nat : id \in watchOptions' <=> c = Watch(id) \/ (c # Unwatch(id) /\ id \in watchOptions)
      PROVE  WatchInv'
  <2> SUFFICES ASSUME NEW id \in Nat
               PROVE  /\ connected => (id \in watchOptions' <=> MadeAfter(watchers, toServer', id))
                      /\ ~connected /\ life = 0 => (id \in watchOptions' <=> MadeBy(waiting', id))
                      /\ MadeBy(waiting', id) => id \in watchOptions'
    BY <1>2 DEF WatchInv, MadeAfter, MadeBy, NoUnwatch
  <2>1. /\ MadeBy(Append(waiting, c), id) <=> c = Watch(id) \/ (c # Unwatch(id) /\ MadeBy(waiting, id))
        /\ MadeAfter(watchers, Append(toServer, c), id)
             <=> c = Watch(id) \/ (c # Unwatch(id) /\ MadeAfter(watchers, toServer, id))
    BY <1>1, CallAdded
  <2>2. /\ connected => (id \in watchOptions <=> MadeAfter(watchers, toServer, id))
        /\ ~connected /\ life = 0 => (id \in watchOptions <=> MadeBy(waiting, id))
        /\ MadeBy(waiting, id) => id \in watchOptions
    BY DEF WatchInv
  <2>3. CASE connected
    <3>1. toServer' = Append(toServer, c) /\ waiting' = <<>>
      BY <1>2, <2>3 DEF Call, ConnectionInv
    <3> QED
      BY <1>2, <2>1, <2>2, <2>3, <3>1, MadeByNone
  <2>4. CASE ~connected
    <3>1. waiting' = Append(waiting, c)
      BY <1>2, <2>4 DEF Call
    <3> QED
      BY <1>2, <2>1, <2>2, <2>4, <3>1
  <2> QED
    BY <2>3, <2>4
<1>3. CASE WatchPath
  <2> DEFINE n == watcherSequence + 1
  <2>1. n \in Nat /\ Watch(n) \in Calls
    BY <1>1, CallTypes
  <2>2. \A id \in Nat : id \in watchOptions' <=> Watch(n) = Watch(id) \/ (Watch(n) # Unwatch(id) /\ id \in watchOptions)
    BY <1>3, CallsDiffer DEF WatchPath
  <2>3. Call(Watch(n)) /\ UNCHANGED <<life, connected, watchers>>
    BY <1>3 DEF WatchPath, server
  <2> HIDE DEF n
  <2> QED
    BY <1>2, <2>1, <2>2, <2>3
<1>4. ASSUME NEW n \in Watches, DisposeWatch(n) PROVE WatchInv'
  <2>1. Unwatch(n) \in Calls
    BY CallTypes DEF Watches
  <2>2. \A id \in Nat : id \in watchOptions' <=> Unwatch(n) = Watch(id) \/ (Unwatch(n) # Unwatch(id) /\ id \in watchOptions)
    BY <1>4, CallsDiffer DEF DisposeWatch
  <2>3. Call(Unwatch(n)) /\ UNCHANGED <<life, connected, watchers>>
    BY <1>4 DEF DisposeWatch, server
  <2> QED
    BY <1>2, <2>1, <2>2, <2>3
<1>5. CASE StartRead
  <2> DEFINE n == Len(reads) + 1
  <2>1. n \in Nat
    BY DEF TypeOK
  <2>2. Call(ReadFileStream(n)) /\ UNCHANGED <<life, connected, watchers, watchOptions>>
    BY <1>5 DEF StartRead, server
  <2> HIDE DEF n
  <2>3. ReadFileStream(n) \in Calls
    BY <2>1, CallTypes
  <2>4. \A id \in Nat : id \in watchOptions' <=>
          ReadFileStream(n) = Watch(id) \/ (ReadFileStream(n) # Unwatch(id) /\ id \in watchOptions)
    BY <2>2, CallsDiffer
  <2> QED
    BY <1>2, <2>2, <2>3, <2>4
<1>6. CASE Open
  <2>1. /\ ~connected /\ connected' /\ life' = life + 1 /\ life \in Nat /\ waiting' = <<>> /\ watchers = {}
        /\ UNCHANGED <<watchers, watchOptions>>
    BY <1>6 DEF Open, ConnectionInv, TypeOK, client, server
  <2>2. ASSUME NEW id \in Nat PROVE id \in watchOptions <=> MadeBy(toServer', id)
    <3>1. /\ life = 0 => (id \in watchOptions <=> MadeBy(waiting, id))
          /\ MadeBy(waiting, id) => id \in watchOptions
      BY <2>1 DEF WatchInv
    <3>2. CASE life = 0
      BY <1>6, <3>1, <3>2 DEF Open
    <3>3. CASE life # 0
      <4>1. PICK again \in WatchAgain : toServer' = waiting \o again
        BY <1>6, <3>3 DEF Open
      <4>2. /\ again \in Seq(Calls)
            /\ id \in watchOptions => MadeBy(again, id)
            /\ MadeBy(again, id) => id \in watchOptions
        BY WatchAgainCalls
      <4>3. MadeBy(waiting \o again, id) <=> MadeBy(again, id) \/ (MadeBy(waiting, id) /\ NoUnwatch(again, id))
        BY <1>1, <4>2, MadeByConcat
      <4> QED
        BY <3>1, <4>1, <4>2, <4>3
    <3> QED
      BY <3>2, <3>3
  <2>3. \A id \in Nat : MadeAfter(watchers', toServer', id) <=> MadeBy(toServer', id)
    BY <2>1 DEF MadeAfter
  <2>4. \A id : ~MadeBy(waiting', id)
    BY <2>1, MadeByNone
  <2> QED
    BY <2>1, <2>2, <2>3, <2>4 DEF WatchInv, MadeAfter, MadeBy, NoUnwatch
<1>7. CASE Close
  <2>1. ~connected' /\ life' = life /\ life > 0 /\ waiting' = <<>>
    BY <1>7 DEF Close, ConnectionInv
  <2>2. \A id : ~MadeBy(waiting', id)
    BY <2>1, MadeByNone
  <2> QED
    BY <2>1, <2>2 DEF WatchInv, MadeBy
<1>8. CASE ServerHandle
  <2>1. toServer # <<>> /\ toServer' = Tail(toServer) /\ UNCHANGED <<life, connected, waiting, watchOptions>>
    BY <1>8 DEF ServerHandle, client
  <2>2. PICK c \in Calls, t \in Seq(Calls) : c = Head(toServer) /\ t = Tail(toServer) /\ toServer = <<c>> \o t
    <3>1. Head(toServer) \in Calls /\ Tail(toServer) \in Seq(Calls) /\ toServer = <<Head(toServer)>> \o Tail(toServer)
      BY <1>1, <2>1, TailFacts
    <3> QED
      BY <3>1, Zenon
  <2>3. connected /\ waiting = <<>>
    BY <2>1 DEF ConnectionInv, TypeOK
  <2>4. ASSUME NEW id \in Nat
        PROVE  /\ c = Watch(id) => watchers' = watchers \cup {id}
               /\ c = Unwatch(id) => watchers' = watchers \ {id}
               /\ c # Watch(id) /\ c # Unwatch(id) => (id \in watchers' <=> id \in watchers)
    <3>1. c = Watch(id) => c.call = "watch" /\ c.of = id
      BY DEF Watch
    <3>2. c = Unwatch(id) => c.call = "unwatch" /\ c.of = id
      BY DEF Unwatch
    <3>3. /\ c.call = "watch" /\ c.of = id => c = Watch(id)
          /\ c.call = "unwatch" /\ c.of = id => c = Unwatch(id)
      BY DEF Calls, Watch, Unwatch
    <3>4. \/ c.call = "watch" /\ watchers' = watchers \cup {c.of}
          \/ c.call = "unwatch" /\ watchers' = watchers \ {c.of}
          \/ c.call = "readFileStream" /\ watchers' = watchers
      BY <1>8, <2>2 DEF ServerHandle, ServeRead
    <3> QED
      BY <3>1, <3>2, <3>3, <3>4
  <2>5. ASSUME NEW id \in Nat
        PROVE  id \in watchOptions <=> MadeAfter(watchers', t, id)
    <3> DEFINE made == IF c = Watch(id) THEN watchers \cup {id} ELSE IF c = Unwatch(id) THEN watchers \ {id} ELSE watchers
    <3>1. id \in watchOptions <=> MadeAfter(watchers, toServer, id)
      BY <2>3 DEF WatchInv
    <3>2. MadeAfter(watchers, toServer, id) <=> MadeAfter(made, t, id)
      BY <1>1, <2>2, CallHandled
    <3>3. id \in made <=> id \in watchers'
      <4>1. c = Watch(id) => c # Unwatch(id)
        BY CallsDiffer
      <4> QED
        BY <2>4, <4>1
    <3> HIDE DEF made
    <3> QED
      BY <3>1, <3>2, <3>3 DEF MadeAfter
  <2>6. \A id : ~MadeBy(waiting', id)
    BY <2>1, <2>3, MadeByNone
  <2>7. \A id \in Nat : id \in watchOptions' <=> MadeAfter(watchers', toServer', id)
    BY <2>1, <2>2, <2>5
  <2>8. connected'
    BY <2>1, <2>3
  <2> QED
    BY <2>6, <2>7, <2>8 DEF WatchInv
<1>9. CASE (\E r \in Reads : CancelRead(r)) \/ ClientHandle \/ ServerStream \/ UNCHANGED vars
  <2>1. UNCHANGED <<life, connected, waiting, toServer, watchOptions, watchers>>
    BY <1>9 DEF CancelRead, ClientHandle, ServerStream, ServerSendData, ServerSendEnd, vars, client, server
  <2> QED
    BY <2>1, WatchesKept
<1> QED
  BY <1>3, <1>4, <1>5, <1>6, <1>7, <1>8, <1>9 DEF Next

\* The watches of the server are those the frontend wants, whenever no call is under
\* way, for any number of watches and of connections.
THEOREM WatchesAgreeAlways == Spec => []WatchesAgree
<1>1. Init => WatchInv
  BY InitTypeOK
<1>2. (TypeOK /\ ConnectionInv) /\ WatchInv /\ [Next]_vars => WatchInv'
  BY WatchesStep
<1>3. TypeOK /\ WatchInv => WatchesAgree
  <2> SUFFICES ASSUME TypeOK, WatchInv, connected, toServer = <<>>
               PROVE  watchers = watchOptions
    BY DEF WatchesAgree
  <2>1. \A id \in Nat : id \in watchOptions <=> id \in watchers
    BY MadeByNone DEF WatchInv, MadeAfter
  <2>2. watchOptions \subseteq Nat /\ watchers \subseteq Nat
    <3>1. watcherSequence \in Nat /\ watchOptions \subseteq 1..watcherSequence /\ watchers \subseteq Nat
      BY DEF TypeOK
    <3> QED
      BY <3>1
  <2> QED
    BY <2>1, <2>2
<1> QED
  BY <1>1, <1>2, <1>3, TypesAlways, PTL DEF Spec

-----------------------------------------------------------------------------
(* Streams *)

LEMMA PendingType ==
  ASSUME NEW q \in Seq(Messages), NEW h
  PROVE  IsFiniteSet(PendingIn(q, h)) /\ Pending(q, h) \in Nat
<1>1. IsFiniteSet(1..Len(q))
  BY FS_Interval
<1>2. PendingIn(q, h) \in SUBSET (1..Len(q))
  BY DEF PendingIn
<1> QED
  BY <1>1, <1>2, FS_Subset, FS_CardinalityType DEF Pending

LEMMA PendingNone ==
  ASSUME NEW q \in Seq(Messages), NEW h,
         \A i \in 1..Len(q) : ~(q[i].type = "data" /\ q[i].handle = h)
  PROVE  Pending(q, h) = 0
<1>1. PendingIn(q, h) = {}
  BY DEF PendingIn
<1> QED
  BY <1>1, FS_EmptySet DEF Pending

LEMMA PendingAdded ==
  ASSUME NEW q \in Seq(Messages), NEW m \in Messages, NEW h
  PROVE  /\ m.type = "data" /\ m.handle = h => Pending(Append(q, m), h) = Pending(q, h) + 1
         /\ ~(m.type = "data" /\ m.handle = h) => Pending(Append(q, m), h) = Pending(q, h)
<1> DEFINE p == Append(q, m)
<1>1. /\ Len(p) = Len(q) + 1 /\ Len(q) \in Nat
      /\ \A i \in 1..Len(q) : p[i] = q[i]
      /\ p[Len(q) + 1] = m
  BY AppendFacts
<1> HIDE DEF p
<1>2. IsFiniteSet(PendingIn(q, h)) /\ Len(q) + 1 \notin PendingIn(q, h)
  <2>1. Len(q) + 1 \notin PendingIn(q, h)
    BY <1>1 DEF PendingIn
  <2> QED
    BY <2>1, PendingType
<1>3. \A i : i \in 1..Len(p) <=> i \in 1..Len(q) \/ i = Len(q) + 1
  BY <1>1
<1>4. CASE m.type = "data" /\ m.handle = h
  <2>1. PendingIn(p, h) = PendingIn(q, h) \cup {Len(q) + 1}
    BY <1>1, <1>3, <1>4 DEF PendingIn
  <2> QED
    BY <1>2, <1>4, <2>1, FS_AddElement DEF Pending, p
<1>5. CASE ~(m.type = "data" /\ m.handle = h)
  <2>1. PendingIn(p, h) = PendingIn(q, h)
    BY <1>1, <1>3, <1>5 DEF PendingIn
  <2> QED
    BY <1>5, <2>1 DEF Pending, p
<1> QED
  BY <1>4, <1>5

LEMMA PendingTaken ==
  ASSUME NEW q \in Seq(Messages), q # <<>>, NEW h
  PROVE  /\ Head(q).type = "data" /\ Head(q).handle = h => Pending(q, h) = Pending(Tail(q), h) + 1
         /\ ~(Head(q).type = "data" /\ Head(q).handle = h) => Pending(q, h) = Pending(Tail(q), h)
<1> DEFINE t == Tail(q)
           rest == PendingIn(q, h) \ {1}
           f == [i \in PendingIn(t, h) |-> i + 1]
<1>1. /\ Head(q) = q[1] /\ 1 \in 1..Len(q) /\ t \in Seq(Messages)
      /\ Len(q) = Len(t) + 1 /\ Len(t) \in Nat
      /\ \A i \in 1..Len(t) : i + 1 \in 1..Len(q) /\ t[i] = q[i + 1]
  BY TailFacts
<1> HIDE DEF t
<1>2. /\ IsFiniteSet(PendingIn(q, h)) /\ Pending(q, h) \in Nat
      /\ IsFiniteSet(PendingIn(t, h)) /\ Pending(t, h) \in Nat
  BY <1>1, PendingType
<1>3. \A i \in PendingIn(t, h) : i \in Nat /\ i + 1 \in rest
  BY <1>1 DEF PendingIn
<1>4. \A k \in rest : k - 1 \in PendingIn(t, h) /\ (k - 1) + 1 = k
  <2> SUFFICES ASSUME NEW k \in rest PROVE k - 1 \in PendingIn(t, h) /\ (k - 1) + 1 = k
    OBVIOUS
  <2>1. k \in 1..Len(q) /\ k # 1 /\ q[k].type = "data" /\ q[k].handle = h
    BY DEF PendingIn
  <2>2. k - 1 \in 1..Len(t) /\ (k - 1) + 1 = k
    BY <1>1, <2>1
  <2>3. t[k - 1] = q[k]
    BY <1>1, <2>2
  <2> QED
    BY <2>1, <2>2, <2>3 DEF PendingIn
<1>5. f \in Bijection(PendingIn(t, h), rest)
  <2>1. f \in [PendingIn(t, h) -> rest]
    BY <1>3
  <2>2. \A i, j \in PendingIn(t, h) : f[i] = f[j] => i = j
    BY <1>3
  <2>3. \A k \in rest : \E i \in PendingIn(t, h) : f[i] = k
    BY <1>4
  <2> HIDE DEF f, rest
  <2> QED
    BY <2>1, <2>2, <2>3, Zenon DEF Bijection, Injection, Surjection, IsInjective
<1>6. Cardinality(rest) = Pending(t, h)
  <2>1. ExistsBijection(PendingIn(t, h), rest)
    BY <1>5 DEF ExistsBijection
  <2> HIDE DEF rest
  <2> QED
    BY <1>2, <2>1, FS_Bijection DEF Pending
<1>7. Cardinality(rest) = IF 1 \in PendingIn(q, h) THEN Pending(q, h) - 1 ELSE Pending(q, h)
  BY <1>2, FS_RemoveElement DEF Pending
<1>8. 1 \in PendingIn(q, h) <=> Head(q).type = "data" /\ Head(q).handle = h
  BY <1>1 DEF PendingIn
<1> HIDE DEF rest
<1> QED
  BY <1>2, <1>6, <1>7, <1>8 DEF t

\* The types of the state of the streams, which the lemmas below use one by one.
LEMMA StreamTypes ==
  ASSUME TypeOK
  PROVE  /\ toClient \in Seq(Messages) /\ serving \in Seq(Streams) /\ reads \in Seq(Readings)
         /\ life \in Nat /\ connected \in BOOLEAN
         /\ Len(toClient) \in Nat /\ Len(serving) \in Nat /\ Len(reads) \in Nat
         /\ \A s \in 1..Len(serving) : serving[s].sent \in Nat
         /\ \A r \in 1..Len(reads) : reads[r].got \in Seq(Nat) /\ reads[r].handle \in Nat
         /\ \A i \in 1..Len(toClient) : toClient[i].handle \in Nat
<1>1. /\ toClient \in Seq(Messages) /\ serving \in Seq(Streams) /\ reads \in Seq(Readings)
      /\ life \in Nat /\ connected \in BOOLEAN
  BY DEF TypeOK
<1>2. Len(toClient) \in Nat /\ Len(serving) \in Nat /\ Len(reads) \in Nat
  BY <1>1
<1>3. ASSUME NEW s \in 1..Len(serving) PROVE serving[s].sent \in Nat
  <2>1. serving[s] \in Streams
    BY <1>1
  <2> QED
    BY <2>1 DEF Streams
<1>4. ASSUME NEW r \in 1..Len(reads) PROVE reads[r].got \in Seq(Nat) /\ reads[r].handle \in Nat
  <2>1. reads[r] \in Readings
    BY <1>1
  <2> QED
    BY <2>1 DEF Readings
<1>5. ASSUME NEW i \in 1..Len(toClient) PROVE toClient[i].handle \in Nat
  <2>1. toClient[i] \in Messages
    BY <1>1
  <2> QED
    BY <2>1 DEF Messages
<1> QED
  BY <1>1, <1>2, <1>3, <1>4, <1>5

\* A step of the proxy or of the watches.
LEMMA StreamsKept ==
  ASSUME MessageInv, ReadInv, UNCHANGED <<life, connected, toClient, reads, serving>>
  PROVE  MessageInv' /\ ReadInv'
BY DEF MessageInv, ReadInv, GotInv, ListensInv

\* A step that disturbs no stream: a read that begins, or no longer listens.
LEMMA ReadsKept ==
  ASSUME MessageInv, UNCHANGED <<toClient, serving>>
  PROVE  MessageInv'
BY DEF MessageInv

LEMMA NoMessages ==
  ASSUME toClient' = <<>>
  PROVE  MessageInv'
BY DEF MessageInv

LEMMA StartReadStep ==
  ASSUME TypeOK, MessageInv, ReadInv, StartRead
  PROVE  MessageInv' /\ ReadInv'
<1> DEFINE x == [state |-> "asked", life |-> 0, handle |-> 0, got |-> <<>>]
<1>1. reads' = Append(reads, x) /\ UNCHANGED <<life, connected, toClient, serving>>
  BY DEF StartRead, server
<1>2. x \in Readings /\ x.state = "asked" /\ x.life = 0 /\ x.got = <<>>
  BY DEF Readings
<1> HIDE DEF x
<1>3. /\ Len(reads') = Len(reads) + 1 /\ Len(reads) \in Nat
      /\ \A r \in 1..Len(reads) : reads'[r] = reads[r]
      /\ reads'[Len(reads) + 1] = x
  BY <1>1, <1>2, AppendFacts, StreamTypes
<1>4. MessageInv'
  BY <1>1, ReadsKept
<1>5. ASSUME NEW r \in 1..Len(reads') PROVE GotInv(r)' /\ ListensInv(r)'
  <2>1. CASE r \in 1..Len(reads)
    <3>1. reads'[r] = reads[r]
      BY <1>3, <2>1
    <3> QED
      BY <1>1, <2>1, <3>1 DEF ReadInv, GotInv, ListensInv
  <2>2. CASE r = Len(reads) + 1
    <3>1. reads'[r] = x
      BY <1>3, <2>2
    <3> QED
      BY <1>1, <1>2, <3>1, StreamTypes DEF GotInv, ListensInv
  <2> QED
    BY <1>3, <2>1, <2>2
<1> QED
  BY <1>4, <1>5 DEF ReadInv

LEMMA CancelReadStep ==
  ASSUME TypeOK, MessageInv, ReadInv, NEW c, CancelRead(c)
  PROVE  MessageInv' /\ ReadInv'
<1>1. /\ c \in 1..Len(reads) /\ reads' = [reads EXCEPT ![c].state = "cancelled"]
      /\ UNCHANGED <<life, connected, toClient, serving>>
  BY StreamTypes DEF CancelRead, server
<1>2. MessageInv'
  BY <1>1, ReadsKept
<1>3. Len(reads') = Len(reads) /\ \A r \in 1..Len(reads) : r # c => reads'[r] = reads[r]
  BY <1>1, StreamTypes
<1>4. /\ reads'[c] = [reads[c] EXCEPT !.state = "cancelled"]
      /\ reads[c] \in Readings
  BY <1>1, StreamTypes
<1>5. reads'[c].state = "cancelled" /\ reads'[c].life = reads[c].life
  BY <1>4 DEF Readings
<1>6. ASSUME NEW r \in 1..Len(reads) PROVE GotInv(r)' /\ ListensInv(r)'
  <2>1. CASE r # c
    <3>1. reads'[r] = reads[r]
      BY <1>3, <2>1
    <3> QED
      BY <1>1, <3>1 DEF ReadInv, GotInv, ListensInv
  <2>2. CASE r = c
    BY <1>1, <1>5, <2>2 DEF ReadInv, GotInv, ListensInv
  <2> QED
    BY <2>1, <2>2
<1> QED
  BY <1>2, <1>3, <1>6 DEF ReadInv

LEMMA OpenStep ==
  ASSUME TypeOK, ConnectionInv, MessageInv, ReadInv, Open
  PROVE  MessageInv' /\ ReadInv'
<1>1. /\ life' = life + 1 /\ life \in Nat /\ toClient' = <<>> /\ reads' = reads
  BY DEF Open, ConnectionInv, TypeOK, client
<1>2. ASSUME NEW r \in 1..Len(reads) PROVE GotInv(r)' /\ ListensInv(r)'
  <2>1. reads[r].life \in Nat /\ reads[r].life <= life
    <3>1. reads[r] \in Readings
      BY StreamTypes
    <3> QED
      BY <3>1 DEF Readings, ReadInv, GotInv
  <2>2. reads[r].life < life' /\ reads'[r] = reads[r]
    BY <1>1, <2>1
  <2>3. reads[r].state = "asked" => reads[r].got = <<>>
    BY DEF ReadInv, GotInv
  <2>4. reads'[r].life # life' /\ reads'[r].life <= life'
    BY <1>1, <2>1, <2>2
  <2> QED
    BY <2>2, <2>3, <2>4 DEF GotInv, ListensInv
<1> QED
  BY <1>1, <1>2, NoMessages DEF ReadInv

LEMMA CloseStep ==
  ASSUME TypeOK, MessageInv, ReadInv, Close
  PROVE  MessageInv' /\ ReadInv'
<1>1. ~connected' /\ toClient' = <<>> /\ life' = life /\ Len(reads') = Len(reads)
  BY StreamTypes DEF Close
<1>2. ASSUME NEW r \in 1..Len(reads) PROVE GotInv(r)'
  <2>1. /\ reads[r] \in Readings
        /\ reads'[r] = IF reads[r].state = "asked" THEN [reads[r] EXCEPT !.state = "failed"] ELSE reads[r]
    <3>1. reads \in Seq(Readings)
      BY StreamTypes
    <3> QED
      BY <3>1 DEF Close
  <2>2. CASE reads[r].state = "asked"
    <3>1. reads'[r].state = "failed" /\ reads'[r].life = reads[r].life
      BY <2>1, <2>2 DEF Readings
    <3> QED
      BY <1>1, <3>1 DEF ReadInv, GotInv
  <2>3. CASE reads[r].state # "asked"
    <3>1. reads'[r] = reads[r]
      BY <2>1, <2>3
    <3> QED
      BY <1>1, <3>1 DEF ReadInv, GotInv
  <2> QED
    BY <2>2, <2>3
<1> QED
  BY <1>1, <1>2, NoMessages DEF ReadInv, ListensInv

LEMMA MessageAdded ==
  ASSUME TypeOK, NEW m \in Messages, toClient' = Append(toClient, m)
  PROVE  /\ \A i \in 1..Len(toClient') :
              \/ i \in 1..Len(toClient) /\ toClient'[i] = toClient[i]
              \/ i = Len(toClient) + 1 /\ toClient'[i] = m
         /\ \A i, j \in 1..Len(toClient') : i < j => i \in 1..Len(toClient) /\ toClient'[i] = toClient[i]
         /\ \A h : ~(m.type = "data" /\ m.handle = h) => Pending(toClient', h) = Pending(toClient, h)
         /\ m.type = "data" => Pending(toClient', m.handle) = Pending(toClient, m.handle) + 1
<1>1. toClient \in Seq(Messages) /\ Len(toClient) \in Nat
  BY StreamTypes
<1>2. /\ Len(toClient') = Len(toClient) + 1
      /\ \A i \in 1..Len(toClient) : toClient'[i] = toClient[i]
      /\ toClient'[Len(toClient) + 1] = m
  BY <1>1, AppendFacts
<1>3. \A i \in 1..Len(toClient') : i \in 1..Len(toClient) \/ i = Len(toClient) + 1
  BY <1>1, <1>2
<1>4. \A i, j \in 1..Len(toClient') : i < j => i \in 1..Len(toClient)
  BY <1>1, <1>2
<1>5. \A h : ~(m.type = "data" /\ m.handle = h) => Pending(Append(toClient, m), h) = Pending(toClient, h)
  BY <1>1, PendingAdded
<1>6. m.type = "data" => Pending(Append(toClient, m), m.handle) = Pending(toClient, m.handle) + 1
  BY <1>1, PendingAdded
<1> QED
  BY <1>2, <1>3, <1>4, <1>5, <1>6

LEMMA ServeReadStep ==
  ASSUME TypeOK, MessageInv, ReadInv, NEW n \in Nat, ServeRead(n), UNCHANGED <<life, connected, reads>>
  PROVE  MessageInv' /\ ReadInv'
<1> DEFINE h == Len(serving)
           m == Handle(n, h)
           s == [of |-> n, sent |-> 0, over |-> FALSE]
<1>1. h \in Nat /\ m \in Messages /\ s \in Streams /\ serving \in Seq(Streams) /\ toClient \in Seq(Messages)
  BY StreamTypes, MessageTypes DEF Streams
<1>2. m.type = "handle" /\ m.of = n /\ m.handle = h /\ s.of = n /\ s.sent = 0
  BY DEF Handle
<1>3. serving' = Append(serving, s) /\ toClient' = Append(toClient, m)
  BY DEF ServeRead
<1> HIDE DEF m, s
<1>4. /\ \A k \in 1..h : k \in 1..Len(serving') /\ serving'[k] = serving[k]
      /\ h + 1 \in 1..Len(serving') /\ serving'[h + 1] = s
  BY <1>1, <1>3, AppendFacts
<1>5. \A k : Pending(toClient', k) = Pending(toClient, k)
  BY <1>1, <1>2, <1>3, MessageAdded
<1>6. \A i \in 1..Len(toClient') :
        \/ i \in 1..Len(toClient) /\ toClient'[i] = toClient[i] /\ toClient[i].handle + 1 \in 1..h /\ toClient[i].handle # h
        \/ toClient'[i] = m
  <2>1. \A i \in 1..Len(toClient) : toClient[i].handle \in Nat /\ toClient[i].handle + 1 \in 1..h
    BY StreamTypes DEF MessageInv
  <2>2. \A i \in 1..Len(toClient) : toClient[i].handle # h
    BY <1>1, <2>1
  <2> QED
    BY <1>1, <1>3, <2>1, <2>2, MessageAdded
<1>7. Pending(toClient, h) = 0
  <2>1. \A i \in 1..Len(toClient) : toClient[i].handle \in Nat /\ toClient[i].handle + 1 \in 1..h
    BY StreamTypes DEF MessageInv
  <2>2. \A i \in 1..Len(toClient) : toClient[i].handle # h
    BY <1>1, <2>1
  <2> QED
    BY <1>1, <2>2, PendingNone
<1> HIDE DEF h
<1>8. ASSUME NEW i \in 1..Len(toClient')
      PROVE  /\ toClient'[i].handle + 1 \in 1..Len(serving')
             /\ toClient'[i].type \in {"handle", "data"} => toClient'[i].of = serving'[toClient'[i].handle + 1].of
             /\ toClient'[i].type = "end" => serving'[toClient'[i].handle + 1].over
             /\ toClient'[i].type = "end" /\ toClient'[i].how = "ended" => serving'[toClient'[i].handle + 1].sent = Pieces
             /\ toClient'[i].type = "handle" =>
                  Pending(toClient', toClient'[i].handle) = serving'[toClient'[i].handle + 1].sent
  <2>1. CASE toClient'[i] = m
    BY <1>2, <1>4, <1>5, <1>7, <2>1
  <2>2. CASE i \in 1..Len(toClient) /\ toClient'[i] = toClient[i] /\ toClient[i].handle + 1 \in 1..h
    BY <1>4, <1>5, <2>2 DEF MessageInv
  <2> QED
    BY <1>6, <2>1, <2>2
<1>9. ASSUME NEW i \in 1..Len(toClient'), NEW j \in 1..Len(toClient'),
             i < j, toClient'[i].handle = toClient'[j].handle
      PROVE  toClient'[i].type # "end" /\ toClient'[j].type # "handle"
  <2>1. i \in 1..Len(toClient) /\ toClient'[i] = toClient[i]
    BY <1>1, <1>3, <1>9, MessageAdded
  <2>2. toClient[i].handle # h
    <3>1. toClient[i].handle + 1 \in 1..h /\ toClient[i].handle \in Nat
      BY <2>1, StreamTypes DEF MessageInv, h
    <3> QED
      BY <1>1, <3>1
  <2>3. j \in 1..Len(toClient) /\ toClient'[j] = toClient[j]
    BY <1>2, <1>6, <1>9, <2>1, <2>2
  <2> QED
    BY <1>9, <2>1, <2>3 DEF MessageInv
<1>10. MessageInv'
  BY <1>8, <1>9 DEF MessageInv
<1>11. ASSUME NEW r \in 1..Len(reads) PROVE GotInv(r)' /\ ListensInv(r)'
  <2>1. GotInv(r)'
    BY DEF ReadInv, GotInv
  <2>2. ASSUME connected, reads[r].life = life, reads[r].state = "reading"
        PROVE  /\ reads[r].handle + 1 \in 1..Len(serving')
               /\ serving'[reads[r].handle + 1].of = r
               /\ Len(reads[r].got) + Pending(toClient', reads[r].handle) = serving'[reads[r].handle + 1].sent
               /\ \A i \in 1..Len(toClient') : toClient'[i].type = "handle" => toClient'[i].handle # reads[r].handle
    <3>1. /\ reads[r].handle + 1 \in 1..h
          /\ serving[reads[r].handle + 1].of = r
          /\ Len(reads[r].got) + Pending(toClient, reads[r].handle) = serving[reads[r].handle + 1].sent
          /\ \A i \in 1..Len(toClient) : toClient[i].type = "handle" => toClient[i].handle # reads[r].handle
      BY <2>2 DEF ReadInv, ListensInv, h
    <3>2. reads[r].handle # h
      BY <1>1, <3>1, StreamTypes
    <3> QED
      BY <1>2, <1>4, <1>5, <1>6, <3>1, <3>2
  <2> QED
    BY <2>1, <2>2 DEF ListensInv
<1> QED
  BY <1>10, <1>11 DEF ReadInv

\* A stream goes on: one more piece, or its end.
LEMMA SendStep ==
  ASSUME TypeOK, MessageInv, ReadInv, NEW s, ServerSendData(s) \/ ServerSendEnd(s)
  PROVE  MessageInv' /\ ReadInv'
<1> DEFINE h == s - 1
<1>1. /\ s \in 1..Len(serving) /\ ~serving[s].over /\ serving[s] \in Streams /\ serving[s].sent \in Nat
      /\ h \in Nat /\ h + 1 = s
      /\ UNCHANGED <<life, connected, reads>>
  BY StreamTypes DEF ServerSendData, ServerSendEnd, client
<1> HIDE DEF h
<1>2. PICK m \in Messages :
        /\ toClient' = Append(toClient, m)
        /\ m.handle = h
        /\ \/ /\ m.type = "data" /\ m.of = serving[s].of
              /\ serving' = [serving EXCEPT ![s].sent = @ + 1]
           \/ /\ m.type = "end" /\ (m.how = "ended" => serving[s].sent = Pieces)
              /\ serving' = [serving EXCEPT ![s].over = TRUE]
  <2>1. CASE ServerSendData(s)
    <3>1. Data(h, serving[s].of) \in Messages
      BY <1>1, MessageTypes DEF Streams
    <3>2. /\ Data(h, serving[s].of).handle = h /\ Data(h, serving[s].of).type = "data"
          /\ Data(h, serving[s].of).of = serving[s].of
      BY DEF Data
    <3>3. /\ toClient' = Append(toClient, Data(h, serving[s].of))
          /\ serving' = [serving EXCEPT ![s].sent = @ + 1]
      BY <2>1 DEF ServerSendData, h
    <3> QED
      BY <3>1, <3>2, <3>3
  <2>2. CASE ServerSendEnd(s)
    <3> DEFINE how == IF serving[s].sent = Pieces THEN "ended" ELSE "failed"
    <3>1. how \in {"ended", "failed"} /\ (how = "ended" => serving[s].sent = Pieces)
      OBVIOUS
    <3>2. /\ toClient' = Append(toClient, End(h, how))
          /\ serving' = [serving EXCEPT ![s].over = TRUE]
      BY <2>2 DEF ServerSendEnd, h
    <3> HIDE DEF how
    <3>3. End(h, how) \in Messages
      BY <1>1, <3>1, MessageTypes
    <3>4. End(h, how).handle = h /\ End(h, how).type = "end" /\ End(h, how).how = how
      BY DEF End
    <3> QED
      BY <3>1, <3>2, <3>3, <3>4
  <2> QED
    BY <2>1, <2>2
<1>3. /\ Len(serving') = Len(serving)
      /\ \A k \in 1..Len(serving) : k # s => serving'[k] = serving[k]
      /\ serving'[s].of = serving[s].of
      /\ m.type = "data" => serving'[s].sent = serving[s].sent + 1 /\ serving'[s].over = serving[s].over
      /\ m.type = "end" => serving'[s].sent = serving[s].sent /\ serving'[s].over
  <2>1. serving \in Seq(Streams)
    BY StreamTypes
  <2>2. Len(serving') = Len(serving) /\ \A k \in 1..Len(serving) : k # s => serving'[k] = serving[k]
    BY <1>1, <1>2, <2>1
  <2>3. \/ m.type = "data" /\ serving'[s] = [serving[s] EXCEPT !.sent = serving[s].sent + 1]
        \/ m.type = "end" /\ serving'[s] = [serving[s] EXCEPT !.over = TRUE]
    <3>1. \A v : [serving EXCEPT ![s] = v][s] = v
      BY <1>1, <2>1
    <3>2. CASE m.type = "data" /\ serving' = [serving EXCEPT ![s].sent = @ + 1]
      <4>1. serving' = [serving EXCEPT ![s] = [serving[s] EXCEPT !.sent = serving[s].sent + 1]]
        BY <3>2
      <4> QED
        BY <3>1, <3>2, <4>1
    <3>3. CASE m.type = "end" /\ serving' = [serving EXCEPT ![s].over = TRUE]
      <4>1. serving' = [serving EXCEPT ![s] = [serving[s] EXCEPT !.over = TRUE]]
        BY <3>3
      <4> QED
        BY <3>1, <3>3, <4>1
    <3> QED
      BY <1>2, <3>2, <3>3
  <2>4. ASSUME NEW x \in Streams, NEW n
        PROVE  /\ [x EXCEPT !.sent = n].of = x.of /\ [x EXCEPT !.sent = n].sent = n /\ [x EXCEPT !.sent = n].over = x.over
               /\ [x EXCEPT !.over = TRUE].of = x.of /\ [x EXCEPT !.over = TRUE].sent = x.sent /\ [x EXCEPT !.over = TRUE].over
    BY DEF Streams
  <2>5. CASE m.type = "data" /\ serving'[s] = [serving[s] EXCEPT !.sent = serving[s].sent + 1]
    <3>1. /\ serving'[s].of = serving[s].of /\ serving'[s].sent = serving[s].sent + 1
          /\ serving'[s].over = serving[s].over
      BY <1>1, <2>4, <2>5
    <3> QED
      BY <2>2, <2>5, <3>1
  <2>6. CASE m.type = "end" /\ serving'[s] = [serving[s] EXCEPT !.over = TRUE]
    <3>1. serving'[s].of = serving[s].of /\ serving'[s].sent = serving[s].sent /\ serving'[s].over
      BY <1>1, <2>4, <2>6
    <3> QED
      BY <2>2, <2>6, <3>1
  <2> QED
    BY <2>3, <2>5, <2>6
<1>4. \A i \in 1..Len(toClient) :
        toClient[i].handle \in Nat /\ (toClient[i].handle = h <=> toClient[i].handle + 1 = s)
  BY <1>1, StreamTypes
<1>5. \A i \in 1..Len(toClient') : (i \in 1..Len(toClient) /\ toClient'[i] = toClient[i]) \/ toClient'[i] = m
  BY <1>2, MessageAdded
<1>6. /\ \A k : k # h \/ m.type # "data" => Pending(toClient', k) = Pending(toClient, k)
      /\ m.type = "data" => Pending(toClient', h) = Pending(toClient, h) + 1
  BY <1>2, MessageAdded
<1>7. Pending(toClient, h) \in Nat
  BY PendingType, StreamTypes
<1>8. ASSUME NEW i \in 1..Len(toClient')
      PROVE  /\ toClient'[i].handle + 1 \in 1..Len(serving')
             /\ toClient'[i].type \in {"handle", "data"} => toClient'[i].of = serving'[toClient'[i].handle + 1].of
             /\ toClient'[i].type = "end" => serving'[toClient'[i].handle + 1].over
             /\ toClient'[i].type = "end" /\ toClient'[i].how = "ended" => serving'[toClient'[i].handle + 1].sent = Pieces
             /\ toClient'[i].type = "handle" =>
                  Pending(toClient', toClient'[i].handle) = serving'[toClient'[i].handle + 1].sent
  <2>1. CASE toClient'[i] = m
    BY <1>1, <1>2, <1>3, <2>1
  <2>2. CASE i \in 1..Len(toClient) /\ toClient'[i] = toClient[i]
    <3>1. /\ toClient[i].handle + 1 \in 1..Len(serving)
          /\ toClient[i].type \in {"handle", "data"} => toClient[i].of = serving[toClient[i].handle + 1].of
          /\ toClient[i].type = "end" => serving[toClient[i].handle + 1].over
          /\ toClient[i].type = "end" /\ toClient[i].how = "ended" => serving[toClient[i].handle + 1].sent = Pieces
          /\ toClient[i].type = "handle" =>
               Pending(toClient, toClient[i].handle) = serving[toClient[i].handle + 1].sent
      BY <2>2 DEF MessageInv
    <3>2. CASE toClient[i].handle = h
      <4>1. toClient[i].handle + 1 = s
        BY <1>4, <2>2, <3>2
      <4>2. toClient[i].type # "end"
        BY <1>1, <3>1, <4>1
      <4> QED
        BY <1>2, <1>3, <1>6, <2>2, <3>1, <3>2, <4>1, <4>2
    <3>3. CASE toClient[i].handle # h
      <4>1. toClient[i].handle + 1 # s
        BY <1>4, <2>2, <3>3
      <4> QED
        BY <1>3, <1>6, <2>2, <3>1, <3>3, <4>1
    <3> QED
      BY <3>2, <3>3
  <2> QED
    BY <1>5, <2>1, <2>2
<1>9. ASSUME NEW i \in 1..Len(toClient'), NEW j \in 1..Len(toClient'),
             i < j, toClient'[i].handle = toClient'[j].handle
      PROVE  toClient'[i].type # "end" /\ toClient'[j].type # "handle"
  <2>1. i \in 1..Len(toClient) /\ toClient'[i] = toClient[i]
    BY <1>2, <1>9, MessageAdded
  <2>2. CASE j \in 1..Len(toClient) /\ toClient'[j] = toClient[j]
    BY <1>9, <2>1, <2>2 DEF MessageInv
  <2>3. CASE toClient'[j] = m
    <3>1. toClient[i].handle + 1 = s
      BY <1>2, <1>4, <1>9, <2>1, <2>3
    <3>2. toClient[i].type # "end"
      BY <1>1, <2>1, <3>1 DEF MessageInv
    <3> QED
      BY <1>2, <2>1, <2>3, <3>2
  <2> QED
    BY <1>5, <2>2, <2>3
<1>10. MessageInv'
  BY <1>8, <1>9 DEF MessageInv
<1>11. ASSUME NEW r \in 1..Len(reads) PROVE GotInv(r)' /\ ListensInv(r)'
  <2>1. GotInv(r)'
    BY <1>1 DEF ReadInv, GotInv
  <2>2. ASSUME connected, reads[r].life = life, reads[r].state = "reading"
        PROVE  /\ reads[r].handle + 1 \in 1..Len(serving')
               /\ serving'[reads[r].handle + 1].of = r
               /\ Len(reads[r].got) + Pending(toClient', reads[r].handle) = serving'[reads[r].handle + 1].sent
               /\ \A i \in 1..Len(toClient') : toClient'[i].type = "handle" => toClient'[i].handle # reads[r].handle
    <3>1. /\ reads[r].handle + 1 \in 1..Len(serving)
          /\ serving[reads[r].handle + 1].of = r
          /\ Len(reads[r].got) + Pending(toClient, reads[r].handle) = serving[reads[r].handle + 1].sent
          /\ \A i \in 1..Len(toClient) : toClient[i].type = "handle" => toClient[i].handle # reads[r].handle
      BY <2>2 DEF ReadInv, ListensInv
    <3>2. reads[r].handle \in Nat /\ Len(reads[r].got) \in Nat
      BY StreamTypes
    <3>3. \A i \in 1..Len(toClient') : toClient'[i].type = "handle" => toClient'[i].handle # reads[r].handle
      BY <1>2, <1>5, <3>1
    <3>4. Len(reads[r].got) + Pending(toClient', reads[r].handle) = serving'[reads[r].handle + 1].sent
      <4>1. CASE reads[r].handle = h
        BY <1>1, <1>2, <1>3, <1>6, <1>7, <3>1, <3>2, <4>1
      <4>2. CASE reads[r].handle # h
        <5>1. reads[r].handle + 1 # s
          BY <1>1, <3>2, <4>2
        <5> QED
          BY <1>3, <1>6, <3>1, <4>2, <5>1
      <4> QED
        BY <4>1, <4>2
    <3>5. serving'[reads[r].handle + 1].of = serving[reads[r].handle + 1].of
      BY <1>3, <3>1
    <3> QED
      BY <1>3, <3>1, <3>3, <3>4, <3>5
  <2> QED
    BY <1>1, <2>1, <2>2 DEF ListensInv
<1> QED
  BY <1>1, <1>10, <1>11 DEF ReadInv

LEMMA ClientHandleStep ==
  ASSUME TypeOK, ConnectionInv, MessageInv, ReadInv, ClientHandle
  PROVE  MessageInv' /\ ReadInv'
<1>1. toClient # <<>> /\ toClient \in Seq(Messages) /\ reads \in Seq(Readings) /\ life \in Nat
  BY StreamTypes DEF ClientHandle
<1>2. PICK m, t : m = Head(toClient) /\ t = Tail(toClient)
  OBVIOUS
<1>3. /\ m \in Messages /\ m = toClient[1] /\ 1 \in 1..Len(toClient) /\ t \in Seq(Messages)
      /\ \A i \in 1..Len(t) : i + 1 \in 1..Len(toClient) /\ 1 < i + 1 /\ t[i] = toClient[i + 1]
      /\ Len(toClient) = Len(t) + 1 /\ Len(t) \in Nat
  BY <1>1, <1>2, TailFacts
<1>4. /\ toClient' = t /\ UNCHANGED <<life, connected, serving>>
      /\ reads' = [r \in 1..Len(reads) |-> Received(r, m)]
      /\ Len(reads') = Len(reads)
      /\ \A r \in 1..Len(reads) : reads'[r] = Received(r, m)
  BY <1>1, <1>2 DEF ClientHandle, server
<1>5. connected
  BY <1>1 DEF ConnectionInv, TypeOK
<1>6. /\ \A h : m.type # "data" \/ m.handle # h => Pending(toClient, h) = Pending(t, h)
      /\ m.type = "data" => Pending(toClient, m.handle) = Pending(t, m.handle) + 1
      /\ \A h : Pending(toClient, h) \in Nat /\ Pending(t, h) \in Nat
  <2>1. /\ \A h : ~(m.type = "data" /\ m.handle = h) => Pending(toClient, h) = Pending(t, h)
        /\ m.type = "data" => Pending(toClient, m.handle) = Pending(t, m.handle) + 1
    BY <1>1, <1>2, PendingTaken
  <2>2. \A h : Pending(toClient, h) \in Nat /\ Pending(t, h) \in Nat
    BY <1>1, <1>3, PendingType
  <2> QED
    BY <2>1, <2>2
\* Nothing about the stream of m comes before it, nothing after its end.
<1>7. \A i \in 1..Len(t) : t[i].handle = m.handle => m.type # "end" /\ t[i].type # "handle"
  BY <1>3 DEF MessageInv
<1>8. /\ m.handle + 1 \in 1..Len(serving)
      /\ m.type \in {"handle", "data"} => m.of = serving[m.handle + 1].of
      /\ m.type = "end" /\ m.how = "ended" => serving[m.handle + 1].sent = Pieces
      /\ m.type = "handle" => Pending(toClient, m.handle) = serving[m.handle + 1].sent
  BY <1>3 DEF MessageInv
<1>9. MessageInv'
  <2>1. ASSUME NEW i \in 1..Len(t)
        PROVE  /\ t[i].handle + 1 \in 1..Len(serving)
               /\ t[i].type \in {"handle", "data"} => t[i].of = serving[t[i].handle + 1].of
               /\ t[i].type = "end" => serving[t[i].handle + 1].over
               /\ t[i].type = "end" /\ t[i].how = "ended" => serving[t[i].handle + 1].sent = Pieces
               /\ t[i].type = "handle" => Pending(t, t[i].handle) = serving[t[i].handle + 1].sent
    <3>1. i + 1 \in 1..Len(toClient) /\ t[i] = toClient[i + 1]
      BY <1>3
    <3>2. t[i].type = "handle" => t[i].handle # m.handle
      BY <1>7
    <3>3. /\ t[i].handle + 1 \in 1..Len(serving)
          /\ t[i].type \in {"handle", "data"} => t[i].of = serving[t[i].handle + 1].of
          /\ t[i].type = "end" => serving[t[i].handle + 1].over
          /\ t[i].type = "end" /\ t[i].how = "ended" => serving[t[i].handle + 1].sent = Pieces
          /\ t[i].type = "handle" => Pending(toClient, t[i].handle) = serving[t[i].handle + 1].sent
      BY <3>1 DEF MessageInv
    <3> QED
      BY <1>6, <3>2, <3>3
  <2>2. ASSUME NEW i \in 1..Len(t), NEW j \in 1..Len(t), i < j, t[i].handle = t[j].handle
        PROVE  t[i].type # "end" /\ t[j].type # "handle"
    <3>1. /\ i + 1 \in 1..Len(toClient) /\ t[i] = toClient[i + 1]
          /\ j + 1 \in 1..Len(toClient) /\ t[j] = toClient[j + 1] /\ i + 1 < j + 1
      BY <1>3, <2>2
    <3> QED
      BY <2>2, <3>1 DEF MessageInv
  <2> QED
    BY <1>4, <2>1, <2>2 DEF MessageInv
<1>10. ASSUME NEW r \in 1..Len(reads) PROVE GotInv(r)' /\ ListensInv(r)'
  <2> DEFINE x == reads[r]
             y == reads'[r]
             listens == connected /\ x.life = life /\ x.state = "reading"
  <2>1. /\ x \in Readings /\ y = Received(r, m) /\ x.got \in Seq(Nat) /\ x.life <= life
        /\ x.state = "asked" => x.got = <<>>
        /\ x.life = life /\ x.state \in {"reading", "ended"} => \A n \in 1..Len(x.got) : x.got[n] = r
        /\ x.life = life /\ x.state = "ended" => Len(x.got) = Pieces
    BY <1>1, <1>4, StreamTypes DEF ReadInv, GotInv
  <2>2. x.life = life /\ x.state = "reading" =>
          /\ x.handle + 1 \in 1..Len(serving)
          /\ serving[x.handle + 1].of = r
          /\ Len(x.got) + Pending(toClient, x.handle) = serving[x.handle + 1].sent
          /\ \A i \in 1..Len(toClient) : toClient[i].type = "handle" => toClient[i].handle # x.handle
    BY <1>5 DEF ReadInv, ListensInv
  <2> HIDE DEF x, y
  <2> SUFFICES /\ y.life <= life
               /\ y.state = "asked" => y.got = <<>>
               /\ y.life = life /\ y.state \in {"reading", "ended"} => \A n \in 1..Len(y.got) : y.got[n] = r
               /\ y.life = life /\ y.state = "ended" => Len(y.got) = Pieces
               /\ y.life = life /\ y.state = "reading" =>
                    /\ y.handle + 1 \in 1..Len(serving)
                    /\ serving[y.handle + 1].of = r
                    /\ Len(y.got) + Pending(t, y.handle) = serving[y.handle + 1].sent
                    /\ \A i \in 1..Len(t) : t[i].type = "handle" => t[i].handle # y.handle
    BY <1>4 DEF GotInv, ListensInv, y
  <2>3. CASE m.type = "handle" /\ m.of = r /\ x.state = "asked"
    <3>1. y = [x EXCEPT !.state = "reading", !.life = life, !.handle = m.handle]
      BY <2>1, <2>3 DEF Received, x
    <3>2. y.state = "reading" /\ y.life = life /\ y.handle = m.handle /\ y.got = x.got
      BY <2>1, <3>1 DEF Readings
    <3>3. y.got = <<>> /\ Len(y.got) = 0
      BY <2>1, <2>3, <3>2
    <3>4. Pending(t, m.handle) = serving[m.handle + 1].sent /\ Pending(t, m.handle) \in Nat
      BY <1>6, <1>8, <2>3
    <3> QED
      BY <1>1, <1>7, <1>8, <2>3, <3>2, <3>3, <3>4
  <2>4. CASE m.type = "data" /\ x.state = "reading" /\ x.handle = m.handle
    <3>1. y = [x EXCEPT !.got = Append(x.got, m.of)]
      <4>1. r \in Listening(m.handle)
        BY <1>1, <2>4 DEF Listening, x
      <4>2. Received(r, m) = [reads[r] EXCEPT !.got = Append(@, m.of)]
        BY <2>4, <4>1 DEF Received
      <4> QED
        BY <2>1, <4>2 DEF x
    <3>2. y.state = "reading" /\ y.life = x.life /\ y.handle = m.handle /\ y.got = Append(x.got, m.of)
      BY <2>1, <2>4, <3>1 DEF Readings
    <3>3. m.of \in Nat
      BY <1>3, <2>4 DEF Messages
    <3>4. /\ Len(y.got) = Len(x.got) + 1 /\ Len(x.got) \in Nat
          /\ \A n \in 1..Len(y.got) : (n \in 1..Len(x.got) /\ y.got[n] = x.got[n]) \/ y.got[n] = m.of
      <4>1. Len(x.got) \in Nat /\ Len(Append(x.got, m.of)) = Len(x.got) + 1
        BY <2>1, <3>3, AppendFacts
      <4>2. \A n \in 1..Len(x.got) + 1 : n \in 1..Len(x.got) \/ n = Len(x.got) + 1
        BY <4>1
      <4> QED
        BY <2>1, <3>2, <3>3, <4>1, <4>2, AppendFacts
    <3>5. CASE x.life = life
      <4>1. m.of = r
        BY <1>8, <2>2, <2>4, <3>5
      <4>2. \A n \in 1..Len(y.got) : y.got[n] = r
        BY <2>1, <2>4, <3>4, <3>5, <4>1
      <4>3. Len(y.got) + Pending(t, m.handle) = serving[m.handle + 1].sent
        <5>1. Len(x.got) + Pending(toClient, m.handle) = serving[m.handle + 1].sent
          BY <2>2, <2>4, <3>5
        <5>2. Pending(toClient, m.handle) = Pending(t, m.handle) + 1 /\ Pending(t, m.handle) \in Nat
          BY <1>6, <2>4
        <5>3. Len(y.got) = Len(x.got) + 1 /\ Len(x.got) \in Nat
          BY <3>4
        <5> HIDE DEF y
        <5> QED
          BY <5>1, <5>2, <5>3
      <4>4. \A i \in 1..Len(t) : t[i].type = "handle" => t[i].handle # m.handle
        BY <1>7
      <4> QED
        BY <1>8, <2>1, <2>2, <2>4, <3>2, <3>5, <4>2, <4>3, <4>4
    <3>6. CASE x.life # life
      BY <2>1, <3>2, <3>6
    <3> QED
      BY <3>5, <3>6
  <2>5. CASE m.type = "end" /\ x.state = "reading" /\ x.handle = m.handle
    <3>1. y = [x EXCEPT !.state = m.how]
      BY <2>1, <2>5 DEF Received, Listening, x
    <3>2. y.state = m.how /\ y.life = x.life /\ y.got = x.got /\ m.how \in {"ended", "failed"}
      <4>1. m.how \in {"ended", "failed"}
        BY <1>3, <2>5 DEF Messages
      <4> QED
        BY <2>1, <3>1, <4>1 DEF Readings
    <3>3. Pending(t, m.handle) = 0
      BY <1>3, <1>7, <2>5, PendingNone
    <3>4. x.life = life /\ m.how = "ended" => Len(x.got) = Pieces
      <4>1. Pending(toClient, m.handle) = 0
        BY <1>6, <2>5, <3>3
      <4>2. Len(x.got) \in Nat
        BY <2>1
      <4>3. x.life = life => Len(x.got) + Pending(toClient, m.handle) = serving[m.handle + 1].sent
        BY <2>2, <2>5
      <4> QED
        BY <1>8, <2>5, <4>1, <4>2, <4>3
    <3> QED
      BY <2>1, <2>5, <3>2, <3>4
  <2>6. CASE /\ ~(m.type = "handle" /\ m.of = r /\ x.state = "asked")
             /\ ~(m.type = "data" /\ x.state = "reading" /\ x.handle = m.handle)
             /\ ~(m.type = "end" /\ x.state = "reading" /\ x.handle = m.handle)
    <3>1. y = x
      BY <2>1, <2>6 DEF Received, Listening, x
    <3>2. x.state = "reading" => Pending(t, x.handle) = Pending(toClient, x.handle)
      BY <1>6, <2>6
    <3> QED
      BY <1>3, <2>1, <2>2, <3>1, <3>2
  <2> QED
    BY <2>3, <2>4, <2>5, <2>6
<1> QED
  BY <1>4, <1>9, <1>10 DEF ReadInv

LEMMA StreamsStep ==
  TypeOK /\ ConnectionInv /\ MessageInv /\ ReadInv /\ [Next]_vars => MessageInv' /\ ReadInv'
<1> SUFFICES ASSUME TypeOK, ConnectionInv, MessageInv, ReadInv, [Next]_vars
             PROVE  MessageInv' /\ ReadInv'
  OBVIOUS
<1>1. CASE WatchPath \/ (\E id \in Watches : DisposeWatch(id)) \/ UNCHANGED vars
  <2>1. UNCHANGED <<life, connected, toClient, reads, serving>>
    BY <1>1 DEF WatchPath, DisposeWatch, vars, client, server
  <2> QED
    BY <2>1, StreamsKept
<1>2. CASE ServerHandle
  <2>1. Head(toServer).of \in Nat /\ UNCHANGED <<life, connected, reads>>
    <3>1. Head(toServer) \in Calls
      BY <1>2, TailFacts DEF ServerHandle, TypeOK
    <3> QED
      BY <1>2, <3>1 DEF ServerHandle, client, Calls
  <2>2. CASE UNCHANGED <<serving, toClient>>
    BY <2>1, <2>2, StreamsKept
  <2>3. CASE ServeRead(Head(toServer).of)
    BY <2>1, <2>3, ServeReadStep
  <2> QED
    BY <1>2, <2>2, <2>3 DEF ServerHandle
<1> QED
  BY <1>1, <1>2, StartReadStep, CancelReadStep, ClientHandleStep, OpenStep, CloseStep, SendStep DEF Next, ServerStream

\* Within one life of the channel a stream gets its own file, from the start and in
\* order, and one that ends without an error got all of it, for any number of reads, of
\* pieces and of connections.
THEOREM StreamIsTheFileAlways == Spec => []StreamIsTheFile
<1>1. Init => MessageInv /\ ReadInv
  BY DEF Init, MessageInv, ReadInv
<1>2. (TypeOK /\ ConnectionInv) /\ (MessageInv /\ ReadInv) /\ [Next]_vars => (MessageInv /\ ReadInv)'
  BY StreamsStep
<1>3. TypeOK /\ ReadInv => StreamIsTheFile
  <2> SUFFICES ASSUME TypeOK, ReadInv, NEW r \in DOMAIN reads,
                      reads[r].life = life, reads[r].state \in {"reading", "ended"}
               PROVE  /\ reads[r].got = [n \in 1..Len(reads[r].got) |-> r]
                      /\ reads[r].state = "ended" => Len(reads[r].got) = Pieces
    BY DEF StreamIsTheFile
  <2>1. r \in 1..Len(reads) /\ reads[r].got \in Seq(Nat)
    BY StreamTypes
  <2>2. /\ \A n \in 1..Len(reads[r].got) : reads[r].got[n] = r
        /\ reads[r].state = "ended" => Len(reads[r].got) = Pieces
    BY <2>1 DEF ReadInv, GotInv
  <2> QED
    BY <2>1, <2>2
<1> QED
  BY <1>1, <1>2, <1>3, TypesAlways, PTL DEF Spec

-----------------------------------------------------------------------------
(* Saving: the inductive invariant *)

Contents == [mtime : Nat, size : Sizes \cup {0, CHOOSE s \in Sizes : TRUE}]

SaveStates ==
  [stage : {"not called", "locking", "asking", "writing", "written", "done"},
   changes : BOOLEAN, expected : Contents, anyway : BOOLEAN, found : Contents]

ReadStates ==
  [stage : {"not called", "reading", "content", "stat", "done"}, content : Contents, stat : Contents]

FileType ==
  /\ disk \in Contents
  /\ time \in Nat
  /\ version \in Contents
  /\ save \in [Saves -> SaveStates]
  /\ read \in [ReadCalls -> ReadStates]
  /\ seen \subseteq Contents
  /\ between \subseteq Contents

\* What the editor takes for its own: what it has read or written, and what others put
\* between one of these and its stat.
Known == seen \cup between

\* A content that the file has or had; its modification time tells it from all others.
Was(content) ==
  /\ content.mtime # 0
  /\ content.mtime <= time
  /\ content.mtime = disk.mtime => content = disk

SeenInv ==
  /\ Exists => disk.mtime = time
  /\ ~Exists => disk = None
  /\ \A content \in Known : Was(content)
  /\ version # None => version \in Known

\* Whoever writes the file between a content and its stat makes it one that is known.
HalfReadInv ==
  \A r \in ReadCalls :
    /\ read[r].stage = "content" => Was(read[r].content) /\ (Exists => disk = read[r].content \/ disk \in Known)
    /\ read[r].stage = "stat" => Was(read[r].stat)

SaveInv ==
  \A i \in Saves :
    /\ save[i].expected # None => save[i].expected \in Known
    /\ save[i].stage = "written" /\ Exists => disk \in Known

FileInv == FileType /\ SeenInv /\ HalfReadInv /\ SaveInv /\ NoBlindOverwrite

LEMMA NoneFacts == None \in Contents /\ None.mtime = 0
BY DEF None, Contents

LEMMA FreshCalls ==
  ASSUME NEW stage
  PROVE  /\ SaveAt(stage).stage = stage
         /\ SaveAt(stage).expected = None
         /\ SaveAt(stage).anyway = FALSE
         /\ stage \in {"locking", "done"} => SaveAt(stage) \in SaveStates
         /\ ReadAt(stage).stage = stage
         /\ stage \in {"done"} => ReadAt(stage) \in ReadStates
BY NoneFacts DEF SaveAt, ReadAt, SaveStates, ReadStates

\* A content stays one that the file had, whatever is done to the file.
LEMMA WasKept ==
  ASSUME FileType, NEW c \in Contents, Was(c),
         \/ disk' = disk /\ time' = time
         \/ disk' = None /\ time' = time
         \/ time' = time + 1 /\ disk'.mtime = time + 1
  PROVE  Was(c)'
<1>1. c.mtime \in Nat /\ time \in Nat /\ c.mtime <= time /\ c.mtime # 0
  BY DEF FileType, Contents, Was
<1>2. CASE disk' = disk /\ time' = time
  BY <1>2 DEF Was
<1>3. CASE disk' = None /\ time' = time
  BY <1>1, <1>3, NoneFacts DEF Was
<1>4. CASE time' = time + 1 /\ disk'.mtime = time + 1
  BY <1>1, <1>4 DEF Was
<1> QED
  BY <1>2, <1>3, <1>4

LEMMA DiskWas ==
  ASSUME FileType, SeenInv, Exists
  PROVE  Was(disk)
BY DEF FileType, SeenInv, Exists, Was, Contents

\* A step of one save that does not touch the file.
LEMMA SaveGoesOnStep ==
  ASSUME FileInv, NEW i \in Saves, NEW x \in SaveStates,
         save' = [save EXCEPT ![i] = x],
         UNCHANGED <<disk, time, version, read, seen, between>>,
         x.expected # None => x.expected \in Known,
         x.stage # "written",
         x.stage = "writing" /\ ~x.anyway /\ x.found # None /\ x.expected # None =>
           x.found.size = x.expected.size
  PROVE  FileInv'
<1> USE DEF FileInv
<1>1. /\ save'[i] = x /\ save' \in [Saves -> SaveStates]
      /\ \A j \in Saves : j # i => save'[j] = save[j]
  BY DEF FileType
<1>2. FileType' /\ SeenInv' /\ HalfReadInv'
  BY <1>1 DEF FileType, SeenInv, HalfReadInv, Was, Exists, Known
<1>3. SaveInv'
  BY <1>1 DEF SaveInv, Exists, Known
<1>4. NoBlindOverwrite'
  BY <1>1 DEF NoBlindOverwrite, Known
<1> QED
  BY <1>2, <1>3, <1>4

\* A step of one read.
LEMMA ReadGoesOnStep ==
  ASSUME FileInv, NEW r \in ReadCalls, NEW x \in ReadStates,
         read' = [read EXCEPT ![r] = x],
         UNCHANGED <<disk, time, save, between>>,
         version' \in Contents, seen \subseteq seen', seen' \subseteq Contents,
         \A content \in seen' : Was(content),
         version' # None => version' \in Known',
         x.stage = "content" => Was(x.content) /\ disk = x.content,
         x.stage = "stat" => Was(x.stat)
  PROVE  FileInv'
<1> USE DEF FileInv
<1>1. /\ read'[r] = x /\ read' \in [ReadCalls -> ReadStates]
      /\ \A s \in ReadCalls : s # r => read'[s] = read[s]
  BY DEF FileType
<1>2. FileType'
  BY <1>1 DEF FileType
<1>3. SeenInv'
  BY DEF SeenInv, Was, Exists, Known
<1>4. HalfReadInv'
  <2> SUFFICES ASSUME NEW s \in ReadCalls
               PROVE  /\ read'[s].stage = "content" =>
                           Was(read'[s].content) /\ (Exists => disk = read'[s].content \/ disk \in Known')
                      /\ read'[s].stage = "stat" => Was(read'[s].stat)
    BY DEF HalfReadInv, Was, Exists
  <2>1. CASE s = r
    BY <1>1, <2>1
  <2>2. CASE s # r
    BY <1>1, <2>2 DEF HalfReadInv, Known
  <2> QED
    BY <2>1, <2>2
<1>5. SaveInv'
  BY DEF SaveInv, Exists, Known
<1>6. NoBlindOverwrite'
  BY DEF NoBlindOverwrite, Known
<1> QED
  BY <1>2, <1>3, <1>4, <1>5, <1>6

\* Another program writes or deletes the file.
LEMMA OthersStep ==
  ASSUME FileInv,
         UNCHANGED <<version, save, read, seen>>,
         disk' \in Contents, time' \in Nat,
         \/ disk' = None /\ time' = time
         \/ time' = time + 1 /\ disk'.mtime = time + 1,
         between' = between \/ (Exists' /\ between' = between \cup {disk'}),
         StatIsDue /\ Exists' => disk' \in between'
  PROVE  FileInv'
<1> USE DEF FileInv
<1>1. FileType'
  BY DEF FileType
<1>2. \A c \in Contents : Was(c) => Was(c)'
  BY WasKept
<1>3. SeenInv'
  <2>1. (Exists' => disk'.mtime = time') /\ (~Exists' => disk' = None)
    BY NoneFacts DEF Exists, FileType
  <2>2. Exists' => Was(disk)'
    BY <2>1 DEF Was, Exists, Contents
  <2>3. \A c \in Known' : Was(c)'
    BY <1>2, <2>2 DEF FileType, SeenInv, Known, Was
  <2>4. version' # None => version' \in Known'
    BY DEF SeenInv, Known
  <2> QED
    BY <2>1, <2>3, <2>4 DEF SeenInv
<1>4. HalfReadInv'
  <2> SUFFICES ASSUME NEW r \in ReadCalls
               PROVE  /\ read[r].stage = "content" =>
                           Was(read[r].content)' /\ (Exists' => disk' \in Known')
                      /\ read[r].stage = "stat" => Was(read[r].stat)'
    BY DEF HalfReadInv, Was
  <2>1. read[r].content \in Contents /\ read[r].stat \in Contents
    BY DEF FileType, ReadStates
  <2> QED
    BY <1>2, <2>1 DEF HalfReadInv, StatIsDue, Known, Was
<1>5. SaveInv' /\ NoBlindOverwrite'
  BY DEF StatIsDue, SaveInv, NoBlindOverwrite, Known
<1> QED
  BY <1>1, <1>3, <1>4, <1>5

\* The save that has the lock writes the file.
LEMMA WriteStep ==
  ASSUME FileInv, NEW i \in Saves, Write(i)
  PROVE  FileInv'
<1> USE DEF FileInv
<1>1. PICK size \in Sizes : time' = time + 1 /\ disk' = [mtime |-> time + 1, size |-> size]
  BY DEF Write, Put
<1>2. /\ time \in Nat /\ time' \in Nat /\ disk' \in Contents /\ disk'.mtime = time' /\ disk'.mtime # 0
  BY <1>1 DEF FileType, Contents
<1>3. seen' = seen \cup {disk'} /\ UNCHANGED <<version, read, between>>
  BY DEF Write
<1>4. /\ save' = [save EXCEPT ![i].stage = "written", ![i].found = None]
      /\ save[i] \in SaveStates /\ save[i].stage = "writing"
  BY DEF Write, FileType
<1>5. /\ save'[i] \in SaveStates /\ save'[i].stage = "written" /\ save'[i].expected = save[i].expected
      /\ \A j \in Saves : j # i => save'[j] = save[j]
      /\ save' \in [Saves -> SaveStates]
  <2>1. [save[i] EXCEPT !.stage = "written", !.found = None] \in SaveStates
    BY <1>4, NoneFacts DEF SaveStates
  <2>2. save'[i] = [save[i] EXCEPT !.stage = "written", !.found = None] /\ \A j \in Saves : j # i => save'[j] = save[j]
    BY <1>4 DEF FileType
  <2>3. save'[i].stage = "written" /\ save'[i].expected = save[i].expected
    BY <1>4, <2>2 DEF SaveStates
  <2>4. save' \in [Saves -> SaveStates]
    BY <1>4, <2>1 DEF FileType
  <2> QED
    BY <2>1, <2>2, <2>3, <2>4
<1>6. FileType'
  BY <1>2, <1>3, <1>5 DEF FileType
<1>7. \A c \in Contents : Was(c) => Was(c)'
  BY <1>1, <1>2, WasKept
<1>8. SeenInv'
  <2>1. Was(disk)'
    BY <1>2 DEF Was
  <2>2. \A c \in Known : Was(c)'
    BY <1>7 DEF FileType, SeenInv, Known
  <2>3. \A c \in Known' : Was(c)'
    BY <1>3, <2>1, <2>2 DEF Was, Known
  <2>4. version' # None => version' \in Known'
    BY <1>3 DEF SeenInv, Known
  <2> QED
    BY <1>2, <2>3, <2>4 DEF SeenInv, Exists
<1>9. HalfReadInv'
  <2> SUFFICES ASSUME NEW r \in ReadCalls
               PROVE  /\ read[r].stage = "content" => Was(read[r].content)' /\ disk' \in Known'
                      /\ read[r].stage = "stat" => Was(read[r].stat)'
    BY <1>3 DEF HalfReadInv, Was
  <2>1. read[r].content \in Contents /\ read[r].stat \in Contents
    BY DEF FileType, ReadStates
  <2> QED
    BY <1>3, <1>7, <2>1 DEF HalfReadInv, Was, Known
<1>10. SaveInv'
  BY <1>3, <1>5 DEF SaveInv, Known
<1>11. NoBlindOverwrite'
  BY <1>3, <1>5 DEF NoBlindOverwrite, Known
<1> QED
  BY <1>6, <1>8, <1>9, <1>10, <1>11

\* A save that passes its check overwrites what it expects, or a content of that size.
LEMMA ChecksWhatItOverwrites ==
  ASSUME FileInv, NEW i \in Saves, ~ModifiedSince(save[i].expected),
         Exists, save[i].expected # None
  PROVE  disk.size = save[i].expected.size
<1> USE DEF FileInv
<1>1. save[i].expected \in Known /\ Was(save[i].expected) /\ save[i].expected \in Contents /\ disk \in Contents
  BY DEF SaveInv, SeenInv, FileType, Known
<1>2. disk.mtime = time /\ time \in Nat /\ save[i].expected.mtime \in Nat /\ save[i].expected.mtime <= time
  BY <1>1 DEF SeenInv, FileType, Contents, Was
<1>3. CASE save[i].expected.size = disk.size
  BY <1>1, <1>3
<1>4. CASE ~(save[i].expected.mtime < disk.mtime)
  <2>1. save[i].expected.mtime = disk.mtime
    BY <1>2, <1>4
  <2> QED
    BY <1>1, <2>1 DEF Was
<1> QED
  BY <1>3, <1>4 DEF ModifiedSince

LEMMA DoneStep ==
  ASSUME FileInv, NEW i \in Saves, Done(i), UNCHANGED <<disk, time, version, read, seen, between>>
  PROVE  FileInv'
<1>1. /\ SaveAt("done") \in SaveStates
      /\ SaveAt("done").stage = "done"
      /\ SaveAt("done").expected = None
  BY FreshCalls
<1>2. save' = [save EXCEPT ![i] = SaveAt("done")]
  BY DEF Done
<1> QED
  BY <1>1, <1>2, SaveGoesOnStep

LEMMA FallBackStep ==
  ASSUME FileInv, NEW i \in Saves, FallBack(i), UNCHANGED <<disk, time, version, read, seen, between>>
  PROVE  FileInv'
<1> DEFINE x == [SaveAt("locking") EXCEPT !.expected = version]
<1>1. x \in SaveStates /\ x.stage = "locking" /\ x.expected = version
  BY FreshCalls DEF SaveStates, FileInv, FileType
<1>2. version # None => version \in Known
  BY DEF FileInv, SeenInv
<1>3. Done(i) \/ save' = [save EXCEPT ![i] = x]
  BY DEF FallBack
<1> HIDE DEF x
<1> QED
  BY <1>1, <1>2, <1>3, DoneStep, SaveGoesOnStep

LEMMA FileKept ==
  ASSUME FileInv, UNCHANGED <<disk, time, version, save, read, seen, between>>
  PROVE  FileInv'
BY DEF FileInv, FileType, SeenInv, HalfReadInv, SaveInv, NoBlindOverwrite, Was, Exists, Known

LEMMA SaveStep ==
  ASSUME FileInv, NEW i \in Saves, SaveContentChanges(i) \/ SaveContents(i) \/ SaveGoesOn(i)
  PROVE  FileInv'
<1>1. /\ save[i] \in SaveStates /\ version \in Contents
      /\ version # None => version \in Known
      /\ save[i].expected # None => save[i].expected \in Known
  BY DEF FileInv, FileType, SeenInv, SaveInv
<1>2. ASSUME NEW changes \in BOOLEAN, Enter(i, changes) PROVE FileInv'
  <2> DEFINE x == [SaveAt("locking") EXCEPT !.changes = changes, !.expected = version]
  <2>1. x \in SaveStates /\ x.stage = "locking" /\ x.expected = version
    BY <1>1, FreshCalls DEF SaveStates
  <2>2. save' = [save EXCEPT ![i] = x] /\ UNCHANGED <<disk, time, version, read, seen, between>>
    BY <1>2 DEF Enter
  <2> HIDE DEF x
  <2> QED
    BY <1>1, <2>1, <2>2, SaveGoesOnStep
<1>3. CASE Validate(i)
  <2>1. ASSUME ~ModifiedSince(save[i].expected), save' = [save EXCEPT ![i].stage = "writing", ![i].found = disk]
        PROVE  FileInv'
    <3> DEFINE x == [save[i] EXCEPT !.stage = "writing", !.found = disk]
    <3>1. x \in SaveStates /\ x.stage = "writing" /\ x.expected = save[i].expected /\ x.found = disk
      BY <1>1 DEF SaveStates, FileInv, FileType
    <3>2. save' = [save EXCEPT ![i] = x] /\ UNCHANGED <<disk, time, version, read, seen, between>>
      BY <1>1, <1>3, <2>1 DEF Validate, FileInv, FileType
    <3> HIDE DEF x
    <3>3. disk # None /\ x.expected # None => disk.size = x.expected.size
      BY <2>1, <3>1, ChecksWhatItOverwrites DEF FileInv, SeenInv
    <3> QED
      BY <1>1, <3>1, <3>2, <3>3, SaveGoesOnStep
  <2>2. ASSUME save' = [save EXCEPT ![i].stage = "asking"] PROVE FileInv'
    <3> DEFINE x == [save[i] EXCEPT !.stage = "asking"]
    <3>1. x \in SaveStates /\ x.stage = "asking" /\ x.expected = save[i].expected
      BY <1>1 DEF SaveStates
    <3>2. save' = [save EXCEPT ![i] = x] /\ UNCHANGED <<disk, time, version, read, seen, between>>
      BY <1>3, <2>2 DEF Validate
    <3> HIDE DEF x
    <3> QED
      BY <1>1, <3>1, <3>2, SaveGoesOnStep
  <2>3. ASSUME FallBack(i) PROVE FileInv'
    BY <1>3, <2>3, FallBackStep DEF Validate
  <2> QED
    BY <1>3, <2>1, <2>2, <2>3 DEF Validate
<1>4. CASE Write(i)
  BY <1>4, WriteStep
<1>5. CASE Overwrite(i)
  <2> DEFINE x == [SaveAt("locking") EXCEPT !.anyway = TRUE]
  <2>1. x \in SaveStates /\ x.stage = "locking" /\ x.expected = None
    <3>1. /\ SaveAt("locking") \in SaveStates
          /\ SaveAt("locking").stage = "locking"
          /\ SaveAt("locking").expected = None
      BY FreshCalls
    <3> QED
      BY <3>1 DEF SaveStates
  <2>2. save' = [save EXCEPT ![i] = x] /\ UNCHANGED <<disk, time, version, read, seen, between>>
    BY <1>5 DEF Overwrite
  <2> HIDE DEF x
  <2> QED
    BY <2>1, <2>2, SaveGoesOnStep
<1>6. CASE WriteFails(i)
  BY <1>6, DoneStep, FallBackStep DEF WriteFails
<1>7. CASE Written(i)
  <2>1. CASE ~Exists /\ FallBack(i)
    BY <1>7, <2>1, FallBackStep DEF Written
  <2>2. CASE Done(i)
    <3>1. /\ save' = [save EXCEPT ![i] = SaveAt("done")]
          /\ version' = IF Exists THEN disk ELSE version
          /\ UNCHANGED <<disk, time, read, seen, between>>
      BY <1>7, <2>2 DEF Written, Done
    <3>2. /\ SaveAt("done") \in SaveStates
          /\ SaveAt("done").stage = "done"
          /\ SaveAt("done").expected = None
      BY FreshCalls
    <3>3. /\ save'[i] = SaveAt("done") /\ save' \in [Saves -> SaveStates]
          /\ \A j \in Saves : j # i => save'[j] = save[j]
      BY <3>1, <3>2 DEF FileInv, FileType
    <3>4. Exists => disk \in Known
      BY <1>7 DEF Written, FileInv, SaveInv
    <3>5. FileType'
      BY <3>1, <3>3 DEF FileInv, FileType
    <3>6. SeenInv' /\ HalfReadInv'
      BY <3>1, <3>4 DEF FileInv, SeenInv, HalfReadInv, Was, Exists, Known
    <3>7. SaveInv'
      BY <3>1, <3>2, <3>3 DEF FileInv, SaveInv, Exists, Known
    <3>8. NoBlindOverwrite'
      BY <3>1, <3>2, <3>3 DEF FileInv, NoBlindOverwrite, Known
    <3> QED
      BY <3>5, <3>6, <3>7, <3>8 DEF FileInv
  <2> QED
    BY <1>7, <2>1, <2>2 DEF Written
<1>8. CASE GiveUp(i)
  BY <1>8, DoneStep DEF GiveUp
<1> QED
  BY <1>2, <1>3, <1>4, <1>5, <1>6, <1>7, <1>8 DEF SaveContentChanges, SaveContents, SaveGoesOn

LEMMA ReadStep ==
  ASSUME FileInv, NEW r \in ReadCalls, ReadContents(r) \/ ReadGoesOn(r)
  PROVE  FileInv'
<1>1. /\ read[r] \in ReadStates /\ version \in Contents /\ disk \in Contents /\ seen \subseteq Contents
      /\ version # None => version \in Known
      /\ \A content \in Known : Was(content)
  BY DEF FileInv, FileType, SeenInv
<1>2. CASE ReadContents(r)
  <2> DEFINE x == [read[r] EXCEPT !.stage = "reading"]
  <2>1. x \in ReadStates /\ x.stage = "reading"
    BY <1>1 DEF ReadStates
  <2>2. read' = [read EXCEPT ![r] = x] /\ UNCHANGED <<disk, time, version, save, seen, between>>
    BY <1>2 DEF ReadContents
  <2> HIDE DEF x
  <2> QED
    BY <1>1, <2>1, <2>2, ReadGoesOnStep DEF Known
<1>3. CASE ReadFails(r)
  <2>1. /\ read' = [read EXCEPT ![r] = ReadAt("done")] /\ version' = None
        /\ UNCHANGED <<disk, time, save, seen, between>>
    BY <1>3 DEF ReadFails
  <2>2. ReadAt("done") \in ReadStates /\ ReadAt("done").stage = "done"
    BY FreshCalls
  <2> QED
    BY <1>1, <2>1, <2>2, NoneFacts, ReadGoesOnStep DEF Known
<1>4. CASE ReadHalf(r)
  <2>1. Was(disk)
    BY <1>4, DiskWas DEF ReadHalf, FileInv
  <2>2. ASSUME read' = [read EXCEPT ![r].stage = "content", ![r].content = disk] PROVE FileInv'
    <3> DEFINE x == [read[r] EXCEPT !.stage = "content", !.content = disk]
    <3>1. x \in ReadStates /\ x.stage = "content" /\ x.content = disk
      BY <1>1 DEF ReadStates
    <3>2. read' = [read EXCEPT ![r] = x] /\ UNCHANGED <<disk, time, version, save, seen, between>>
      BY <1>1, <1>4, <2>2 DEF ReadHalf, FileInv, FileType
    <3> HIDE DEF x
    <3> QED
      BY <1>1, <2>1, <3>1, <3>2, ReadGoesOnStep DEF Known
  <2>3. ASSUME read' = [read EXCEPT ![r].stage = "stat", ![r].stat = disk] PROVE FileInv'
    <3> DEFINE x == [read[r] EXCEPT !.stage = "stat", !.stat = disk]
    <3>1. x \in ReadStates /\ x.stage = "stat" /\ x.stat = disk
      BY <1>1 DEF ReadStates
    <3>2. read' = [read EXCEPT ![r] = x] /\ UNCHANGED <<disk, time, version, save, seen, between>>
      BY <1>1, <1>4, <2>3 DEF ReadHalf, FileInv, FileType
    <3> HIDE DEF x
    <3> QED
      BY <1>1, <2>1, <3>1, <3>2, ReadGoesOnStep DEF Known
  <2> QED
    BY <1>4, <2>2, <2>3 DEF ReadHalf
<1>5. CASE ReadDone(r)
  <2>1. /\ read' = [read EXCEPT ![r] = ReadAt("done")] /\ UNCHANGED <<disk, time, save, between>>
        /\ ReadAt("done") \in ReadStates /\ ReadAt("done").stage = "done"
    BY <1>5, FreshCalls DEF ReadDone
  <2>2. /\ Exists /\ Was(disk)
        /\ read[r].content \in Contents /\ read[r].stat \in Contents
        /\ read[r].stage = "content" => Was(read[r].content) /\ (disk = read[r].content \/ disk \in Known)
        /\ read[r].stage = "stat" => Was(read[r].stat)
    BY <1>1, <1>5, DiskWas DEF ReadDone, FileInv, HalfReadInv, ReadStates
  <2>3. /\ version' \in Contents /\ version' \in Known'
        /\ seen \subseteq seen' /\ seen' \subseteq Contents
        /\ \A content \in seen' : Was(content)
    BY <1>1, <1>5, <2>2 DEF ReadDone, Known
  <2> QED
    BY <2>1, <2>3, ReadGoesOnStep
<1> QED
  BY <1>2, <1>3, <1>4, <1>5 DEF ReadGoesOn

\* Dirty write prevention, for any number of saves and reads and whatever other programs
\* write when: a save that passes its check unasked goes by a content the editor has read
\* or written, or one that others put between such a content and its stat, and the file
\* it overwrites has the size of that content.
THEOREM NoBlindOverwriteAlways == FileSpec => []NoBlindOverwrite
<1>1. FileInit => FileInv
  <2> SUFFICES ASSUME FileInit PROVE FileInv
    OBVIOUS
  <2>1. /\ disk = [mtime |-> 1, size |-> CHOOSE s \in Sizes : TRUE] /\ time = 1
        /\ version \in {None, disk} /\ seen = {version} \ {None} /\ between = {}
        /\ save = [i \in Saves |-> SaveAt("not called")]
        /\ read = [r \in ReadCalls |-> ReadAt("not called")]
    BY DEF FileInit
  <2>2. SaveAt("not called") \in SaveStates /\ ReadAt("not called") \in ReadStates
    BY NoneFacts DEF SaveAt, SaveStates, ReadAt, ReadStates
  <2>3. disk \in Contents /\ disk.mtime = 1
    BY <2>1 DEF Contents
  <2>4. FileType
    <3>1. version \in Contents /\ seen \subseteq Contents /\ between \subseteq Contents
      BY <2>1, <2>3, NoneFacts
    <3>2. save \in [Saves -> SaveStates] /\ read \in [ReadCalls -> ReadStates]
      BY <2>1, <2>2
    <3>3. time \in Nat
      BY <2>1
    <3> QED
      BY <2>3, <3>1, <3>2, <3>3 DEF FileType
  <2>5. SeenInv
    <3>5. time = 1 /\ disk.mtime = 1
      BY <2>1, <2>3
    <3>1. Was(disk)
      BY <3>5 DEF Was
    <3>2. \A content \in Known : content = disk
      BY <2>1 DEF Known
    <3>3. version # None => version \in Known
      BY <2>1 DEF Known
    <3>4. disk.mtime = time
      BY <3>5
    <3> QED
      BY <2>3, <3>1, <3>2, <3>3, <3>4 DEF SeenInv, Exists
  <2>6. \A i \in Saves : save[i].stage = "not called" /\ save[i].expected = None
    BY <2>1, FreshCalls
  <2>7. \A r \in ReadCalls : read[r].stage = "not called"
    BY <2>1, FreshCalls
  <2> QED
    BY <2>4, <2>5, <2>6, <2>7 DEF FileInv, HalfReadInv, SaveInv, NoBlindOverwrite
<1>2. FileInv /\ [FileNext]_fileVars => FileInv'
  <2> SUFFICES ASSUME FileInv, [FileNext]_fileVars PROVE FileInv'
    OBVIOUS
  <2>1. CASE OthersWrite
    <3>1. PICK size \in Sizes : time' = time + 1 /\ disk' = [mtime |-> time + 1, size |-> size]
      BY <2>1 DEF OthersWrite, Put
    <3>2. time' \in Nat /\ disk' \in Contents /\ disk'.mtime = time + 1
      BY <3>1 DEF FileInv, FileType, Contents
    <3>3. /\ between' = IF StatIsDue THEN between \cup {disk'} ELSE between
          /\ UNCHANGED <<version, save, read, seen>>
      BY <2>1 DEF OthersWrite
    <3>4. Exists'
      BY <3>1 DEF Exists, FileInv, FileType
    <3> QED
      BY <3>1, <3>2, <3>3, <3>4, OthersStep
  <2>2. CASE OthersDelete
    <3>1. disk' = None /\ time' = time /\ between' = between /\ UNCHANGED <<version, save, read, seen>>
      BY <2>2 DEF OthersDelete
    <3>2. time' \in Nat /\ disk' \in Contents /\ ~Exists'
      BY <3>1, NoneFacts DEF FileInv, FileType, Exists
    <3> QED
      BY <3>1, <3>2, OthersStep
  <2>3. CASE FilesChange \/ SyncStat \/ SyncCompare \/ UNCHANGED fileVars
    <3>1. UNCHANGED <<disk, time, version, save, read, seen, between>>
      BY <2>3 DEF FilesChange, SyncStat, SyncCompare, fileVars
    <3> QED
      BY <3>1, FileKept
  <2> QED
    BY <2>1, <2>2, <2>3, SaveStep, ReadStep DEF FileNext
<1>3. FileInv => NoBlindOverwrite
  BY DEF FileInv
<1> QED
  BY <1>1, <1>2, <1>3, PTL DEF FileSpec
=============================================================================
