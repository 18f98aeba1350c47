--------------------------- MODULE MultiplexerProofs ---------------------------
(***************************************************************************)
(* Proofs about Multiplexer, for any paths and any number of open() calls  *)
(* and of messages, where only the front end opens channels.  Of a path no *)
(* channel of which is closed when it is over already: data that was       *)
(* written on a channel that was not over reaches that channel or nobody,  *)
(* no channel loses its registration silently, and the ends agree when     *)
(* nothing is on its way.  Data that was written late may be anywhere      *)
(* among the messages: the invariant passes over it (About).               *)
(***************************************************************************)
EXTENDS Multiplexer, SequenceTheorems, TLAPS

-----------------------------------------------------------------------------
(* Messages about one path in a queue *)

\* The k-th session.
Nth(k) == <<"front", k>>

\* A message is about the channel of a path, unless it is data written when its object was
\* over: that is handled as any data is, and promised to nobody.
About(m, p) == m.path = p /\ ~m.late

Holds(q, p, t) == \E i \in 1..Len(q) : About(q[i], p) /\ q[i].type = t

HoldsClose(q, p, k) == \E i \in 1..Len(q) : About(q[i], p) /\ q[i].type = "Close" /\ q[i].of = Nth(k)

Silent(q, p) == \A i \in 1..Len(q) : ~About(q[i], p)

\* On their way to the back end: messages of its k-th session, and last the open of
\* the next.
BackQueue(q, p, k) ==
  \A i \in 1..Len(q) : About(q[i], p) =>
    /\ q[i].type \in {"Open", "Data", "Close"}
    /\ q[i].type = "Open" => q[i].of = Nth(k + 1) /\ \A j \in i + 1..Len(q) : ~About(q[j], p)
    /\ q[i].type # "Open" => q[i].of = Nth(k)

\* On their way to the front end: messages of its k-th session, then perhaps the
\* acknowledgement of the next, with messages of that one.
Acked(q, p, i) == \E j \in 1..i - 1 : About(q[j], p) /\ q[j].type = "AckOpen"

FrontQueue(q, p, k) ==
  \A i \in 1..Len(q) : About(q[i], p) =>
    /\ q[i].type \in {"AckOpen", "Data", "Close"}
    /\ q[i].type = "AckOpen" \/ Acked(q, p, i) => q[i].of = Nth(k + 1)
    /\ q[i].type = "AckOpen" => ~Acked(q, p, i)
    /\ q[i].type # "AckOpen" /\ ~Acked(q, p, i) => q[i].of = Nth(k)

-----------------------------------------------------------------------------
(* The inductive invariant *)

SessionType == {"front"} \X (Nat \ {0})

\* Only data may be written on an object that is over.
Message ==
  {m \in [type : {"Open", "AckOpen", "Data", "Close"}, path : Paths, of : SessionType, late : BOOLEAN] :
     m.late => m.type = "Data"}

TypeOK ==
  /\ pendingOpen \in [Ends -> SUBSET Paths]
  /\ openChannels \in [Ends -> [Paths -> Nat]]
  /\ disposed \in [Ends -> BOOLEAN]
  /\ over \in [Ends -> [Paths -> SUBSET Nat]]
  /\ inbox \in [Ends -> Seq(Message)]
  /\ session \in [Ends -> [Paths -> Nat]]
  /\ objects \in [Ends -> [Paths -> Seq(SessionType)]]
  /\ closedAgain \in [Ends -> [Paths -> Nat]]

\* A disposed multiplexer has no channels and gets no messages.
DisposedIsEmpty ==
  \A s \in Ends : disposed[s] => inbox[s] = <<>> /\ \A p \in Paths : openChannels[s][p] = 0

Base == TypeOK /\ DisposedIsEmpty /\ pendingOpen["back"] = {}

\* The k-th object of an end is that of the k-th session; only the last is registered, and
\* every other is over.
ObjectsAt(s, p) ==
  /\ \A k \in 1..Created(s, p) : objects[s][p][k] = Nth(k)
  /\ openChannels[s][p] \in {0, Created(s, p)}
  /\ over[s][p] \subseteq 1..Created(s, p)
  /\ \A k \in 1..Created(s, p) : k \notin over[s][p] <=> k = openChannels[s][p]

\* A pending open() of the front end is on its way, or its acknowledgement is.
FrontInv(p) ==
  ~disposed["front"] =>
    /\ p \in pendingOpen["front"] => openChannels["front"][p] = 0 /\ session["front"][p] = Created("front", p) + 1
    /\ p \notin pendingOpen["front"] => session["front"][p] = Created("front", p)
    /\ Holds(inbox["front"], p, "AckOpen") =>
         /\ p \in pendingOpen["front"]
         /\ Created("back", p) = Created("front", p) + 1
         /\ Silent(inbox["back"], p)
    /\ ~Holds(inbox["front"], p, "AckOpen") /\ ~disposed["back"] => Created("back", p) = Created("front", p)
    /\ Holds(inbox["back"], p, "Open") => p \in pendingOpen["front"] /\ ~Holds(inbox["front"], p, "AckOpen")
    /\ p \in pendingOpen["front"] /\ ~disposed["back"] =>
         Holds(inbox["front"], p, "AckOpen") \/ Holds(inbox["back"], p, "Open")
    /\ Holds(inbox["back"], p, "Close") => openChannels["front"][p] = 0

\* The queues, and what a Close in them says of its sender.
QueueInv(p) ==
  /\ FrontQueue(inbox["front"], p, Created("front", p))
  /\ BackQueue(inbox["back"], p, Created("back", p))
  /\ Holds(inbox["back"], p, "Open") /\ openChannels["back"][p] # 0 => Holds(inbox["back"], p, "Close")
  /\ HoldsClose(inbox["front"], p, Created("back", p)) => openChannels["back"][p] = 0

\* Where the ends differ a Close is on its way.
CloseInv(p) ==
  ~disposed["front"] /\ ~disposed["back"] =>
    /\ p \notin pendingOpen["front"] /\ openChannels["front"][p] = 0 /\ openChannels["back"][p] # 0 =>
         Holds(inbox["back"], p, "Close")
    /\ p \notin pendingOpen["front"] /\ openChannels["front"][p] # 0 /\ openChannels["back"][p] = 0 =>
         HoldsClose(inbox["front"], p, Created("back", p))
    /\ Holds(inbox["front"], p, "AckOpen") /\ openChannels["back"][p] = 0 =>
         HoldsClose(inbox["front"], p, Created("back", p))

PathInv(p) == FrontInv(p) /\ QueueInv(p) /\ CloseInv(p)

\* What holds of a path no channel of which was closed when it was over.
Sound(p) == ObjectsAt("front", p) /\ ObjectsAt("back", p) /\ PathInv(p)

IInv == Base /\ \A p \in Paths : ClosedOnce(p) => Sound(p)

-----------------------------------------------------------------------------
(* What arriving and handling do to the messages about a path *)

LEMMA SessionsDiffer == \A i, j \in Nat : Nth(i) = Nth(j) => i = j
BY DEF Nth

\* Nothing is held by an empty queue.
LEMMA EmptyQueue ==
  ASSUME NEW p, NEW k
  PROVE  /\ \A t : ~Holds(<<>>, p, t)
         /\ \A n : ~HoldsClose(<<>>, p, n)
         /\ Silent(<<>>, p) /\ BackQueue(<<>>, p, k) /\ FrontQueue(<<>>, p, k)
BY DEF Holds, HoldsClose, Silent, BackQueue, FrontQueue

\* A queue that is silent about a path holds nothing about it.
LEMMA SilentQueue ==
  ASSUME NEW q \in Seq(Message), NEW p, Silent(q, p)
  PROVE  /\ \A t : ~Holds(q, p, t)
         /\ \A n : ~HoldsClose(q, p, n)
         /\ \A k : BackQueue(q, p, k)
BY DEF Holds, HoldsClose, Silent, BackQueue

\* A Close that is held, of whatever session, is a Close.
LEMMA HeldClose ==
  ASSUME NEW q, NEW p, NEW n, HoldsClose(q, p, n)
  PROVE  Holds(q, p, "Close")
BY DEF Holds, HoldsClose

\* Without an acknowledgement nothing is of the next session.
LEMMA NoCloseAhead ==
  ASSUME NEW q \in Seq(Message), NEW p, NEW k \in Nat, FrontQueue(q, p, k), ~Holds(q, p, "AckOpen")
  PROVE  ~HoldsClose(q, p, k + 1)
<1> SUFFICES ASSUME NEW i \in 1..Len(q), About(q[i], p), q[i].type = "Close", q[i].of = Nth(k + 1)
             PROVE  FALSE
  BY DEF HoldsClose
<1>1. ~Acked(q, p, i)
  BY DEF Acked, Holds
<1>2. q[i].of = Nth(k)
  BY <1>1 DEF FrontQueue
<1> QED
  BY <1>2, SessionsDiffer

\* A message arrives at the end of the queue.
LEMMA Arrives ==
  ASSUME NEW q \in Seq(Message), NEW m \in Message
  PROVE  /\ Append(q, m) \in Seq(Message)
         /\ Len(Append(q, m)) = Len(q) + 1 /\ Len(q) \in Nat
         /\ \A i \in 1..Len(q) : Append(q, m)[i] = q[i]
         /\ Append(q, m)[Len(q) + 1] = m
BY AppendProperties, LenProperties

LEMMA ArrivesHolds ==
  ASSUME NEW q \in Seq(Message), NEW m \in Message, NEW p
  PROVE  /\ \A t : Holds(Append(q, m), p, t) <=> Holds(q, p, t) \/ (About(m, p) /\ m.type = t)
         /\ \A n : HoldsClose(Append(q, m), p, n) <=>
                     HoldsClose(q, p, n) \/ (About(m, p) /\ m.type = "Close" /\ m.of = Nth(n))
         /\ Silent(Append(q, m), p) <=> Silent(q, p) /\ ~About(m, p)
<1>1. PICK r : r = Append(q, m)
  OBVIOUS
<1>2. /\ Len(r) = Len(q) + 1 /\ Len(q) \in Nat
      /\ \A i \in 1..Len(q) : r[i] = q[i]
      /\ r[Len(q) + 1] = m
  BY <1>1, Arrives
<1>3. \A i \in 1..Len(r) : i \in 1..Len(q) \/ i = Len(q) + 1
  BY <1>2
<1>4. /\ \A i \in 1..Len(q) : i \in 1..Len(r)
      /\ Len(q) + 1 \in 1..Len(r)
  BY <1>2
<1>5. \A t : Holds(r, p, t) <=> Holds(q, p, t) \/ (About(m, p) /\ m.type = t)
  BY <1>2, <1>3, <1>4 DEF Holds
<1>6. \A n : HoldsClose(r, p, n) <=> HoldsClose(q, p, n) \/ (About(m, p) /\ m.type = "Close" /\ m.of = Nth(n))
  BY <1>2, <1>3, <1>4 DEF HoldsClose
<1>7. Silent(r, p) <=> Silent(q, p) /\ ~About(m, p)
  BY <1>2, <1>3, <1>4 DEF Silent
<1> QED
  BY <1>1, <1>5, <1>6, <1>7

\* What may arrive at the back end: while no Open waits there, a message of its last
\* session or the open of the next.
BackMay(q, p, k, m) ==
  About(m, p) =>
    /\ ~Holds(q, p, "Open")
    /\ \/ m.type \in {"Data", "Close"} /\ m.of = Nth(k)
       \/ m.type = "Open" /\ m.of = Nth(k + 1)

LEMMA ArrivesBack ==
  ASSUME NEW q \in Seq(Message), NEW m \in Message, NEW p, NEW k,
         BackQueue(q, p, k), BackMay(q, p, k, m)
  PROVE  BackQueue(Append(q, m), p, k)
<1>1. PICK r : r = Append(q, m)
  OBVIOUS
<1>2. /\ Len(r) = Len(q) + 1 /\ Len(q) \in Nat
      /\ \A i \in 1..Len(q) : r[i] = q[i]
      /\ r[Len(q) + 1] = m
  BY <1>1, Arrives
<1>3. BackQueue(r, p, k)
  <2> SUFFICES ASSUME NEW i \in 1..Len(r), About(r[i], p)
               PROVE  /\ r[i].type \in {"Open", "Data", "Close"}
                      /\ r[i].type = "Open" => r[i].of = Nth(k + 1) /\ \A j \in i + 1..Len(r) : ~About(r[j], p)
                      /\ r[i].type # "Open" => r[i].of = Nth(k)
    BY DEF BackQueue
  <2>1. CASE i \in 1..Len(q)
    <3>1. /\ r[i].type \in {"Open", "Data", "Close"}
          /\ r[i].type = "Open" => r[i].of = Nth(k + 1) /\ \A j \in i + 1..Len(q) : ~About(q[j], p)
          /\ r[i].type # "Open" => r[i].of = Nth(k)
      BY <2>1, <1>2 DEF BackQueue
    <3>2. ASSUME r[i].type = "Open", NEW j \in i + 1..Len(r), About(r[j], p)
          PROVE  FALSE
      <4>1. Holds(q, p, "Open")
        BY <2>1, <3>2, <1>2 DEF Holds
      <4>2. j = Len(q) + 1 \/ (j \in 1..Len(q) /\ j \in i + 1..Len(q))
        BY <2>1, <1>2
      <4> QED
        BY <4>1, <4>2, <3>1, <3>2, <1>2 DEF BackMay
    <3> QED
      BY <3>1, <3>2
  <2>2. CASE i = Len(q) + 1
    <3>1. r[i] = m /\ \A j \in i + 1..Len(r) : FALSE
      BY <2>2, <1>2
    <3> QED
      BY <3>1 DEF BackMay
  <2> QED
    BY <1>2, <2>1, <2>2
<1> QED
  BY <1>1, <1>3

\* What may arrive at the front end: messages of the last session of the back end, and
\* the acknowledgement of a session, once.
FrontMay(q, p, k, m) ==
  About(m, p) =>
    \/ m.type = "AckOpen" /\ m.of = Nth(k + 1) /\ ~Holds(q, p, "AckOpen")
    \/ m.type \in {"Data", "Close"} /\ m.of = Nth(k + 1) /\ Holds(q, p, "AckOpen")
    \/ m.type \in {"Data", "Close"} /\ m.of = Nth(k) /\ ~Holds(q, p, "AckOpen")

LEMMA ArrivesFront ==
  ASSUME NEW q \in Seq(Message), NEW m \in Message, NEW p, NEW k,
         FrontQueue(q, p, k), FrontMay(q, p, k, m)
  PROVE  FrontQueue(Append(q, m), p, k)
<1>1. PICK r : r = Append(q, m)
  OBVIOUS
<1>2. /\ Len(r) = Len(q) + 1 /\ Len(q) \in Nat
      /\ \A i \in 1..Len(q) : r[i] = q[i]
      /\ r[Len(q) + 1] = m
  BY <1>1, Arrives
<1>3. FrontQueue(r, p, k)
  <2> SUFFICES ASSUME NEW i \in 1..Len(r), About(r[i], p)
               PROVE  /\ r[i].type \in {"AckOpen", "Data", "Close"}
                      /\ r[i].type = "AckOpen" \/ Acked(r, p, i) => r[i].of = Nth(k + 1)
                      /\ r[i].type = "AckOpen" => ~Acked(r, p, i)
                      /\ r[i].type # "AckOpen" /\ ~Acked(r, p, i) => r[i].of = Nth(k)
    BY DEF FrontQueue
  <2>1. CASE i \in 1..Len(q)
    <3>1. Acked(r, p, i) <=> Acked(q, p, i)
      BY <2>1, <1>2 DEF Acked
    <3> QED
      BY <2>1, <3>1, <1>2 DEF FrontQueue
  <2>2. CASE i = Len(q) + 1
    <3>1. Acked(r, p, i) <=> Holds(q, p, "AckOpen")
      BY <2>2, <1>2 DEF Acked, Holds
    <3>2. r[i] = m
      BY <2>2, <1>2
    <3> QED
      BY <3>1, <3>2 DEF FrontMay
  <2> QED
    BY <1>2, <2>1, <2>2
<1> QED
  BY <1>1, <1>3

\* The first message is handled.
LEMMA Handled ==
  ASSUME NEW q \in Seq(Message), q # <<>>
  PROVE  /\ Head(q) \in Message /\ Head(q) = q[1] /\ 1 \in 1..Len(q)
         /\ Tail(q) \in Seq(Message)
         /\ Len(Tail(q)) = Len(q) - 1 /\ Len(q) \in Nat /\ Len(q) > 0
         /\ \A i \in 1..Len(Tail(q)) : Tail(q)[i] = q[i + 1]
<1>1. Len(q) \in Nat /\ Len(q) # 0
  BY LenProperties, EmptySeq
<1> QED
  BY <1>1, HeadTailProperties, ElementOfSeq

LEMMA HandledHolds ==
  ASSUME NEW q \in Seq(Message), q # <<>>, NEW p
  PROVE  /\ \A t : Holds(q, p, t) <=> Holds(Tail(q), p, t) \/ (About(Head(q), p) /\ Head(q).type = t)
         /\ \A n : HoldsClose(q, p, n) <=>
                     HoldsClose(Tail(q), p, n)
                     \/ (About(Head(q), p) /\ Head(q).type = "Close" /\ Head(q).of = Nth(n))
         /\ Silent(q, p) <=> Silent(Tail(q), p) /\ ~About(Head(q), p)
<1>1. PICK r, h : r = Tail(q) /\ h = Head(q)
  OBVIOUS
<1>2. /\ h = q[1] /\ 1 \in 1..Len(q)
      /\ Len(r) = Len(q) - 1 /\ Len(q) \in Nat /\ Len(q) > 0
      /\ \A i \in 1..Len(r) : r[i] = q[i + 1]
  BY <1>1, Handled
<1>3. /\ \A i \in 1..Len(q) : i = 1 \/ (i - 1 \in 1..Len(r) /\ r[i - 1] = q[i])
      /\ \A i \in 1..Len(r) : i + 1 \in 1..Len(q)
  BY <1>2
<1>4. \A t : Holds(q, p, t) <=> Holds(r, p, t) \/ (About(h, p) /\ h.type = t)
  BY <1>2, <1>3 DEF Holds
<1>5. \A n : HoldsClose(q, p, n) <=>
               HoldsClose(r, p, n) \/ (About(h, p) /\ h.type = "Close" /\ h.of = Nth(n))
  BY <1>2, <1>3 DEF HoldsClose
<1>6. Silent(q, p) <=> Silent(r, p) /\ ~About(h, p)
  BY <1>2, <1>3 DEF Silent
<1> QED
  BY <1>1, <1>4, <1>5, <1>6

\* The back end handles a message; an Open is the last it hears of the path.
LEMMA HandledBack ==
  ASSUME NEW q \in Seq(Message), q # <<>>, NEW p, NEW k, BackQueue(q, p, k)
  PROVE  /\ BackQueue(Tail(q), p, k)
         /\ About(Head(q), p) =>
              /\ Head(q).type \in {"Open", "Data", "Close"}
              /\ Head(q).type = "Open" => Head(q).of = Nth(k + 1) /\ Silent(Tail(q), p)
              /\ Head(q).type # "Open" => Head(q).of = Nth(k)
<1>1. PICK r, h : r = Tail(q) /\ h = Head(q)
  OBVIOUS
<1>2. /\ h = q[1] /\ 1 \in 1..Len(q)
      /\ Len(r) = Len(q) - 1 /\ Len(q) \in Nat /\ Len(q) > 0
      /\ \A i \in 1..Len(r) : r[i] = q[i + 1]
  BY <1>1, Handled
<1>3. BackQueue(r, p, k)
  <2> SUFFICES ASSUME NEW i \in 1..Len(r), About(r[i], p)
               PROVE  /\ r[i].type \in {"Open", "Data", "Close"}
                      /\ r[i].type = "Open" => r[i].of = Nth(k + 1) /\ \A j \in i + 1..Len(r) : ~About(r[j], p)
                      /\ r[i].type # "Open" => r[i].of = Nth(k)
    BY DEF BackQueue
  <2>1. i + 1 \in 1..Len(q) /\ r[i] = q[i + 1]
    BY <1>2
  <2>2. \A j \in i + 1..Len(r) : j + 1 \in (i + 1) + 1..Len(q) /\ r[j] = q[j + 1]
    BY <1>2
  <2> QED
    BY <2>1, <2>2 DEF BackQueue
<1>4. About(h, p) =>
        /\ h.type \in {"Open", "Data", "Close"}
        /\ h.type = "Open" => h.of = Nth(k + 1) /\ \A j \in 1 + 1..Len(q) : ~About(q[j], p)
        /\ h.type # "Open" => h.of = Nth(k)
  BY <1>2 DEF BackQueue
<1>5. (\A j \in 1 + 1..Len(q) : ~About(q[j], p)) => Silent(r, p)
  BY <1>2 DEF Silent
<1> QED
  BY <1>1, <1>3, <1>4, <1>5

\* The front end handles a message; an acknowledgement begins the next session.
LEMMA HandledFront ==
  ASSUME NEW q \in Seq(Message), q # <<>>, NEW p, NEW k, FrontQueue(q, p, k)
  PROVE  /\ ~(About(Head(q), p) /\ Head(q).type = "AckOpen") => FrontQueue(Tail(q), p, k)
         /\ About(Head(q), p) /\ Head(q).type = "AckOpen" =>
              /\ FrontQueue(Tail(q), p, k + 1)
              /\ ~Holds(Tail(q), p, "AckOpen")
         /\ About(Head(q), p) =>
              /\ Head(q).type \in {"AckOpen", "Data", "Close"}
              /\ Head(q).type = "AckOpen" => Head(q).of = Nth(k + 1)
              /\ Head(q).type # "AckOpen" => Head(q).of = Nth(k)
<1>1. PICK r, h : r = Tail(q) /\ h = Head(q)
  OBVIOUS
<1>2. /\ h = q[1] /\ 1 \in 1..Len(q)
      /\ Len(r) = Len(q) - 1 /\ Len(q) \in Nat /\ Len(q) > 0
      /\ \A i \in 1..Len(r) : r[i] = q[i + 1] /\ i + 1 \in 1..Len(q)
  BY <1>1, Handled
<1>3. ~Acked(q, p, 1)
  BY DEF Acked
<1>4. About(h, p) =>
        /\ h.type \in {"AckOpen", "Data", "Close"}
        /\ h.type = "AckOpen" => h.of = Nth(k + 1)
        /\ h.type # "AckOpen" => h.of = Nth(k)
  BY <1>2, <1>3 DEF FrontQueue
<1>5. ASSUME NEW i \in 1..Len(r)
      PROVE  Acked(q, p, i + 1) <=> Acked(r, p, i) \/ (About(h, p) /\ h.type = "AckOpen")
  <2>1. /\ \A j \in 1..(i + 1) - 1 : j = 1 \/ (j - 1 \in 1..i - 1 /\ r[j - 1] = q[j])
        /\ \A j \in 1..i - 1 : j + 1 \in 1..(i + 1) - 1 /\ r[j] = q[j + 1]
        /\ 1 \in 1..(i + 1) - 1
    BY <1>2
  <2>2. ASSUME Acked(q, p, i + 1)
        PROVE  Acked(r, p, i) \/ (About(h, p) /\ h.type = "AckOpen")
    <3>1. PICK j \in 1..(i + 1) - 1 : About(q[j], p) /\ q[j].type = "AckOpen"
      BY <2>2 DEF Acked
    <3> QED
      BY <2>1, <3>1, <1>2 DEF Acked
  <2>3. ASSUME Acked(r, p, i)
        PROVE  Acked(q, p, i + 1)
    BY <2>1, <2>3 DEF Acked
  <2>4. ASSUME About(h, p), h.type = "AckOpen"
        PROVE  Acked(q, p, i + 1)
    BY <2>1, <2>4, <1>2 DEF Acked
  <2> QED
    BY <2>2, <2>3, <2>4
<1>6. ASSUME ~(About(h, p) /\ h.type = "AckOpen")
      PROVE  FrontQueue(r, p, k)
  BY <1>2, <1>5, <1>6 DEF FrontQueue
<1>7. ASSUME About(h, p), h.type = "AckOpen", NEW i \in 1..Len(r), About(r[i], p)
      PROVE  r[i].type \in {"Data", "Close"} /\ r[i].of = Nth(k + 1)
  BY <1>2, <1>5, <1>7 DEF FrontQueue
<1>8. ASSUME About(h, p), h.type = "AckOpen"
      PROVE  /\ FrontQueue(r, p, k + 1)
             /\ ~Holds(r, p, "AckOpen")
  <2>1. ~Holds(r, p, "AckOpen")
    BY <1>7, <1>8 DEF Holds
  <2>2. ASSUME NEW i \in 1..Len(r), Acked(r, p, i)
        PROVE  FALSE
    <3>1. PICK j \in 1..i - 1 : About(r[j], p) /\ r[j].type = "AckOpen"
      BY <2>2 DEF Acked
    <3>2. j \in 1..Len(r)
      BY <1>2
    <3> QED
      BY <2>1, <3>1, <3>2 DEF Holds
  <2> QED
    BY <1>7, <1>8, <2>1, <2>2 DEF FrontQueue
<1> QED
  BY <1>1, <1>4, <1>6, <1>8

-----------------------------------------------------------------------------
(* Paths a step is not about *)

\* What the invariant reads of the messages on their way to either end is the same.
FrontSame(q, r, p) ==
  /\ Holds(r, p, "AckOpen") <=> Holds(q, p, "AckOpen")
  /\ \A n : HoldsClose(r, p, n) <=> HoldsClose(q, p, n)
  /\ \A k : FrontQueue(q, p, k) => FrontQueue(r, p, k)

BackSame(q, r, p) ==
  /\ Holds(r, p, "Open") <=> Holds(q, p, "Open")
  /\ Holds(r, p, "Close") <=> Holds(q, p, "Close")
  /\ Silent(q, p) => Silent(r, p)
  /\ \A k : BackQueue(q, p, k) => BackQueue(r, p, k)

LEMMA NothingArrives ==
  ASSUME NEW q, NEW p
  PROVE  FrontSame(q, q, p) /\ BackSame(q, q, p)
BY DEF FrontSame, BackSame

LEMMA OtherArrives ==
  ASSUME NEW q \in Seq(Message), NEW m \in Message, NEW p, ~About(m, p)
  PROVE  FrontSame(q, Append(q, m), p) /\ BackSame(q, Append(q, m), p)
<1>1. \A k : FrontQueue(q, p, k) => FrontQueue(Append(q, m), p, k)
  BY ArrivesFront DEF FrontMay
<1>2. \A k : BackQueue(q, p, k) => BackQueue(Append(q, m), p, k)
  BY ArrivesBack DEF BackMay
<1> QED
  BY <1>1, <1>2, ArrivesHolds DEF FrontSame, BackSame

LEMMA OtherHandled ==
  ASSUME NEW q \in Seq(Message), q # <<>>, NEW p, ~About(Head(q), p) \/ Head(q).type = "Data"
  PROVE  FrontSame(q, Tail(q), p) /\ BackSame(q, Tail(q), p)
<1>1. \A k : FrontQueue(q, p, k) => FrontQueue(Tail(q), p, k)
  BY HandledFront
<1>2. \A k : BackQueue(q, p, k) => BackQueue(Tail(q), p, k)
  BY HandledBack
<1> QED
  BY <1>1, <1>2, HandledHolds DEF FrontSame, BackSame

\* Nothing of a path changes but what the invariant does not read.
PathSame(p) ==
  /\ FrontSame(inbox["front"], inbox'["front"], p)
  /\ BackSame(inbox["back"], inbox'["back"], p)
  /\ UNCHANGED disposed
  /\ \A s \in Ends : /\ openChannels'[s][p] = openChannels[s][p]
                     /\ objects'[s][p] = objects[s][p]
                     /\ over'[s][p] = over[s][p]
                     /\ closedAgain'[s][p] = closedAgain[s][p]
  /\ session'["front"][p] = session["front"][p]
  /\ p \in pendingOpen'["front"] <=> p \in pendingOpen["front"]

LEMMA SoundIsKept ==
  ASSUME NEW p \in Paths, Sound(p), PathSame(p)
  PROVE  Sound(p)'
<1>1. /\ openChannels'["front"][p] = openChannels["front"][p]
      /\ openChannels'["back"][p] = openChannels["back"][p]
      /\ Created("front", p)' = Created("front", p)
      /\ Created("back", p)' = Created("back", p)
  BY DEF Ends, Created, PathSame
<1>2. FrontInv(p)'
  BY <1>1 DEF FrontInv, PathInv, FrontSame, BackSame, PathSame, Sound
<1>3. QueueInv(p)'
  BY <1>1 DEF QueueInv, PathInv, FrontSame, BackSame, PathSame, Sound
<1>4. CloseInv(p)'
  BY <1>1 DEF CloseInv, PathInv, FrontSame, BackSame, PathSame, Sound
<1>5. ObjectsAt("front", p)' /\ ObjectsAt("back", p)'
  <2> SUFFICES ASSUME NEW s \in Ends, ObjectsAt(s, p) PROVE ObjectsAt(s, p)'
    BY DEF Sound, Ends
  <2>1. /\ objects'[s][p] = objects[s][p] /\ openChannels'[s][p] = openChannels[s][p]
        /\ over'[s][p] = over[s][p] /\ Created(s, p)' = Created(s, p)
    BY DEF PathSame, Created
  <2> QED
    BY <2>1 DEF ObjectsAt
<1> QED
  BY <1>2, <1>3, <1>4, <1>5 DEF PathInv, Sound

\* In a queue nothing moves but a message about p.
Moves(q, r, p) ==
  \/ r = q
  \/ q # <<>> /\ r = Tail(q) /\ Head(q).path = p
  \/ \E m \in Message : m.path = p /\ r = Append(q, m)

\* A step that is about the path p alone.
OnlyAbout(p) ==
  /\ UNCHANGED disposed
  /\ \A s \in Ends : Moves(inbox[s], inbox'[s], p)
  /\ \A r \in Paths \ {p} :
       /\ \A s \in Ends : /\ openChannels'[s][r] = openChannels[s][r]
                          /\ objects'[s][r] = objects[s][r]
                          /\ over'[s][r] = over[s][r]
                          /\ closedAgain'[s][r] = closedAgain[s][r]
       /\ session'["front"][r] = session["front"][r]
       /\ r \in pendingOpen'["front"] <=> r \in pendingOpen["front"]

LEMMA OtherMoves ==
  ASSUME NEW q \in Seq(Message), NEW p, NEW r, r # p, NEW n, Moves(q, n, p)
  PROVE  FrontSame(q, n, r) /\ BackSame(q, n, r)
<1>1. CASE n = q
  BY <1>1, NothingArrives
<1>2. CASE q # <<>> /\ n = Tail(q) /\ Head(q).path = p
  BY <1>2, OtherHandled DEF About
<1>3. ASSUME NEW m \in Message, m.path = p, n = Append(q, m)
      PROVE  FrontSame(q, n, r) /\ BackSame(q, n, r)
  BY <1>3, OtherArrives DEF About
<1> QED
  BY <1>1, <1>2, <1>3 DEF Moves

\* It is enough to look at the path that a step is about.
LEMMA StepAbout ==
  ASSUME IInv, NEW p \in Paths, OnlyAbout(p), Base', ClosedOnce(p)' => Sound(p)'
  PROVE  IInv'
<1>1. ASSUME NEW r \in Paths \ {p}, ClosedOnce(r)'
      PROVE  Sound(r)'
  <2>1. ClosedOnce(r)
    BY <1>1 DEF ClosedOnce, OnlyAbout
  <2>2. Sound(r)
    BY <2>1 DEF IInv
  <2>3. inbox["front"] \in Seq(Message) /\ inbox["back"] \in Seq(Message)
    BY DEF IInv, Base, TypeOK, Ends
  <2>4. /\ Moves(inbox["front"], inbox'["front"], p)
        /\ Moves(inbox["back"], inbox'["back"], p)
    BY DEF OnlyAbout, Ends
  <2>5. /\ FrontSame(inbox["front"], inbox'["front"], r)
        /\ BackSame(inbox["back"], inbox'["back"], r)
    BY <2>3, <2>4, OtherMoves
  <2>6. PathSame(r)
    BY <2>5 DEF PathSame, OnlyAbout
  <2> QED
    BY <2>2, <2>6, SoundIsKept
<1> QED
  BY <1>1 DEF IInv

-----------------------------------------------------------------------------
(* The main channel *)

LEMMA Sends ==
  ASSUME TypeOK, NEW s \in Ends, NEW m \in Message, Send(s, m)
  PROVE  /\ inbox' \in [Ends -> Seq(Message)]
         /\ inbox'[s] = inbox[s]
         /\ disposed[s] \/ disposed[Other(s)] => inbox'[Other(s)] = inbox[Other(s)]
         /\ ~disposed[s] /\ ~disposed[Other(s)] =>
              inbox'[Other(s)] = Append(inbox[Other(s)], m)
         /\ \A t \in Ends : Moves(inbox[t], inbox'[t], m.path) /\ (disposed[t] => inbox'[t] = inbox[t])
<1>1. Other(s) \in Ends /\ Other(s) # s /\ \A t \in Ends : t = s \/ t = Other(s)
  BY DEF Ends, Other
<1>2. Append(inbox[Other(s)], m) \in Seq(Message)
  BY <1>1, Arrives DEF TypeOK
<1>3. /\ inbox' \in [Ends -> Seq(Message)]
      /\ inbox'[s] = inbox[s]
      /\ disposed[s] \/ disposed[Other(s)] => inbox'[Other(s)] = inbox[Other(s)]
      /\ ~disposed[s] /\ ~disposed[Other(s)] =>
           inbox'[Other(s)] = Append(inbox[Other(s)], m)
  BY <1>1, <1>2 DEF Send, TypeOK
<1> QED
  BY <1>1, <1>3 DEF Moves

LEMMA Receives ==
  ASSUME TypeOK, NEW s \in Ends, ~disposed[s], inbox[s] # <<>>, Receive(s)
  PROVE  /\ inbox' \in [Ends -> Seq(Message)]
         /\ inbox'[s] = Tail(inbox[s])
         /\ inbox'[Other(s)] = inbox[Other(s)]
         /\ \A t \in Ends : Moves(inbox[t], inbox'[t], Head(inbox[s]).path)
                            /\ (disposed[t] => inbox'[t] = inbox[t])
<1>1. Other(s) \in Ends /\ Other(s) # s /\ \A t \in Ends : t = s \/ t = Other(s)
  BY DEF Ends, Other
<1>2. Tail(inbox[s]) \in Seq(Message)
  BY Handled DEF TypeOK
<1>3. /\ inbox' \in [Ends -> Seq(Message)]
      /\ inbox'[s] = Tail(inbox[s])
      /\ inbox'[Other(s)] = inbox[Other(s)]
  BY <1>1, <1>2 DEF Receive, TypeOK
<1> QED
  BY <1>1, <1>3 DEF Moves

LEMMA ReceivesAndSends ==
  ASSUME TypeOK, NEW s \in Ends, ~disposed[s], inbox[s] # <<>>, NEW m \in Message, ReceiveAndSend(s, m),
         m.path = Head(inbox[s]).path
  PROVE  /\ inbox' \in [Ends -> Seq(Message)]
         /\ inbox'[s] = Tail(inbox[s])
         /\ disposed[Other(s)] => inbox'[Other(s)] = inbox[Other(s)]
         /\ ~disposed[Other(s)] => inbox'[Other(s)] = Append(inbox[Other(s)], m)
         /\ \A t \in Ends : Moves(inbox[t], inbox'[t], m.path) /\ (disposed[t] => inbox'[t] = inbox[t])
<1>1. Other(s) \in Ends /\ Other(s) # s /\ \A t \in Ends : t = s \/ t = Other(s)
  BY DEF Ends, Other
<1>2. Tail(inbox[s]) \in Seq(Message) /\ Append(inbox[Other(s)], m) \in Seq(Message)
  BY <1>1, Handled, Arrives DEF TypeOK
<1>3. /\ inbox' \in [Ends -> Seq(Message)]
      /\ inbox'[s] = Tail(inbox[s])
      /\ disposed[Other(s)] => inbox'[Other(s)] = inbox[Other(s)]
      /\ ~disposed[Other(s)] => inbox'[Other(s)] = Append(inbox[Other(s)], m)
  BY <1>1, <1>2 DEF ReceiveAndSend, TypeOK
<1> QED
  BY <1>1, <1>3 DEF Moves

-----------------------------------------------------------------------------
(* Channel objects *)

\* An object is made.
LEMMA Creates ==
  ASSUME TypeOK, NEW s \in Ends, NEW p \in Paths, NEW ss \in SessionType, CreateChannel(s, p, ss)
  PROVE  /\ openChannels' \in [Ends -> [Paths -> Nat]]
         /\ objects' \in [Ends -> [Paths -> Seq(SessionType)]]
         /\ Created(s, p) \in Nat
         /\ Created(s, p)' = Created(s, p) + 1
         /\ objects'[s][p] = Append(objects[s][p], ss)
         /\ openChannels'[s][p] = Created(s, p) + 1
         /\ \A t \in Ends, r \in Paths : t # s \/ r # p =>
              openChannels'[t][r] = openChannels[t][r] /\ objects'[t][r] = objects[t][r]
<1>1. objects[s][p] \in Seq(SessionType) /\ Created(s, p) \in Nat
  BY LenProperties DEF TypeOK, Created
<1>2. /\ Append(objects[s][p], ss) \in Seq(SessionType)
      /\ Len(Append(objects[s][p], ss)) = Created(s, p) + 1
  BY <1>1, AppendProperties DEF Created
<1>3. /\ objects' \in [Ends -> [Paths -> Seq(SessionType)]]
      /\ objects'[s][p] = Append(objects[s][p], ss)
      /\ \A t \in Ends, r \in Paths : t # s \/ r # p => objects'[t][r] = objects[t][r]
  BY <1>2 DEF CreateChannel, TypeOK
<1>4. /\ openChannels' \in [Ends -> [Paths -> Nat]]
      /\ openChannels'[s][p] = Created(s, p) + 1
      /\ \A t \in Ends, r \in Paths : t # s \/ r # p => openChannels'[t][r] = openChannels[t][r]
  BY <1>1 DEF CreateChannel, TypeOK
<1>5. Created(s, p)' = Created(s, p) + 1
  BY <1>2, <1>3 DEF Created
<1> QED
  BY <1>1, <1>3, <1>4, <1>5

\* It is made for the next session where none is registered.
LEMMA CreatesNext ==
  ASSUME TypeOK, NEW s \in Ends, NEW p \in Paths, ObjectsAt(s, p), openChannels[s][p] = 0,
         NEW ss \in SessionType, ss = Nth(Created(s, p) + 1),
         CreateChannel(s, p, ss), UNCHANGED over
  PROVE  ObjectsAt(s, p)'
<1>1. objects[s][p] \in Seq(SessionType) /\ Created(s, p) \in Nat
  BY LenProperties DEF TypeOK, Created
<1>2. /\ \A k \in 1..Created(s, p) : Append(objects[s][p], ss)[k] = objects[s][p][k]
      /\ Append(objects[s][p], ss)[Created(s, p) + 1] = ss
  BY <1>1, AppendProperties DEF Created
<1>3. /\ Created(s, p)' = Created(s, p) + 1
      /\ objects'[s][p] = Append(objects[s][p], ss)
      /\ openChannels'[s][p] = Created(s, p) + 1
  BY Creates
<1>4. PICK n : n = Created(s, p)
  OBVIOUS
<1>5. /\ \A k \in 1..n : objects[s][p][k] = Nth(k)
      /\ over[s][p] \subseteq 1..n
      /\ \A k \in 1..n : k \notin over[s][p] <=> k = 0
  BY <1>4 DEF ObjectsAt
<1>6. ASSUME NEW k \in 1..n + 1
      PROVE  objects'[s][p][k] = Nth(k)
  <2>1. k \in 1..n \/ k = n + 1
    BY <1>1, <1>4
  <2>2. CASE k \in 1..n
    BY <2>2, <1>2, <1>3, <1>4, <1>5
  <2>3. CASE k = n + 1
    BY <2>3, <1>2, <1>3, <1>4
  <2> QED
    BY <2>1, <2>2, <2>3
<1>7. ASSUME NEW k \in 1..n + 1
      PROVE  k \notin over[s][p] <=> k = n + 1
  <2>1. k \in 1..n \/ k = n + 1
    BY <1>1, <1>4
  <2> QED
    BY <2>1, <1>1, <1>4, <1>5
<1>8. over[s][p] \subseteq 1..n + 1
  BY <1>1, <1>4, <1>5
<1>9. Created(s, p)' = n + 1 /\ openChannels'[s][p] = n + 1 /\ over'[s][p] = over[s][p]
  BY <1>3, <1>4
<1> QED
  BY <1>6, <1>7, <1>8, <1>9 DEF ObjectsAt

\* Some objects are closed, the registered one among them if there is any, and none is
\* registered any more.
LEMMA Unregisters ==
  ASSUME TypeOK, NEW s \in Ends, NEW p \in Paths, ObjectsAt(s, p),
         over'[s][p] = Told(s, p), openChannels'[s][p] = 0, objects'[s][p] = objects[s][p]
  PROVE  ObjectsAt(s, p)'
<1>1. Created(s, p)' = Created(s, p) /\ Created(s, p) \in Nat
  BY LenProperties DEF Created, TypeOK
<1> QED
  BY <1>1 DEF ObjectsAt, Told

-----------------------------------------------------------------------------
(* open() *)

LEMMA OpenKeeps ==
  ASSUME Openers \subseteq {"front"}, IInv, NEW s \in Openers, NEW p \in Paths, Open(s, p)
  PROVE  IInv'
<1>0. Base
  BY DEF IInv
<1>1. s = "front" /\ s \in Ends /\ Other(s) = "back" /\ "back" \in Ends
  BY DEF Ends, Other
<1>2. PICK m : m = Msg("Open", p, <<"front", session["front"][p] + 1>>)
  OBVIOUS
<1>3. /\ openChannels["front"][p] = 0
      /\ p \notin pendingOpen["front"]
      /\ session["front"][p] \in Nat
      /\ Send("front", m)
      /\ UNCHANGED <<openChannels, disposed, over, objects, closedAgain>>
  BY <1>0, <1>1, <1>2 DEF Open, OpenRefused, Base, TypeOK
<1>4. /\ pendingOpen' \in [Ends -> SUBSET Paths]
      /\ pendingOpen'["front"] = pendingOpen["front"] \cup {p}
      /\ pendingOpen'["back"] = {}
  BY <1>0, <1>1 DEF Open, Base, TypeOK
<1>5. /\ session' \in [Ends -> [Paths -> Nat]]
      /\ session'["front"][p] = session["front"][p] + 1
      /\ \A r \in Paths \ {p} : session'["front"][r] = session["front"][r]
  BY <1>0, <1>1 DEF Open, Base, TypeOK
<1>6. /\ m \in Message /\ m.path = p /\ About(m, p)
      /\ m.type = "Open" /\ m.of = Nth(session["front"][p] + 1)
  BY <1>2, <1>3 DEF Message, SessionType, Msg, Nth, About
<1>7. /\ inbox' \in [Ends -> Seq(Message)]
      /\ inbox'["front"] = inbox["front"]
      /\ disposed["front"] \/ disposed["back"] => inbox'["back"] = inbox["back"]
      /\ ~disposed["front"] /\ ~disposed["back"] => inbox'["back"] = Append(inbox["back"], m)
      /\ inbox["back"] \in Seq(Message)
  BY <1>0, <1>1, <1>3, <1>6, Sends DEF Base, TypeOK
<1>8. Base' /\ OnlyAbout(p)
  <2>1. \A t \in Ends : Moves(inbox[t], inbox'[t], p) /\ (disposed[t] => inbox'[t] = inbox[t])
    BY <1>0, <1>1, <1>3, <1>6, Sends DEF Base
  <2>2. TypeOK'
    BY <1>0, <1>3, <1>4, <1>5, <1>7 DEF Base, TypeOK
  <2>3. DisposedIsEmpty'
    BY <1>0, <1>3, <2>1 DEF Base, DisposedIsEmpty
  <2>4. OnlyAbout(p)
    BY <1>3, <1>4, <1>5, <2>1 DEF OnlyAbout
  <2> QED
    BY <2>2, <2>3, <2>4, <1>4 DEF Base
<1>9. ASSUME ClosedOnce(p)'
      PROVE  Sound(p)'
  <2>1. Sound(p)
    BY <1>3, <1>9 DEF ClosedOnce, IInv
  <2>2. /\ Created("front", p)' = Created("front", p)
        /\ Created("back", p)' = Created("back", p)
    BY <1>3 DEF Created
  <2>3. ObjectsAt("front", p)' /\ ObjectsAt("back", p)'
    BY <2>1, <1>3 DEF Sound, ObjectsAt, Created
  <2>4. CASE disposed["front"] \/ disposed["back"]
    <3>1. inbox'["back"] = inbox["back"] /\ (disposed["back"] => inbox["back"] = <<>>)
      BY <1>0, <2>4, <1>1, <1>7 DEF Base, DisposedIsEmpty
    <3>2. PathInv(p)
      BY <2>1 DEF Sound
    <3>3. disposed["back"] => ~Holds(inbox["back"], p, "Open")
      BY <3>1, EmptyQueue
    <3>4. FrontInv(p)'
      BY <1>3, <1>4, <1>5, <1>7, <2>2, <2>4, <3>1, <3>2, <3>3 DEF PathInv, FrontInv
    <3>5. QueueInv(p)' /\ CloseInv(p)'
      BY <1>3, <1>7, <2>2, <2>4, <3>1, <3>2 DEF PathInv, QueueInv, CloseInv
    <3> QED
      BY <2>3, <3>4, <3>5 DEF PathInv, Sound
  <2>5. CASE ~disposed["front"] /\ ~disposed["back"]
    <3>1. PathInv(p)
      BY <2>1 DEF Sound
    <3>2. /\ session["front"][p] = Created("front", p)
          /\ ~Holds(inbox["front"], p, "AckOpen")
          /\ Created("back", p) = Created("front", p)
          /\ ~Holds(inbox["back"], p, "Open")
          /\ BackQueue(inbox["back"], p, Created("back", p))
          /\ openChannels["back"][p] # 0 => Holds(inbox["back"], p, "Close")
      BY <1>3, <2>5, <3>1 DEF PathInv, FrontInv, QueueInv, CloseInv
    <3>3. BackQueue(inbox'["back"], p, Created("back", p))
      BY <3>2, <1>6, <1>7, <2>5, ArrivesBack DEF BackMay
    <3>4. /\ Holds(inbox'["back"], p, "Open")
          /\ Holds(inbox'["back"], p, "Close") <=> Holds(inbox["back"], p, "Close")
      <4>1. \A t : Holds(Append(inbox["back"], m), p, t) <=> Holds(inbox["back"], p, t) \/ (About(m, p) /\ m.type = t)
        BY <1>6, <1>7, ArrivesHolds
      <4>2. inbox'["back"] = Append(inbox["back"], m)
        BY <1>7, <2>5
      <4>3. About(m, p) /\ m.type = "Open" /\ m.type # "Close"
        BY <1>6
      <4> QED
        BY <4>1, <4>2, <4>3
    <3>5. FrontInv(p)'
      BY <1>3, <1>4, <1>5, <1>7, <2>2, <3>2, <3>4 DEF FrontInv
    <3>6. QueueInv(p)'
      BY <1>3, <1>7, <2>2, <3>1, <3>2, <3>3, <3>4 DEF PathInv, QueueInv
    <3>7. CloseInv(p)'
      BY <1>3, <1>4, <1>7, <2>2, <3>2 DEF CloseInv
    <3> QED
      BY <2>3, <3>5, <3>6, <3>7 DEF PathInv, Sound
  <2> QED
    BY <2>4, <2>5
<1> QED
  BY <1>8, <1>9, StepAbout

-----------------------------------------------------------------------------
(* The handlers *)

LEMMA HandleOpenKeeps ==
  ASSUME IInv, NEW s \in Ends, HandleOpen(s)
  PROVE  IInv'
<1>1. Base
  BY DEF IInv
<1>2. PICK p, ss : p = Head(inbox[s]).path /\ ss = Head(inbox[s]).of
  OBVIOUS
<1>3. /\ ~disposed[s] /\ inbox[s] \in Seq(Message) /\ inbox[s] # <<>>
      /\ Head(inbox[s]) \in Message /\ Head(inbox[s]).type = "Open"
  BY <1>1, Handled DEF HandleOpen, Incoming, Base, TypeOK
<1>4. p \in Paths /\ ss \in SessionType /\ About(Head(inbox[s]), p)
  BY <1>2, <1>3 DEF Message, About
<1>5. UNCHANGED <<pendingOpen, disposed, over, session, closedAgain>>
  BY DEF HandleOpen
<1>6. PICK m : m = Msg("AckOpen", p, ss)
  OBVIOUS
<1>7. m \in Message /\ m.path = p /\ About(m, p) /\ m.type = "AckOpen" /\ m.of = ss
  BY <1>4, <1>6 DEF Message, Msg, About
<1>8. Base' /\ OnlyAbout(p)
  <2>1. /\ inbox' \in [Ends -> Seq(Message)]
        /\ \A t \in Ends : Moves(inbox[t], inbox'[t], p) /\ (disposed[t] => inbox'[t] = inbox[t])
        /\ openChannels' \in [Ends -> [Paths -> Nat]]
        /\ objects' \in [Ends -> [Paths -> Seq(SessionType)]]
        /\ \A t \in Ends, r \in Paths : t # s \/ r # p =>
             openChannels'[t][r] = openChannels[t][r] /\ objects'[t][r] = objects[t][r]
    <3>1. CASE openChannels[s][p] # 0
      <4>1. Receive(s) /\ UNCHANGED <<objects, openChannels>>
        BY <3>1, <1>2 DEF HandleOpen
      <4> QED
        BY <4>1, <1>1, <1>2, <1>3, Receives DEF Base, TypeOK
    <3>2. CASE openChannels[s][p] = 0
      <4>1. ReceiveAndSend(s, m) /\ CreateChannel(s, p, ss)
        BY <3>2, <1>2, <1>6 DEF HandleOpen
      <4>2. TypeOK /\ m.path = Head(inbox[s]).path
        BY <1>1, <1>2, <1>7 DEF Base
      <4> QED
        BY <4>1, <4>2, <1>3, <1>4, <1>7, ReceivesAndSends, Creates
    <3> QED
      BY <3>1, <3>2
  <2>2. TypeOK'
    BY <2>1, <1>1, <1>5 DEF Base, TypeOK
  <2>3. DisposedIsEmpty'
    <3> SUFFICES ASSUME NEW t \in Ends, disposed[t]
                 PROVE  inbox'[t] = <<>> /\ \A r \in Paths : openChannels'[t][r] = 0
      BY <1>5 DEF DisposedIsEmpty
    <3>1. t # s /\ inbox[t] = <<>> /\ \A r \in Paths : openChannels[t][r] = 0
      BY <1>1, <1>3 DEF Base, DisposedIsEmpty
    <3> QED
      BY <3>1, <1>5, <2>1
  <2>4. OnlyAbout(p)
    BY <2>1, <1>5 DEF OnlyAbout
  <2> QED
    BY <2>2, <2>3, <2>4, <1>1, <1>5 DEF Base
<1>9. ASSUME ClosedOnce(p)'
      PROVE  Sound(p)'
  <2>1. Sound(p)
    BY <1>4, <1>5, <1>9 DEF ClosedOnce, IInv
  <2>2. s = "back"
    <3>1. About(Head(inbox["front"]), p) /\ inbox["front"] \in Seq(Message) /\ inbox["front"] # <<>>
          => Head(inbox["front"]).type # "Open"
      BY <2>1, HandledFront DEF Sound, PathInv, QueueInv
    <3> QED
      BY <3>1, <1>3, <1>4 DEF Ends
  <2>3. /\ inbox["back"] \in Seq(Message) /\ inbox["back"] # <<>>
        /\ Tail(inbox["back"]) \in Seq(Message)
        /\ Holds(inbox["back"], p, "Open")
        /\ ss = Nth(Created("back", p) + 1)
        /\ Silent(Tail(inbox["back"]), p)
        /\ BackQueue(Tail(inbox["back"]), p, Created("back", p) + 1)
        /\ \A t : ~Holds(Tail(inbox["back"]), p, t)
        /\ ~Holds(inbox["back"], p, "Close")
    <3>1. /\ inbox["back"] \in Seq(Message) /\ inbox["back"] # <<>>
          /\ About(Head(inbox["back"]), p)
          /\ Head(inbox["back"]).type = "Open" /\ Head(inbox["back"]).of = ss
      BY <1>2, <1>3, <1>4, <2>2
    <3>2. ss = Nth(Created("back", p) + 1) /\ Silent(Tail(inbox["back"]), p)
      BY <3>1, <2>1, HandledBack DEF Sound, PathInv, QueueInv
    <3>3. Tail(inbox["back"]) \in Seq(Message)
      BY <3>1, Handled
    <3>4. /\ \A t : ~Holds(Tail(inbox["back"]), p, t)
          /\ BackQueue(Tail(inbox["back"]), p, Created("back", p) + 1)
      BY <3>2, <3>3, SilentQueue
    <3>5. Holds(inbox["back"], p, "Open") /\ ~Holds(inbox["back"], p, "Close")
      <4>1. \A t : Holds(inbox["back"], p, t) <=>
                     Holds(Tail(inbox["back"]), p, t) \/ (About(Head(inbox["back"]), p) /\ Head(inbox["back"]).type = t)
        BY <3>1, HandledHolds
      <4> QED
        BY <3>1, <3>4, <4>1
    <3> QED
      BY <3>1, <3>2, <3>3, <3>4, <3>5
  <2>4. openChannels["back"][p] = 0
    BY <2>1, <2>3 DEF Sound, PathInv, QueueInv
  <2>5. CreateChannel("back", p, ss) /\ ReceiveAndSend("back", m)
    BY <1>2, <1>6, <2>2, <2>4 DEF HandleOpen
  <2>6. /\ inbox'["back"] = Tail(inbox["back"])
        /\ disposed["front"] => inbox'["front"] = inbox["front"]
        /\ ~disposed["front"] => inbox'["front"] = Append(inbox["front"], m)
        /\ inbox["front"] \in Seq(Message)
    <3>1. Other("back") = "front" /\ "back" \in Ends /\ "front" \in Ends /\ ~disposed["back"]
          /\ m.path = Head(inbox["back"]).path
      BY <1>2, <1>3, <1>7, <2>2 DEF Other, Ends
    <3> QED
      BY <3>1, <2>3, <1>1, <1>7, <2>5, ReceivesAndSends DEF Base, TypeOK
  <2>7. /\ Created("back", p) \in Nat
        /\ Created("back", p)' = Created("back", p) + 1
        /\ openChannels'["back"][p] = Created("back", p) + 1
        /\ openChannels'["front"][p] = openChannels["front"][p]
        /\ objects'["front"][p] = objects["front"][p]
    BY <1>1, <1>4, <2>5, Creates DEF Ends, Base
  <2>8. /\ Created("front", p)' = Created("front", p)
        /\ Created("front", p) \in Nat
    BY <1>1, <1>4, <2>7, LenProperties DEF Created, Base, TypeOK, Ends
  <2>9. ObjectsAt("front", p)' /\ ObjectsAt("back", p)'
    <3>1. ObjectsAt("back", p)'
      BY <1>1, <1>4, <1>5, <2>1, <2>3, <2>4, <2>5, CreatesNext DEF Sound, Base, Ends
    <3>2. ObjectsAt("front", p)'
      BY <2>1, <2>7, <2>8, <1>5 DEF Sound, ObjectsAt
    <3> QED
      BY <3>1, <3>2
  <2>10. CASE disposed["front"]
    <3>1. inbox'["front"] = <<>>
      BY <2>10, <2>6, <1>1 DEF Base, DisposedIsEmpty, Ends
    <3>2. FrontInv(p)' /\ CloseInv(p)'
      BY <2>10, <1>5 DEF FrontInv, CloseInv
    <3>3. QueueInv(p)'
      BY <3>1, <2>3, <2>6, <2>7, EmptyQueue DEF QueueInv
    <3> QED
      BY <2>9, <3>2, <3>3 DEF Sound, PathInv
  <2>11. CASE ~disposed["front"]
    <3>1. /\ p \in pendingOpen["front"]
          /\ openChannels["front"][p] = 0
          /\ session["front"][p] = Created("front", p) + 1
          /\ ~Holds(inbox["front"], p, "AckOpen")
          /\ Created("back", p) = Created("front", p)
          /\ FrontQueue(inbox["front"], p, Created("front", p))
      BY <2>11, <1>3, <2>1, <2>2, <2>3 DEF Sound, PathInv, FrontInv, QueueInv
    <3>2. FrontQueue(inbox'["front"], p, Created("front", p))
      BY <3>1, <1>7, <2>3, <2>6, <2>11, ArrivesFront DEF FrontMay
    <3>3. Holds(inbox'["front"], p, "AckOpen")
      <4>1. \A t : Holds(Append(inbox["front"], m), p, t) <=> Holds(inbox["front"], p, t) \/ (About(m, p) /\ m.type = t)
        BY <1>7, <2>6, ArrivesHolds
      <4> QED
        BY <4>1, <1>7, <2>6, <2>11
    <3>4. ~HoldsClose(inbox'["front"], p, Created("back", p) + 1)
      <4>1. ~HoldsClose(inbox["front"], p, Created("back", p) + 1)
        BY <3>1, <2>6, <2>8, NoCloseAhead
      <4>2. \A n : HoldsClose(Append(inbox["front"], m), p, n) <=>
                     HoldsClose(inbox["front"], p, n) \/ (About(m, p) /\ m.type = "Close" /\ m.of = Nth(n))
        BY <1>7, <2>6, ArrivesHolds
      <4> QED
        BY <4>1, <4>2, <1>7, <2>6, <2>11
    <3>5. FrontInv(p)'
      BY <3>1, <3>3, <2>3, <2>6, <2>7, <2>8, <1>5 DEF FrontInv
    <3>6. QueueInv(p)'
      BY <3>2, <3>4, <2>3, <2>6, <2>7, <2>8 DEF QueueInv
    <3>7. CloseInv(p)'
      BY <3>1, <1>5, <2>7 DEF CloseInv
    <3> QED
      BY <2>9, <3>5, <3>6, <3>7 DEF Sound, PathInv
  <2> QED
    BY <2>10, <2>11
<1> QED
  BY <1>4, <1>8, <1>9, StepAbout

LEMMA HandleAckOpenKeeps ==
  ASSUME IInv, NEW s \in Ends, HandleAckOpen(s)
  PROVE  IInv'
<1>1. Base
  BY DEF IInv
<1>2. PICK p, ss : p = Head(inbox[s]).path /\ ss = Head(inbox[s]).of
  OBVIOUS
<1>3. /\ ~disposed[s] /\ inbox[s] \in Seq(Message) /\ inbox[s] # <<>>
      /\ Head(inbox[s]) \in Message /\ Head(inbox[s]).type = "AckOpen"
  BY <1>1, Handled DEF HandleAckOpen, Incoming, Base, TypeOK
<1>4. p \in Paths /\ ss \in SessionType /\ About(Head(inbox[s]), p)
  BY <1>2, <1>3 DEF Message, About
<1>5. Receive(s) /\ UNCHANGED <<disposed, over, session, closedAgain>>
  BY DEF HandleAckOpen
<1>6. /\ p \in pendingOpen[s] =>
           CreateChannel(s, p, ss) /\ pendingOpen' = [pendingOpen EXCEPT ![s] = @ \ {p}]
      /\ p \notin pendingOpen[s] => UNCHANGED <<objects, openChannels, pendingOpen>>
  BY <1>2 DEF HandleAckOpen
<1>7. /\ inbox' \in [Ends -> Seq(Message)]
      /\ inbox'[s] = Tail(inbox[s])
      /\ inbox'[Other(s)] = inbox[Other(s)]
      /\ \A t \in Ends : Moves(inbox[t], inbox'[t], p) /\ (disposed[t] => inbox'[t] = inbox[t])
  BY <1>1, <1>2, <1>3, <1>5, Receives DEF Base
<1>8. Base' /\ OnlyAbout(p)
  <2>1. /\ openChannels' \in [Ends -> [Paths -> Nat]]
        /\ objects' \in [Ends -> [Paths -> Seq(SessionType)]]
        /\ \A t \in Ends, r \in Paths : t # s \/ r # p =>
             openChannels'[t][r] = openChannels[t][r] /\ objects'[t][r] = objects[t][r]
    <3>1. CASE p \in pendingOpen[s]
      BY <3>1, <1>1, <1>4, <1>6, Creates DEF Base
    <3>2. CASE p \notin pendingOpen[s]
      BY <3>2, <1>1, <1>6 DEF Base, TypeOK
    <3> QED
      BY <3>1, <3>2
  <2>2. /\ pendingOpen' \in [Ends -> SUBSET Paths]
        /\ pendingOpen'["back"] = {}
        /\ \A t \in Ends, r \in Paths \ {p} : r \in pendingOpen'[t] <=> r \in pendingOpen[t]
    BY <1>1, <1>6 DEF Base, TypeOK, Ends
  <2>3. TypeOK'
    BY <2>1, <2>2, <1>1, <1>5, <1>7 DEF Base, TypeOK
  <2>4. DisposedIsEmpty'
    <3> SUFFICES ASSUME NEW t \in Ends, disposed[t]
                 PROVE  inbox'[t] = <<>> /\ \A r \in Paths : openChannels'[t][r] = 0
      BY <1>5 DEF DisposedIsEmpty
    <3>1. t # s /\ inbox[t] = <<>> /\ \A r \in Paths : openChannels[t][r] = 0
      BY <1>1, <1>3 DEF Base, DisposedIsEmpty
    <3> QED
      BY <3>1, <1>5, <1>7, <2>1
  <2>5. OnlyAbout(p)
    BY <2>1, <2>2, <1>5, <1>7 DEF OnlyAbout, Ends
  <2> QED
    BY <2>2, <2>3, <2>4, <2>5 DEF Base
<1>9. ASSUME ClosedOnce(p)'
      PROVE  Sound(p)'
  <2>1. Sound(p)
    BY <1>4, <1>5, <1>9 DEF ClosedOnce, IInv
  <2>2. s = "front" /\ Other(s) = "back" /\ "front" \in Ends /\ "back" \in Ends
    <3>1. About(Head(inbox["back"]), p) /\ inbox["back"] \in Seq(Message) /\ inbox["back"] # <<>>
          => Head(inbox["back"]).type # "AckOpen"
      BY <2>1, HandledBack DEF Sound, PathInv, QueueInv
    <3> QED
      BY <3>1, <1>3, <1>4 DEF Ends, Other
  <2>3. PICK q : q = inbox["front"]
    OBVIOUS
  <2>4. /\ q \in Seq(Message) /\ q # <<>> /\ Tail(q) \in Seq(Message)
        /\ About(Head(q), p) /\ Head(q).type = "AckOpen" /\ Head(q).of = ss
    BY <1>2, <1>3, <1>4, <2>2, <2>3, Handled
  <2>5. /\ Holds(q, p, "AckOpen") /\ ~Holds(Tail(q), p, "AckOpen")
        /\ \A n : HoldsClose(Tail(q), p, n) <=> HoldsClose(q, p, n)
        /\ ss = Nth(Created("front", p) + 1)
        /\ FrontQueue(Tail(q), p, Created("front", p) + 1)
    <3>1. FrontQueue(q, p, Created("front", p))
      BY <2>1, <2>3 DEF Sound, PathInv, QueueInv
    <3>2. \A t : Holds(q, p, t) <=> Holds(Tail(q), p, t) \/ (About(Head(q), p) /\ Head(q).type = t)
      BY <2>4, HandledHolds
    <3>3. \A n : HoldsClose(q, p, n) <=>
                   HoldsClose(Tail(q), p, n) \/ (About(Head(q), p) /\ Head(q).type = "Close" /\ Head(q).of = Nth(n))
      BY <2>4, HandledHolds
    <3>4. /\ ~Holds(Tail(q), p, "AckOpen")
          /\ ss = Nth(Created("front", p) + 1)
          /\ FrontQueue(Tail(q), p, Created("front", p) + 1)
      BY <3>1, <2>4, HandledFront
    <3> QED
      BY <3>2, <3>3, <3>4, <2>4
  <2>6. /\ p \in pendingOpen["front"]
        /\ openChannels["front"][p] = 0
        /\ session["front"][p] = Created("front", p) + 1
        /\ Created("back", p) = Created("front", p) + 1
        /\ Silent(inbox["back"], p)
    BY <1>3, <2>1, <2>2, <2>3, <2>5 DEF Sound, PathInv, FrontInv
  <2>7. /\ CreateChannel("front", p, ss)
        /\ pendingOpen'["front"] = pendingOpen["front"] \ {p}
    BY <1>1, <1>6, <2>2, <2>6 DEF Base, TypeOK
  <2>8. /\ inbox'["front"] = Tail(q)
        /\ inbox'["back"] = inbox["back"]
        /\ inbox["back"] \in Seq(Message)
    BY <1>1, <1>7, <2>2, <2>3 DEF Base, TypeOK
  <2>9. /\ Created("front", p) \in Nat
        /\ Created("front", p)' = Created("front", p) + 1
        /\ openChannels'["front"][p] = Created("front", p) + 1
        /\ openChannels'["back"][p] = openChannels["back"][p]
        /\ objects'["back"][p] = objects["back"][p]
    BY <1>1, <1>4, <2>2, <2>7, Creates DEF Base
  <2>10. Created("back", p)' = Created("back", p)
    BY <2>9 DEF Created
  <2>11. ObjectsAt("front", p)' /\ ObjectsAt("back", p)'
    <3>1. ObjectsAt("front", p)'
      BY <1>1, <1>4, <1>5, <2>1, <2>2, <2>5, <2>6, <2>7, CreatesNext DEF Sound, Base
    <3>2. ObjectsAt("back", p)'
      BY <2>1, <2>9, <2>10, <1>5 DEF Sound, ObjectsAt
    <3> QED
      BY <3>1, <3>2
  <2>12. \A t : ~Holds(inbox["back"], p, t)
    BY <2>6, <2>8, SilentQueue
  <2>13. FrontInv(p)'
    BY <1>5, <2>5, <2>6, <2>7, <2>8, <2>9, <2>10, <2>12 DEF FrontInv
  <2>14. QueueInv(p)'
    BY <2>1, <2>3, <2>5, <2>8, <2>9, <2>10 DEF Sound, PathInv, QueueInv
  <2>15. CloseInv(p)'
    BY <1>5, <2>1, <2>3, <2>5, <2>6, <2>7, <2>8, <2>9, <2>10 DEF Sound, PathInv, CloseInv
  <2> QED
    BY <2>11, <2>13, <2>14, <2>15 DEF Sound, PathInv
<1> QED
  BY <1>4, <1>8, <1>9, StepAbout

LEMMA HandleDataKeeps ==
  ASSUME IInv, NEW s \in Ends, HandleData(s)
  PROVE  IInv'
<1>1. Base
  BY DEF IInv
<1>2. /\ inbox[s] \in Seq(Message) /\ inbox[s] # <<>> /\ ~disposed[s]
      /\ Head(inbox[s]).type = "Data"
      /\ Receive(s)
      /\ UNCHANGED <<pendingOpen, openChannels, disposed, over, session, objects, closedAgain>>
  BY <1>1 DEF HandleData, Incoming, Base, TypeOK
<1>3. Other(s) \in Ends /\ <<s, Other(s)>> \in {<<"front", "back">>, <<"back", "front">>}
  BY DEF Ends, Other
<1>4. /\ inbox' \in [Ends -> Seq(Message)]
      /\ inbox'[s] = Tail(inbox[s])
      /\ inbox'[Other(s)] = inbox[Other(s)]
      /\ \A t \in Ends : disposed[t] => inbox'[t] = inbox[t]
  BY <1>1, <1>2, Receives DEF Base
<1>5. Base'
  <2>1. TypeOK'
    BY <1>1, <1>2, <1>4 DEF Base, TypeOK
  <2>2. DisposedIsEmpty'
    BY <1>1, <1>2, <1>4 DEF Base, DisposedIsEmpty
  <2> QED
    BY <2>1, <2>2, <1>1, <1>2 DEF Base
<1>6. ASSUME NEW p \in Paths, ClosedOnce(p)'
      PROVE  Sound(p)'
  <2>1. FrontSame(inbox[s], inbox'[s], p) /\ BackSame(inbox[s], inbox'[s], p)
    BY <1>2, <1>4, OtherHandled
  <2>2. FrontSame(inbox[Other(s)], inbox'[Other(s)], p) /\ BackSame(inbox[Other(s)], inbox'[Other(s)], p)
    BY <1>4, NothingArrives
  <2>3. FrontSame(inbox["front"], inbox'["front"], p) /\ BackSame(inbox["back"], inbox'["back"], p)
    BY <2>1, <2>2, <1>3
  <2>4. Sound(p)
    BY <1>2, <1>6 DEF ClosedOnce, IInv
  <2>5. PathSame(p)
    BY <2>3, <1>2 DEF PathSame
  <2> QED
    BY <2>4, <2>5, SoundIsKept
<1> QED
  BY <1>5, <1>6 DEF IInv

LEMMA HandleCloseKeeps ==
  ASSUME IInv, NEW s \in Ends, HandleClose(s)
  PROVE  IInv'
<1>1. Base
  BY DEF IInv
<1>2. PICK p, q : p = Head(inbox[s]).path /\ q = inbox[s]
  OBVIOUS
<1>3. /\ ~disposed[s] /\ q \in Seq(Message) /\ q # <<>> /\ Tail(q) \in Seq(Message)
      /\ Head(q).type = "Close" /\ Head(q).path = p /\ About(Head(q), p) /\ p \in Paths
  <2>1. ~disposed[s] /\ q \in Seq(Message) /\ q # <<>> /\ Head(q).type = "Close" /\ Head(q).path = p
    BY <1>1, <1>2 DEF HandleClose, Incoming, Base, TypeOK
  <2>2. Head(q) \in Message /\ Tail(q) \in Seq(Message)
    BY <2>1, Handled
  <2> QED
    BY <2>1, <2>2 DEF Message, About
<1>4. /\ over' = [over EXCEPT ![s][p] = Told(s, p)]
      /\ openChannels' = [openChannels EXCEPT ![s][p] = 0]
      /\ Receive(s)
      /\ UNCHANGED <<pendingOpen, disposed, session, objects, closedAgain>>
  BY <1>2 DEF HandleClose
<1>5. /\ openChannels' \in [Ends -> [Paths -> Nat]]
      /\ over' \in [Ends -> [Paths -> SUBSET Nat]]
      /\ openChannels'[s][p] = 0 /\ over'[s][p] = Told(s, p)
      /\ \A t \in Ends, r \in Paths : t # s \/ r # p =>
           openChannels'[t][r] = openChannels[t][r] /\ over'[t][r] = over[t][r]
  BY <1>1, <1>3, <1>4 DEF Base, TypeOK, Told
<1>6. Other(s) \in Ends /\ <<s, Other(s)>> \in {<<"front", "back">>, <<"back", "front">>}
  BY DEF Ends, Other
<1>7. /\ inbox' \in [Ends -> Seq(Message)]
      /\ inbox'[s] = Tail(q)
      /\ inbox'[Other(s)] = inbox[Other(s)]
      /\ \A t \in Ends : Moves(inbox[t], inbox'[t], p) /\ (disposed[t] => inbox'[t] = inbox[t])
  BY <1>1, <1>2, <1>3, <1>4, Receives DEF Base
<1>8. Base' /\ OnlyAbout(p)
  <2>1. TypeOK'
    BY <1>1, <1>4, <1>5, <1>7 DEF Base, TypeOK
  <2>2. DisposedIsEmpty'
    <3> SUFFICES ASSUME NEW t \in Ends, disposed[t]
                 PROVE  inbox'[t] = <<>> /\ \A r \in Paths : openChannels'[t][r] = 0
      BY <1>4 DEF DisposedIsEmpty
    <3>1. t # s /\ inbox[t] = <<>> /\ \A r \in Paths : openChannels[t][r] = 0
      BY <1>1, <1>3 DEF Base, DisposedIsEmpty
    <3> QED
      BY <3>1, <1>5, <1>7
  <2>3. OnlyAbout(p)
    BY <1>4, <1>5, <1>7 DEF OnlyAbout
  <2> QED
    BY <2>1, <2>2, <2>3, <1>1, <1>4 DEF Base
<1>9. \A t : Holds(q, p, t) <=> Holds(Tail(q), p, t) \/ t = "Close"
  <2>1. \A t : Holds(q, p, t) <=> Holds(Tail(q), p, t) \/ (About(Head(q), p) /\ Head(q).type = t)
    BY <1>3, HandledHolds
  <2> QED
    BY <2>1, <1>3
<1>10. \A n : HoldsClose(q, p, n) <=> HoldsClose(Tail(q), p, n) \/ Head(q).of = Nth(n)
  <2>1. \A n : HoldsClose(q, p, n) <=>
                 HoldsClose(Tail(q), p, n) \/ (About(Head(q), p) /\ Head(q).type = "Close" /\ Head(q).of = Nth(n))
    BY <1>3, HandledHolds
  <2> QED
    BY <2>1, <1>3
<1>11. \A t \in Ends, r \in Paths : Created(t, r)' = Created(t, r) /\ Created(t, r) \in Nat
  BY <1>1, <1>4, LenProperties DEF Created, Base, TypeOK
<1>12. ASSUME ClosedOnce(p)'
       PROVE  Sound(p) /\ PathInv(p) /\ ObjectsAt("front", p)' /\ ObjectsAt("back", p)'
  <2>1. Sound(p)
    BY <1>3, <1>4, <1>12 DEF ClosedOnce, IInv
  <2>2. ASSUME NEW t \in Ends, ObjectsAt(t, p) PROVE ObjectsAt(t, p)'
    <3>1. CASE t = s
      BY <2>2, <3>1, <1>1, <1>3, <1>4, <1>5, Unregisters DEF Base
    <3>2. CASE t # s
      <4>1. /\ openChannels'[t][p] = openChannels[t][p] /\ over'[t][p] = over[t][p]
            /\ objects' = objects /\ Created(t, p)' = Created(t, p)
        BY <3>2, <1>3, <1>4, <1>5, <1>11
      <4> QED
        BY <4>1, <2>2 DEF ObjectsAt
    <3> QED
      BY <3>1, <3>2
  <2> QED
    BY <2>1, <2>2 DEF Sound, Ends
<1>13. ASSUME s = "front", ClosedOnce(p)'
       PROVE  PathInv(p)'
  <2>1. /\ inbox["front"] = q /\ inbox'["front"] = Tail(q) /\ inbox'["back"] = inbox["back"]
        /\ openChannels'["front"][p] = 0
        /\ openChannels'["back"][p] = openChannels["back"][p]
        /\ Created("front", p)' = Created("front", p) /\ Created("front", p) \in Nat
        /\ Created("back", p)' = Created("back", p) /\ Created("back", p) \in Nat
        /\ PathInv(p)
    BY <1>13, <1>2, <1>3, <1>5, <1>6, <1>7, <1>11, <1>12 DEF Ends
  <2>2. /\ FrontQueue(Tail(q), p, Created("front", p))
        /\ Head(q).of = Nth(Created("front", p))
    BY <2>1, <1>3, HandledFront DEF PathInv, QueueInv
  <2>3. Holds(Tail(q), p, "AckOpen") <=> Holds(q, p, "AckOpen")
    BY <1>9
  <2>4. \A n : HoldsClose(Tail(q), p, n) => HoldsClose(q, p, n)
    BY <1>10
  <2>5. FrontInv(p)'
    BY <1>4, <2>1, <2>3 DEF PathInv, FrontInv
  <2>6. QueueInv(p)'
    BY <1>4, <2>1, <2>2, <2>4 DEF PathInv, QueueInv
  <2>7. CloseInv(p)'
    <3>1. ASSUME ~disposed["back"], p \notin pendingOpen["front"]
          PROVE  openChannels["back"][p] = 0
      <4>1. Created("back", p) = Created("front", p)
        BY <3>1, <1>3, <1>13, <2>1 DEF PathInv, FrontInv
      <4>2. HoldsClose(q, p, Created("back", p))
        BY <4>1, <1>10, <2>2
      <4> QED
        BY <4>2, <2>1 DEF PathInv, QueueInv
    <3>2. ASSUME ~disposed["back"], Holds(q, p, "AckOpen"), openChannels["back"][p] = 0
          PROVE  HoldsClose(Tail(q), p, Created("back", p))
      <4>1. Created("back", p) = Created("front", p) + 1
        BY <3>2, <1>3, <1>13, <2>1 DEF PathInv, FrontInv
      <4>2. Head(q).of # Nth(Created("back", p))
        BY <4>1, <2>1, <2>2, SessionsDiffer
      <4>3. HoldsClose(q, p, Created("back", p))
        BY <3>2, <1>3, <1>13, <2>1 DEF PathInv, CloseInv
      <4> QED
        BY <4>2, <4>3, <1>10
    <3> QED
      BY <3>1, <3>2, <1>4, <2>1, <2>3 DEF CloseInv
  <2> QED
    BY <2>5, <2>6, <2>7 DEF PathInv
<1>14. ASSUME s = "back", ClosedOnce(p)'
       PROVE  PathInv(p)'
  <2>1. /\ inbox["back"] = q /\ inbox'["back"] = Tail(q) /\ inbox'["front"] = inbox["front"]
        /\ openChannels'["back"][p] = 0
        /\ openChannels'["front"][p] = openChannels["front"][p]
        /\ Created("front", p)' = Created("front", p)
        /\ Created("back", p)' = Created("back", p)
        /\ PathInv(p)
    BY <1>14, <1>2, <1>3, <1>5, <1>6, <1>7, <1>11, <1>12 DEF Ends
  <2>2. BackQueue(Tail(q), p, Created("back", p))
    BY <2>1, <1>3, HandledBack DEF PathInv, QueueInv
  <2>3. /\ Holds(Tail(q), p, "Open") <=> Holds(q, p, "Open")
        /\ Holds(Tail(q), p, "Close") => Holds(q, p, "Close")
        /\ Holds(q, p, "Close") /\ ~Silent(q, p)
    <3>1. Holds(q, p, "Close")
      BY <1>9
    <3> QED
      BY <3>1, <1>3, <1>9, SilentQueue
  <2>4. /\ ~disposed["front"] => ~Holds(inbox["front"], p, "AckOpen") /\ openChannels["front"][p] = 0
    BY <2>1, <2>3 DEF PathInv, FrontInv
  <2>5. FrontInv(p)'
    BY <1>4, <2>1, <2>3, <2>4 DEF PathInv, FrontInv
  <2>6. QueueInv(p)'
    BY <1>4, <2>1, <2>2 DEF PathInv, QueueInv
  <2>7. CloseInv(p)'
    BY <1>4, <2>1, <2>4 DEF CloseInv
  <2> QED
    BY <2>5, <2>6, <2>7 DEF PathInv
<1>15. ASSUME ClosedOnce(p)'
       PROVE  Sound(p)'
  BY <1>12, <1>13, <1>14, <1>15, <1>6 DEF Sound
<1> QED
  BY <1>3, <1>8, <1>15, StepAbout

-----------------------------------------------------------------------------
(* Writing, closing, and the end of the main channel *)

\* Of a path no channel of which is closed again, an object that is not over is the last of
\* its end, is registered, and is of the last session.
LEMMA NotOverIsLast ==
  ASSUME Base, NEW s \in Ends, NEW p \in Paths, Sound(p), NEW k \in 1..Created(s, p), k \notin over[s][p]
  PROVE  /\ objects[s][p][k] = Nth(Created(s, p))
         /\ k = openChannels[s][p] /\ openChannels[s][p] # 0 /\ openChannels[s][p] = Created(s, p)
         /\ ~disposed[s]
<1>1. Created(s, p) \in Nat
  BY LenProperties DEF Base, TypeOK, Created
<1>2. ObjectsAt(s, p)
  BY DEF Sound, Ends
<1>3. k = openChannels[s][p] /\ openChannels[s][p] # 0 /\ openChannels[s][p] = Created(s, p)
  BY <1>1, <1>2 DEF ObjectsAt
<1>4. objects[s][p][k] = Nth(Created(s, p))
  BY <1>2, <1>3 DEF ObjectsAt
<1>5. ~disposed[s]
  BY <1>3 DEF Base, DisposedIsEmpty
<1> QED
  BY <1>3, <1>4, <1>5

\* The session of an object is one.
LEMMA SessionOf ==
  ASSUME TypeOK, NEW s \in Ends, NEW p \in Paths, NEW k \in 1..Created(s, p)
  PROVE  objects[s][p][k] \in SessionType
<1>1. objects[s][p] \in Seq(SessionType)
  BY DEF TypeOK
<1> QED
  BY <1>1, ElementOfSeq DEF Created

\* What is sent of the last session may arrive at the other end.
LEMMA MayArrive ==
  ASSUME Base, NEW p \in Paths, Sound(p), NEW m \in Message, m.type \in {"Data", "Close"}
  PROVE  /\ openChannels["front"][p] # 0 /\ m.of = Nth(Created("front", p)) /\ ~disposed["back"] =>
              BackMay(inbox["back"], p, Created("back", p), m)
         /\ m.of = Nth(Created("back", p)) /\ ~disposed["front"] /\ ~disposed["back"] =>
              FrontMay(inbox["front"], p, Created("front", p), m)
<1>1. PathInv(p)
  BY DEF Sound
<1>2. ASSUME openChannels["front"][p] # 0, m.of = Nth(Created("front", p)), ~disposed["back"]
      PROVE  BackMay(inbox["back"], p, Created("back", p), m)
  <2>1. ~disposed["front"]
    BY <1>2 DEF Base, DisposedIsEmpty, Ends
  <2>2. p \notin pendingOpen["front"]
    BY <2>1, <1>1, <1>2 DEF PathInv, FrontInv
  <2>3. Created("back", p) = Created("front", p) /\ ~Holds(inbox["back"], p, "Open")
    BY <2>1, <2>2, <1>1, <1>2 DEF PathInv, FrontInv
  <2> QED
    BY <2>3, <1>2 DEF BackMay
<1>3. ASSUME m.of = Nth(Created("back", p)), ~disposed["front"], ~disposed["back"]
      PROVE  FrontMay(inbox["front"], p, Created("front", p), m)
  BY <1>1, <1>3 DEF PathInv, FrontInv, FrontMay
<1> QED
  BY <1>2, <1>3

LEMMA WriteKeeps ==
  ASSUME IInv, NEW s \in Ends, NEW p \in Paths, NEW k \in 1..Created(s, p), Write(s, p, k)
  PROVE  IInv'
<1>1. Base
  BY DEF IInv
<1>2. PICK m : m = [Msg("Data", p, objects[s][p][k]) EXCEPT !.late = k \in over[s][p]]
  OBVIOUS
<1>3. /\ Send(s, m)
      /\ UNCHANGED <<pendingOpen, openChannels, disposed, over, session, objects, closedAgain>>
  BY <1>2 DEF Write
<1>4. /\ m \in Message /\ m.path = p /\ m.type = "Data" /\ m.of = objects[s][p][k]
      /\ About(m, p) <=> k \notin over[s][p]
  <2>1. objects[s][p][k] \in SessionType
    BY <1>1, SessionOf DEF Base
  <2>2. CASE k \in over[s][p]
    <3>1. m = [type |-> "Data", path |-> p, of |-> objects[s][p][k], late |-> TRUE]
      BY <2>2, <1>2 DEF Msg
    <3> QED
      BY <2>1, <2>2, <3>1 DEF Message, About
  <2>3. CASE k \notin over[s][p]
    <3>1. (k \in over[s][p]) = FALSE
      BY <2>3
    <3>2. m = [Msg("Data", p, objects[s][p][k]) EXCEPT !.late = FALSE]
      BY <3>1, <1>2, Zenon
    <3>3. m = [type |-> "Data", path |-> p, of |-> objects[s][p][k], late |-> FALSE]
      BY <3>2 DEF Msg
    <3> QED
      BY <2>1, <2>3, <3>3 DEF Message, About
  <2> QED
    BY <2>2, <2>3
<1>5. Other(s) \in Ends /\ <<s, Other(s)>> \in {<<"front", "back">>, <<"back", "front">>}
  BY DEF Ends, Other
<1>6. /\ inbox' \in [Ends -> Seq(Message)]
      /\ inbox'[s] = inbox[s]
      /\ disposed[s] \/ disposed[Other(s)] => inbox'[Other(s)] = inbox[Other(s)]
      /\ ~disposed[s] /\ ~disposed[Other(s)] => inbox'[Other(s)] = Append(inbox[Other(s)], m)
      /\ inbox[Other(s)] \in Seq(Message)
      /\ \A t \in Ends : Moves(inbox[t], inbox'[t], p) /\ (disposed[t] => inbox'[t] = inbox[t])
  BY <1>1, <1>3, <1>4, <1>5, Sends DEF Base, TypeOK
<1>7. Base' /\ OnlyAbout(p)
  <2>1. TypeOK'
    BY <1>1, <1>3, <1>6 DEF Base, TypeOK
  <2>2. DisposedIsEmpty'
    BY <1>1, <1>3, <1>6 DEF Base, DisposedIsEmpty
  <2>3. OnlyAbout(p)
    BY <1>3, <1>6 DEF OnlyAbout
  <2> QED
    BY <2>1, <2>2, <2>3, <1>1, <1>3 DEF Base
<1>8. ASSUME ClosedOnce(p)'
      PROVE  Sound(p)'
  <2>1. Sound(p)
    BY <1>3, <1>8 DEF ClosedOnce, IInv
  <2>2. CASE inbox'[Other(s)] = inbox[Other(s)] \/ ~About(m, p)
    <3>1. FrontSame(inbox[Other(s)], inbox'[Other(s)], p) /\ BackSame(inbox[Other(s)], inbox'[Other(s)], p)
      BY <2>2, <1>4, <1>6, NothingArrives, OtherArrives
    <3>2. FrontSame(inbox[s], inbox'[s], p) /\ BackSame(inbox[s], inbox'[s], p)
      BY <1>6, NothingArrives
    <3>3. FrontSame(inbox["front"], inbox'["front"], p) /\ BackSame(inbox["back"], inbox'["back"], p)
      BY <3>1, <3>2, <1>5
    <3>4. PathSame(p)
      BY <3>3, <1>3 DEF PathSame
    <3> QED
      BY <2>1, <3>4, SoundIsKept
  <2>3. CASE inbox'[Other(s)] # inbox[Other(s)] /\ About(m, p)
    <3>1. PathInv(p) /\ ~disposed[s] /\ ~disposed[Other(s)]
      BY <2>1, <2>3, <1>6 DEF Sound
    <3>2. m.of = Nth(Created(s, p)) /\ openChannels[s][p] # 0
      BY <2>1, <2>3, <1>1, <1>4, NotOverIsLast
    <3>3. inbox'[Other(s)] = Append(inbox[Other(s)], m)
      BY <3>1, <1>6
    <3>4. \A t : Holds(Append(inbox[Other(s)], m), p, t) <=> Holds(inbox[Other(s)], p, t) \/ t = "Data"
      <4>1. \A t : Holds(Append(inbox[Other(s)], m), p, t) <=>
                     Holds(inbox[Other(s)], p, t) \/ (About(m, p) /\ m.type = t)
        BY <1>4, <1>6, ArrivesHolds
      <4> QED
        BY <4>1, <1>4, <2>3
    <3>5. \A n : HoldsClose(Append(inbox[Other(s)], m), p, n) <=> HoldsClose(inbox[Other(s)], p, n)
      <4>1. \A n : HoldsClose(Append(inbox[Other(s)], m), p, n) <=>
                     HoldsClose(inbox[Other(s)], p, n) \/ (About(m, p) /\ m.type = "Close" /\ m.of = Nth(n))
        BY <1>4, <1>6, ArrivesHolds
      <4> QED
        BY <4>1, <1>4
    <3>6. Created("front", p)' = Created("front", p) /\ Created("back", p)' = Created("back", p)
      BY <1>3 DEF Created
    <3>7. ObjectsAt("front", p)' /\ ObjectsAt("back", p)'
      BY <2>1, <3>6, <1>3 DEF Sound, ObjectsAt
    <3>8. CASE s = "front"
      <4>1. /\ inbox'["front"] = inbox["front"]
            /\ inbox'["back"] = Append(inbox["back"], m) /\ inbox["back"] \in Seq(Message)
            /\ ~disposed["front"] /\ ~disposed["back"] /\ openChannels["front"][p] # 0
            /\ m.of = Nth(Created("front", p))
        BY <3>1, <3>2, <3>3, <3>8, <1>5, <1>6
      <4>2. BackQueue(inbox'["back"], p, Created("back", p))
        BY <4>1, <1>1, <1>4, <2>1, <3>1, MayArrive, ArrivesBack DEF PathInv, QueueInv
      <4>3. /\ Holds(inbox'["back"], p, "Open") <=> Holds(inbox["back"], p, "Open")
            /\ Holds(inbox'["back"], p, "Close") <=> Holds(inbox["back"], p, "Close")
        BY <3>3, <3>4, <3>8, <1>5
      <4>4. ~Holds(inbox["front"], p, "AckOpen")
        BY <4>1, <3>1 DEF PathInv, FrontInv
      <4>5. FrontInv(p)'
        BY <4>1, <4>3, <4>4, <3>1, <3>6, <1>3 DEF PathInv, FrontInv
      <4>6. QueueInv(p)' /\ CloseInv(p)'
        BY <4>1, <4>2, <4>3, <3>1, <3>6, <1>3 DEF PathInv, QueueInv, CloseInv
      <4> QED
        BY <4>5, <4>6, <3>7 DEF Sound, PathInv
    <3>9. CASE s = "back"
      <4>1. /\ inbox'["back"] = inbox["back"]
            /\ inbox'["front"] = Append(inbox["front"], m) /\ inbox["front"] \in Seq(Message)
            /\ ~disposed["front"] /\ ~disposed["back"]
            /\ m.of = Nth(Created("back", p))
        BY <3>1, <3>2, <3>3, <3>9, <1>5, <1>6
      <4>2. FrontQueue(inbox'["front"], p, Created("front", p))
        BY <4>1, <1>1, <1>4, <2>1, <3>1, MayArrive, ArrivesFront DEF PathInv, QueueInv
      <4>3. /\ Holds(inbox'["front"], p, "AckOpen") <=> Holds(inbox["front"], p, "AckOpen")
            /\ \A n : HoldsClose(inbox'["front"], p, n) <=> HoldsClose(inbox["front"], p, n)
        BY <3>3, <3>4, <3>5, <3>9, <1>5
      <4>4. FrontInv(p)'
        BY <4>1, <4>3, <3>1, <3>6, <1>3 DEF PathInv, FrontInv
      <4>5. QueueInv(p)' /\ CloseInv(p)'
        BY <4>1, <4>2, <4>3, <3>1, <3>6, <1>3 DEF PathInv, QueueInv, CloseInv
      <4> QED
        BY <4>4, <4>5, <3>7 DEF Sound, PathInv
    <3> QED
      BY <3>8, <3>9, <1>5
  <2> QED
    BY <2>2, <2>3
<1> QED
  BY <1>7, <1>8, StepAbout

LEMMA CloseChannelKeeps ==
  ASSUME IInv, NEW s \in Ends, NEW p \in Paths, NEW k \in 1..Created(s, p), CloseChannel(s, p, k)
  PROVE  IInv'
<1>1. Base
  BY DEF IInv
<1>2. PICK m : m = Msg("Close", p, objects[s][p][k])
  OBVIOUS
<1>3. /\ over' = [over EXCEPT ![s][p] = @ \cup {k}]
      /\ openChannels' = [openChannels EXCEPT ![s][p] = 0]
      /\ Send(s, m)
      /\ UNCHANGED <<pendingOpen, disposed, session, objects>>
  BY <1>2 DEF CloseChannel
<1>4. /\ closedAgain' \in [Ends -> [Paths -> Nat]]
      /\ \A t \in Ends, r \in Paths : t # s \/ r # p => closedAgain'[t][r] = closedAgain[t][r]
      /\ ClosedOnce(p)' => ClosedOnce(p) /\ k \notin over[s][p]
  <2>1. CASE k \notin over[s][p] /\ UNCHANGED closedAgain
    BY <2>1, <1>1 DEF Base, TypeOK, ClosedOnce
  <2>2. CASE k \in over[s][p] /\ closedAgain' = [closedAgain EXCEPT ![s][p] = @ + 1]
    <3>1. /\ closedAgain' \in [Ends -> [Paths -> Nat]]
          /\ closedAgain'[s][p] # 0
          /\ \A t \in Ends, r \in Paths : t # s \/ r # p => closedAgain'[t][r] = closedAgain[t][r]
      BY <2>2, <1>1 DEF Base, TypeOK
    <3> QED
      BY <3>1 DEF ClosedOnce
  <2> QED
    BY <2>1, <2>2 DEF CloseChannel
<1>5. m \in Message /\ m.path = p /\ m.type = "Close" /\ m.of = objects[s][p][k] /\ About(m, p)
  <2>1. objects[s][p][k] \in SessionType
    BY <1>1, SessionOf DEF Base
  <2> QED
    BY <2>1, <1>2 DEF Message, Msg, About
<1>6. Other(s) \in Ends /\ <<s, Other(s)>> \in {<<"front", "back">>, <<"back", "front">>}
  BY DEF Ends, Other
<1>7. /\ inbox' \in [Ends -> Seq(Message)]
      /\ inbox'[s] = inbox[s]
      /\ disposed[Other(s)] => inbox'[Other(s)] = inbox[Other(s)]
      /\ ~disposed[s] /\ ~disposed[Other(s)] => inbox'[Other(s)] = Append(inbox[Other(s)], m)
      /\ inbox[Other(s)] \in Seq(Message)
      /\ \A t \in Ends : Moves(inbox[t], inbox'[t], p) /\ (disposed[t] => inbox'[t] = inbox[t])
  BY <1>1, <1>3, <1>5, <1>6, Sends DEF Base, TypeOK
<1>8. Created(s, p) \in Nat
  BY <1>1, LenProperties DEF Created, Base, TypeOK
<1>9. /\ openChannels' \in [Ends -> [Paths -> Nat]]
      /\ over' \in [Ends -> [Paths -> SUBSET Nat]]
      /\ openChannels'[s][p] = 0 /\ over'[s][p] = over[s][p] \cup {k}
      /\ \A t \in Ends, r \in Paths : t # s \/ r # p =>
           openChannels'[t][r] = openChannels[t][r] /\ over'[t][r] = over[t][r]
  <2>1. openChannels \in [Ends -> [Paths -> Nat]] /\ over \in [Ends -> [Paths -> SUBSET Nat]]
    BY <1>1 DEF Base, TypeOK
  <2>2. /\ openChannels' \in [Ends -> [Paths -> Nat]] /\ openChannels'[s][p] = 0
        /\ \A t \in Ends, r \in Paths : t # s \/ r # p => openChannels'[t][r] = openChannels[t][r]
    BY <1>3, <2>1
  <2>3. /\ over' \in [Ends -> [Paths -> SUBSET Nat]] /\ over'[s][p] = over[s][p] \cup {k}
        /\ \A t \in Ends, r \in Paths : t # s \/ r # p => over'[t][r] = over[t][r]
    BY <1>3, <1>8, <2>1
  <2> QED
    BY <2>2, <2>3
<1>10. Base' /\ OnlyAbout(p)
  <2>1. TypeOK'
    BY <1>1, <1>3, <1>4, <1>7, <1>9 DEF Base, TypeOK
  <2>2. DisposedIsEmpty'
    <3> SUFFICES ASSUME NEW t \in Ends, disposed[t]
                 PROVE  inbox'[t] = <<>> /\ \A r \in Paths : openChannels'[t][r] = 0
      BY <1>3 DEF DisposedIsEmpty
    <3>1. inbox[t] = <<>> /\ \A r \in Paths : openChannels[t][r] = 0
      BY <1>1 DEF Base, DisposedIsEmpty
    <3> QED
      BY <3>1, <1>7, <1>9
  <2>3. OnlyAbout(p)
    BY <1>3, <1>4, <1>7, <1>9 DEF OnlyAbout
  <2> QED
    BY <2>1, <2>2, <2>3, <1>1, <1>3 DEF Base
<1>11. \A t : Holds(Append(inbox[Other(s)], m), p, t) <=> Holds(inbox[Other(s)], p, t) \/ t = "Close"
  <2>1. \A t : Holds(Append(inbox[Other(s)], m), p, t) <=>
                 Holds(inbox[Other(s)], p, t) \/ (About(m, p) /\ m.type = t)
    BY <1>5, <1>7, ArrivesHolds
  <2> QED
    BY <2>1, <1>5
<1>12. \A n : HoldsClose(Append(inbox[Other(s)], m), p, n) <=> HoldsClose(inbox[Other(s)], p, n) \/ m.of = Nth(n)
  <2>1. \A n : HoldsClose(Append(inbox[Other(s)], m), p, n) <=>
                 HoldsClose(inbox[Other(s)], p, n) \/ (About(m, p) /\ m.type = "Close" /\ m.of = Nth(n))
    BY <1>5, <1>7, ArrivesHolds
  <2> QED
    BY <2>1, <1>5
<1>13. Created("front", p)' = Created("front", p) /\ Created("back", p)' = Created("back", p)
  BY <1>3 DEF Created
<1>14. ASSUME ClosedOnce(p)'
       PROVE  /\ Sound(p) /\ PathInv(p) /\ ObjectsAt("front", p)' /\ ObjectsAt("back", p)'
              /\ m.of = Nth(Created(s, p)) /\ openChannels[s][p] # 0 /\ ~disposed[s]
  <2>1. Sound(p) /\ k \notin over[s][p]
    BY <1>4, <1>14 DEF IInv
  <2>2. m.of = Nth(Created(s, p)) /\ k = openChannels[s][p] /\ openChannels[s][p] # 0 /\ ~disposed[s]
    BY <2>1, <1>1, <1>5, NotOverIsLast
  <2>3. over'[s][p] = Told(s, p)
    BY <2>2, <1>9 DEF Told
  <2>4. ASSUME NEW t \in Ends, ObjectsAt(t, p) PROVE ObjectsAt(t, p)'
    <3>1. CASE t = s
      BY <2>3, <2>4, <3>1, <1>1, <1>3, <1>9, Unregisters DEF Base
    <3>2. CASE t # s
      <4>1. /\ openChannels'[t][p] = openChannels[t][p] /\ over'[t][p] = over[t][p]
            /\ objects' = objects /\ Created(t, p)' = Created(t, p)
        BY <3>2, <1>3, <1>9 DEF Created
      <4> QED
        BY <4>1, <2>4 DEF ObjectsAt
    <3> QED
      BY <3>1, <3>2
  <2> QED
    BY <2>1, <2>2, <2>4 DEF Sound, Ends
<1>15. ASSUME s = "front", ClosedOnce(p)'
       PROVE  PathInv(p)'
  <2>1. /\ inbox'["front"] = inbox["front"]
        /\ disposed["back"] => inbox'["back"] = inbox["back"] /\ inbox["back"] = <<>>
        /\ ~disposed["back"] => inbox'["back"] = Append(inbox["back"], m)
        /\ inbox["back"] \in Seq(Message)
        /\ ~disposed["front"] /\ m.of = Nth(Created("front", p))
        /\ openChannels["front"][p] # 0 /\ openChannels'["front"][p] = 0
        /\ openChannels'["back"][p] = openChannels["back"][p]
        /\ PathInv(p) /\ Sound(p)
    BY <1>15, <1>1, <1>6, <1>7, <1>9, <1>14 DEF Base, DisposedIsEmpty
  <2>2. /\ p \notin pendingOpen["front"]
        /\ ~Holds(inbox["front"], p, "AckOpen")
        /\ ~Holds(inbox["back"], p, "Open")
    BY <2>1 DEF PathInv, FrontInv
  <2>3. CASE disposed["back"]
    <3>1. FrontInv(p)'
      BY <2>1, <2>2, <2>3, <1>3, <1>13, EmptyQueue DEF PathInv, FrontInv
    <3>2. QueueInv(p)' /\ CloseInv(p)'
      BY <2>1, <2>3, <1>3, <1>13 DEF PathInv, QueueInv, CloseInv
    <3> QED
      BY <3>1, <3>2 DEF PathInv
  <2>4. CASE ~disposed["back"]
    <3>1. BackQueue(inbox'["back"], p, Created("back", p))
      BY <2>1, <2>4, <1>1, <1>5, MayArrive, ArrivesBack DEF PathInv, QueueInv
    <3>2. /\ ~Holds(inbox'["back"], p, "Open")
          /\ Holds(inbox'["back"], p, "Close")
      BY <2>1, <2>2, <2>4, <1>6, <1>11, <1>15
    <3>3. FrontInv(p)'
      BY <2>1, <2>2, <3>2, <1>3, <1>13 DEF PathInv, FrontInv
    <3>4. QueueInv(p)' /\ CloseInv(p)'
      BY <2>1, <2>2, <3>1, <3>2, <1>3, <1>13 DEF PathInv, QueueInv, CloseInv
    <3> QED
      BY <3>3, <3>4 DEF PathInv
  <2> QED
    BY <2>3, <2>4
<1>16. ASSUME s = "back", ClosedOnce(p)'
       PROVE  PathInv(p)'
  <2>1. /\ inbox'["back"] = inbox["back"]
        /\ disposed["front"] => inbox'["front"] = inbox["front"]
        /\ ~disposed["front"] => inbox'["front"] = Append(inbox["front"], m)
        /\ inbox["front"] \in Seq(Message)
        /\ ~disposed["back"] /\ m.of = Nth(Created("back", p))
        /\ openChannels'["back"][p] = 0
        /\ openChannels'["front"][p] = openChannels["front"][p]
        /\ PathInv(p) /\ Sound(p)
    BY <1>16, <1>6, <1>7, <1>9, <1>14
  <2>2. CASE disposed["front"]
    <3>1. FrontInv(p)' /\ CloseInv(p)'
      BY <2>2, <1>3 DEF FrontInv, CloseInv
    <3>2. QueueInv(p)'
      BY <2>1, <2>2, <1>13 DEF PathInv, QueueInv
    <3> QED
      BY <3>1, <3>2 DEF PathInv
  <2>3. CASE ~disposed["front"]
    <3>1. FrontQueue(inbox'["front"], p, Created("front", p))
      BY <2>1, <2>3, <1>1, <1>5, MayArrive, ArrivesFront DEF PathInv, QueueInv
    <3>2. /\ Holds(inbox'["front"], p, "AckOpen") <=> Holds(inbox["front"], p, "AckOpen")
          /\ HoldsClose(inbox'["front"], p, Created("back", p))
      BY <2>1, <2>3, <1>6, <1>11, <1>12, <1>16
    <3>3. FrontInv(p)'
      BY <2>1, <3>2, <1>3, <1>13 DEF PathInv, FrontInv
    <3>4. QueueInv(p)' /\ CloseInv(p)'
      BY <2>1, <3>1, <3>2, <1>3, <1>13 DEF PathInv, QueueInv, CloseInv
    <3> QED
      BY <3>3, <3>4 DEF PathInv
  <2> QED
    BY <2>2, <2>3
<1>17. ASSUME ClosedOnce(p)'
       PROVE  Sound(p)'
  BY <1>6, <1>14, <1>15, <1>16, <1>17 DEF Sound
<1> QED
  BY <1>10, <1>17, StepAbout

LEMMA UnderlyingChannelCloseKeeps ==
  ASSUME IInv, NEW s \in Ends, UnderlyingChannelClose(s)
  PROVE  IInv'
<1>0. Base
  BY DEF IInv
<1>1. /\ disposed' \in [Ends -> BOOLEAN]
      /\ disposed'[s]
      /\ \A t \in Ends : t # s => (disposed'[t] <=> disposed[t])
  BY <1>0 DEF UnderlyingChannelClose, Base, TypeOK
<1>2. /\ pendingOpen' \in [Ends -> SUBSET Paths]
      /\ pendingOpen'[s] = {}
      /\ inbox' \in [Ends -> Seq(Message)]
      /\ inbox'[s] = <<>>
      /\ \A t \in Ends : t # s => inbox'[t] = inbox[t] /\ pendingOpen'[t] = pendingOpen[t]
  BY <1>0, EmptySeq DEF UnderlyingChannelClose, Base, TypeOK
<1>3. /\ openChannels' \in [Ends -> [Paths -> Nat]]
      /\ \A p \in Paths : openChannels'[s][p] = 0
      /\ \A t \in Ends, p \in Paths : t # s => openChannels'[t][p] = openChannels[t][p]
  BY <1>0 DEF UnderlyingChannelClose, Base, TypeOK
<1>4. /\ over' \in [Ends -> [Paths -> SUBSET Nat]]
      /\ \A p \in Paths : over'[s][p] = Told(s, p)
      /\ \A t \in Ends, p \in Paths : t # s => over'[t][p] = over[t][p]
  BY <1>0 DEF UnderlyingChannelClose, Told, Base, TypeOK
<1>5. UNCHANGED <<session, objects, closedAgain>>
  BY DEF UnderlyingChannelClose
<1>6. \A t \in Ends, p \in Paths : Created(t, p)' = Created(t, p)
  BY <1>5 DEF Created
<1>7. Base'
  <2>1. TypeOK'
    BY <1>0, <1>1, <1>2, <1>3, <1>4, <1>5 DEF Base, TypeOK
  <2>2. DisposedIsEmpty'
    <3> SUFFICES ASSUME NEW t \in Ends, disposed'[t]
                 PROVE  inbox'[t] = <<>> /\ \A p \in Paths : openChannels'[t][p] = 0
      BY DEF DisposedIsEmpty
    <3>1. CASE t = s
      BY <3>1, <1>2, <1>3
    <3>2. CASE t # s
      <4>1. disposed[t] /\ inbox'[t] = inbox[t] /\ \A p \in Paths : openChannels'[t][p] = openChannels[t][p]
        BY <3>2, <1>1, <1>2, <1>3
      <4>2. inbox[t] = <<>> /\ \A p \in Paths : openChannels[t][p] = 0
        BY <4>1, <1>0 DEF Base, DisposedIsEmpty
      <4> QED
        BY <4>1, <4>2
    <3> QED
      BY <3>1, <3>2
  <2>3. pendingOpen'["back"] = {}
    BY <1>0, <1>2 DEF Base, Ends
  <2> QED
    BY <2>1, <2>2, <2>3 DEF Base
<1>8. ASSUME NEW p \in Paths, ClosedOnce(p)'
      PROVE  Sound(p)'
  <2>1. Sound(p) /\ PathInv(p)
    BY <1>5, <1>8 DEF ClosedOnce, IInv, Sound
  <2>2. Created("front", p)' = Created("front", p) /\ Created("back", p)' = Created("back", p)
    BY <1>6 DEF Ends
  <2>3. ASSUME NEW t \in Ends, ObjectsAt(t, p) PROVE ObjectsAt(t, p)'
    <3>1. CASE t = s
      BY <2>3, <3>1, <1>0, <1>3, <1>4, <1>5, Unregisters DEF Base
    <3>2. CASE t # s
      <4>1. /\ openChannels'[t][p] = openChannels[t][p] /\ over'[t][p] = over[t][p]
            /\ objects' = objects /\ Created(t, p)' = Created(t, p)
        BY <3>2, <1>3, <1>4, <1>5, <1>6
      <4> QED
        BY <4>1, <2>3 DEF ObjectsAt
    <3> QED
      BY <3>1, <3>2
  <2>4. ObjectsAt("front", p)' /\ ObjectsAt("back", p)'
    BY <2>1, <2>3 DEF Sound, Ends
  <2>5. CASE s = "front"
    <3>1. /\ disposed'["front"]
          /\ inbox'["front"] = <<>> /\ inbox'["back"] = inbox["back"]
          /\ openChannels'["back"][p] = openChannels["back"][p]
      BY <2>5, <1>1, <1>2, <1>3 DEF Ends
    <3>2. FrontInv(p)' /\ CloseInv(p)'
      BY <3>1 DEF FrontInv, CloseInv
    <3>3. QueueInv(p)'
      BY <3>1, <2>1, <2>2, EmptyQueue DEF PathInv, QueueInv
    <3> QED
      BY <2>4, <3>2, <3>3 DEF Sound, PathInv
  <2>6. CASE s = "back"
    <3>1. /\ disposed'["back"] /\ (disposed'["front"] <=> disposed["front"])
          /\ inbox'["back"] = <<>> /\ inbox'["front"] = inbox["front"]
          /\ openChannels'["back"][p] = 0
          /\ openChannels'["front"][p] = openChannels["front"][p]
          /\ pendingOpen'["front"] = pendingOpen["front"]
          /\ session' = session
      BY <2>6, <1>1, <1>2, <1>3, <1>5 DEF Ends
    <3>2. /\ \A t : ~Holds(inbox'["back"], p, t)
          /\ Silent(inbox'["back"], p)
          /\ \A k : BackQueue(inbox'["back"], p, k)
      BY <3>1, EmptyQueue
    <3>3. FrontInv(p)'
      BY <3>1, <3>2, <2>1, <2>2 DEF PathInv, FrontInv
    <3>4. QueueInv(p)' /\ CloseInv(p)'
      BY <3>1, <3>2, <2>1, <2>2 DEF PathInv, QueueInv, CloseInv
    <3> QED
      BY <2>4, <3>3, <3>4 DEF Sound, PathInv
  <2> QED
    BY <2>5, <2>6 DEF Ends
<1> QED
  BY <1>7, <1>8 DEF IInv

-----------------------------------------------------------------------------
(* The theorems *)

LEMMA InitInv == Init => IInv
<1> SUFFICES ASSUME Init PROVE IInv
  OBVIOUS
<1>1. \A s \in Ends, p \in Paths : /\ openChannels[s][p] = 0 /\ session[s][p] = 0
                                   /\ Created(s, p) = 0 /\ over[s][p] = {}
                                   /\ ~disposed[s] /\ inbox[s] = <<>> /\ pendingOpen[s] = {}
  BY EmptySeq DEF Init, Created
<1>2. Base
  <2>1. TypeOK
    BY EmptySeq DEF Init, TypeOK
  <2>2. DisposedIsEmpty
    BY DEF Init, DisposedIsEmpty
  <2>3. pendingOpen["back"] = {}
    BY DEF Init, Ends
  <2> QED
    BY <2>1, <2>2, <2>3 DEF Base
<1>3. ASSUME NEW p \in Paths
      PROVE  Sound(p)
  <2>1. /\ openChannels["front"][p] = 0 /\ openChannels["back"][p] = 0
        /\ session["front"][p] = 0 /\ Created("front", p) = 0 /\ Created("back", p) = 0
        /\ inbox["front"] = <<>> /\ inbox["back"] = <<>> /\ pendingOpen["front"] = {}
    BY <1>1 DEF Ends
  <2>2. PathInv(p)
    BY <2>1, EmptyQueue DEF PathInv, FrontInv, QueueInv, CloseInv
  <2>3. ObjectsAt("front", p) /\ ObjectsAt("back", p)
    BY <1>1 DEF ObjectsAt, Ends
  <2> QED
    BY <2>2, <2>3 DEF Sound
<1> QED
  BY <1>2, <1>3 DEF IInv

LEMMA StepKeeps ==
  ASSUME Openers \subseteq {"front"}
  PROVE  IInv /\ [Next]_vars => IInv'
<1> SUFFICES ASSUME IInv, [Next]_vars PROVE IInv'
  OBVIOUS
<1>1. ASSUME NEW s \in Openers, NEW p \in Paths, Open(s, p) PROVE IInv'
  BY <1>1, OpenKeeps
<1>2. ASSUME NEW s \in Ends, Handle(s) PROVE IInv'
  BY <1>2, HandleOpenKeeps, HandleAckOpenKeeps, HandleCloseKeeps, HandleDataKeeps DEF Handle
<1>3. ASSUME NEW s \in Ends, NEW p \in Paths, NEW k \in 1..Created(s, p),
             Write(s, p, k) \/ CloseChannel(s, p, k)
      PROVE  IInv'
  BY <1>3, WriteKeeps, CloseChannelKeeps
<1>4. ASSUME NEW s \in Ends, UnderlyingChannelClose(s) PROVE IInv'
  BY <1>4, UnderlyingChannelCloseKeeps
<1>5. ASSUME UNCHANGED vars PROVE IInv'
  <2>1. UNCHANGED <<pendingOpen, openChannels, disposed, over, inbox, session, objects, closedAgain>>
    BY <1>5 DEF vars
  <2>2. Base'
    BY <2>1 DEF IInv, Base, TypeOK, DisposedIsEmpty
  <2>3. ASSUME NEW p \in Paths, ClosedOnce(p)' PROVE Sound(p)'
    <3>1. Sound(p)
      BY <2>1, <2>3 DEF ClosedOnce, IInv
    <3>2. PathSame(p)
      BY <2>1, NothingArrives DEF PathSame
    <3> QED
      BY <3>1, <3>2, SoundIsKept
  <2> QED
    BY <2>2, <2>3 DEF IInv
<1> QED
  BY <1>1, <1>2, <1>3, <1>4, <1>5 DEF Next

LEMMA IInvAlways ==
  ASSUME Openers \subseteq {"front"}
  PROVE  Spec => []IInv
<1>1. IInv /\ [Next]_vars => IInv'
  BY StepKeeps
<1> QED
  BY <1>1, InitInv, PTL DEF Spec

\* Unless a channel of its path was closed when it was over already, a channel object is
\* registered until it is closed by its owner or told of a close: nobody keeps a channel that
\* silently stopped receiving (openChannels of ChannelMultiplexer).
THEOREM NoOrphanedChannelAlways ==
  ASSUME Openers \subseteq {"front"}
  PROVE  Spec => []NoOrphanedChannel
<1>1. IInv => NoOrphanedChannel
  BY DEF IInv, Sound, ObjectsAt, NoOrphanedChannel, Ends
<1> QED
  BY <1>1, IInvAlways, PTL

\* Data that was written on an object that was not over and is about to be handled is of the
\* only session whose object can be registered, and that object exists (handleData), unless a
\* channel of the path was closed when it was over already.
THEOREM DataFindsItsSessionAlways ==
  ASSUME Openers \subseteq {"front"}
  PROVE  Spec => []DataFindsItsSession
<1>1. ASSUME IInv PROVE DataFindsItsSession
  <2> SUFFICES ASSUME NEW s \in Ends, Incoming(s, "Data"), ~Head(inbox[s]).late,
                      NEW p, p = Head(inbox[s]).path, ClosedOnce(p),
                      NEW mine, mine = ObjectsOf(s, p, Head(inbox[s]).of)
               PROVE  /\ mine # {}
                      /\ openChannels[s][p] \in mine \cup {0}
                      /\ openChannels[s][p] = 0 => mine \subseteq over[s][p]
    BY DEF DataFindsItsSession
  <2>1. /\ inbox[s] \in Seq(Message) /\ inbox[s] # <<>> /\ Head(inbox[s]).type = "Data"
        /\ Head(inbox[s]) \in Message /\ About(Head(inbox[s]), p)
    BY <1>1, Handled DEF Incoming, IInv, Base, TypeOK, About
  <2>2. p \in Paths /\ Sound(p) /\ PathInv(p) /\ ObjectsAt(s, p) /\ Head(inbox[s]).of \in SessionType
    BY <1>1, <2>1 DEF IInv, Message, Sound, Ends
  <2>3. Head(inbox[s]).of = Nth(Created(s, p))
    <3>1. CASE s = "front"
      BY <3>1, <2>1, <2>2, HandledFront DEF PathInv, QueueInv
    <3>2. CASE s = "back"
      BY <3>2, <2>1, <2>2, HandledBack DEF PathInv, QueueInv
    <3> QED
      BY <3>1, <3>2 DEF Ends
  <2>4. Created(s, p) \in Nat \ {0}
    BY <2>2, <2>3 DEF Nth, SessionType
  <2>5. mine = {Created(s, p)}
    <3>1. \A k \in 1..Created(s, p) : objects[s][p][k] = Nth(k)
      BY <2>2 DEF ObjectsAt
    <3> QED
      BY <2>3, <2>4, <3>1, SessionsDiffer DEF ObjectsOf
  <2>6. /\ openChannels[s][p] \in {0, Created(s, p)}
        /\ openChannels[s][p] = 0 => Created(s, p) \in over[s][p]
    BY <2>2, <2>4 DEF ObjectsAt
  <2> QED
    BY <2>5, <2>6
<1> QED
  BY <1>1, IInvAlways, PTL

\* When nothing about a path is on its way, and no channel of it was closed when it was over
\* already, neither end waits for an answer, and both have a channel of the same session or
\* none has one.
THEOREM EndsAgreeAlways ==
  ASSUME Openers \subseteq {"front"}
  PROVE  Spec => []EndsAgree
<1>1. ASSUME IInv PROVE EndsAgree
  <2> SUFFICES ASSUME NEW p \in Paths, \A s \in Ends : ~disposed[s], Quiet(p), ClosedOnce(p)
               PROVE  /\ \A s \in Ends : p \notin pendingOpen[s]
                      /\ openChannels["front"][p] = 0 <=> openChannels["back"][p] = 0
                      /\ openChannels["front"][p] # 0 => Current("front", p) = Current("back", p)
    BY DEF EndsAgree
  <2>1. /\ inbox["front"] \in Seq(Message) /\ inbox["back"] \in Seq(Message)
        /\ Silent(inbox["front"], p) /\ Silent(inbox["back"], p)
        /\ ~disposed["front"] /\ ~disposed["back"] /\ pendingOpen["back"] = {}
    BY <1>1 DEF Quiet, Silent, About, Ends, IInv, Base, TypeOK
  <2>2. /\ \A t : ~Holds(inbox["front"], p, t) /\ ~Holds(inbox["back"], p, t)
        /\ \A n : ~HoldsClose(inbox["front"], p, n)
    BY <2>1, SilentQueue
  <2>3. PathInv(p) /\ ObjectsAt("front", p) /\ ObjectsAt("back", p)
    BY <1>1 DEF IInv, Sound
  <2>4. p \notin pendingOpen["front"] /\ Created("back", p) = Created("front", p)
    BY <2>1, <2>2, <2>3 DEF PathInv, FrontInv
  <2>5. openChannels["front"][p] = 0 <=> openChannels["back"][p] = 0
    BY <2>1, <2>2, <2>3, <2>4 DEF PathInv, CloseInv
  <2>6. ASSUME openChannels["front"][p] # 0
        PROVE  Current("front", p) = Current("back", p)
    <3>1. Created("front", p) \in Nat
      BY <1>1, LenProperties DEF IInv, Base, TypeOK, Created, Ends
    <3>2. ASSUME NEW s \in {"front", "back"} PROVE Current(s, p) = Nth(Created("front", p))
      <4>1. ObjectsAt(s, p) /\ openChannels[s][p] # 0 /\ Created(s, p) = Created("front", p)
        BY <2>3, <2>4, <2>5, <2>6, <3>2
      <4>2. openChannels[s][p] = Created("front", p) /\ Created(s, p) \in 1..Created(s, p)
        BY <3>1, <4>1 DEF ObjectsAt
      <4> QED
        BY <4>1, <4>2 DEF ObjectsAt, Current
    <3> QED
      BY <3>2
  <2> QED
    BY <2>1, <2>4, <2>5, <2>6 DEF Ends
<1> QED
  BY <1>1, IInvAlways, PTL
=============================================================================
