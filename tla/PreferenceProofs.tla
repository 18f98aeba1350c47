--------------------------- MODULE PreferenceProofs ---------------------------
(***************************************************************************)
(* Proofs about PreferenceTransaction, for any set of calls: the           *)
(* transactions of a provider do not overlap, and a preference that was    *)
(* answered with true is in the file.                                      *)
(***************************************************************************)
EXTENDS PreferenceTransaction, SequenceTheorems, TLAPS

-----------------------------------------------------------------------------
(* The inductive invariant *)

TransactionType ==
  [open : BOOLEAN, queue : Seq(Calls \cup {Prelude, Setup}), setUp : {"loading", "asking", "ready"},
   status : BOOLEAN, reference : BOOLEAN, done : {"not in use", "waiting", "unlocked"},
   saves : SUBSET Calls, stage : {"open", "saving", "concluding", "done"},
   result : {"none", "true", "false"}]

CallStages == {"not called", "queued", "cancelled", "setting", "set", "true", "false"}

TypeOK ==
  /\ transactions \in Seq(TransactionType)
  /\ call \in [Calls -> [is : CallStages, in : Nat]]
  /\ text \subseteq Calls
  /\ file \subseteq Calls
  /\ disposed \in BOOLEAN
  /\ unsaved \subseteq Calls

\* The prelude still holds the queue.
AtPrelude(t) == t.queue # <<>> /\ t.queue[1] = Prelude

\* The set up is still in the queue.
Begins(t) ==
  \/ Len(t.queue) >= 1 /\ t.queue[1] = Setup
  \/ Len(t.queue) >= 2 /\ t.queue[1] = Prelude /\ t.queue[2] = Setup

\* What a transaction is by itself.
Fits(t) ==
  /\ t.open <=> t.stage = "open"
  /\ t.result # "none" => t.stage = "done"
  /\ \A k \in 2..Len(t.queue) : t.queue[k] # Prelude
  /\ t.open /\ t.setUp # "ready" => Begins(t)
  /\ AtPrelude(t) => t.setUp = "loading" /\ ~t.reference

\* A transaction behind its prelude has only finished ones before it.
Follows(n) ==
  /\ transactions[n].open => n = Len(transactions)
  /\ n # Len(transactions) => ~AtPrelude(transactions[n])
  /\ ~disposed /\ ~transactions[n].open => transactions[n].queue = <<>>
  /\ ~AtPrelude(transactions[n]) => \A m \in 1..n - 1 : transactions[m].stage = "done"

Chain == \A n \in DOMAIN transactions : Fits(transactions[n]) /\ Follows(n)

\* Those a queue holds.
Holds(t) == {t.queue[k] : k \in 1..Len(t.queue)}

\* Calls are in the queue of their own transaction.
CallsInv ==
  /\ \A c \in Calls : /\ call[c].is = "not called" => call[c].in = 0
                      /\ call[c].is # "not called" => call[c].in \in DOMAIN transactions
  /\ \A n \in DOMAIN transactions : \A c \in Holds(transactions[n]) \cap Calls : call[c].in = n

\* Where the value of c is, as long as c waits for the result of t: at last it is saved, or
\* left out by a save that did not write.
Kept(c, t, document, saved) ==
  /\ t.open => c \in document /\ t.reference /\ t.setUp = "ready"
  /\ t.stage = "saving" => c \in t.saves
  /\ t.stage = "concluding" => c \in saved
  /\ t.result = "true" => c \in saved

SavedInv ==
  ~disposed =>
    /\ file \subseteq text
    /\ \A n \in DOMAIN transactions : transactions[n].stage = "saving" => transactions[n].saves \subseteq text
    /\ \A n \in DOMAIN transactions : transactions[n].setUp = "ready" \/ ~transactions[n].status
    /\ \A c \in Calls : call[c].is \in {"setting", "set"} => Kept(c, transactions[call[c].in], text, file \cup unsaved)
    /\ \A c \in Calls : call[c].is = "true" => c \in file \cup unsaved

IInv == TypeOK /\ Chain /\ CallsInv /\ SavedInv

-----------------------------------------------------------------------------
(* What becomes of one transaction *)

\* Only the parts named are changed.
SameBut(t, u, parts) ==
  /\ "open" \notin parts => u.open = t.open
  /\ "queue" \notin parts => u.queue = t.queue
  /\ "setUp" \notin parts => u.setUp = t.setUp
  /\ "status" \notin parts => u.status = t.status
  /\ "reference" \notin parts => u.reference = t.reference
  /\ "saves" \notin parts => u.saves = t.saves
  /\ "stage" \notin parts => u.stage = t.stage
  /\ "result" \notin parts => u.result = t.result

\* The head of the queue leaves it.
LEMMA ReleasedIs ==
  ASSUME NEW t \in TransactionType, t.queue # <<>>
  PROVE  /\ Released(t) \in TransactionType
         /\ SameBut(t, Released(t), {"queue"})
         /\ Released(t).queue = Tail(t.queue)
<1> DEFINE d == IF Len(t.queue) = 1 /\ t.done = "waiting" THEN "unlocked" ELSE t.done
<1>1. Tail(t.queue) \in Seq(Calls \cup {Prelude, Setup})
  BY HeadTailProperties DEF TransactionType
<1>2. d \in {"not in use", "waiting", "unlocked"}
  BY DEF TransactionType
<1>3. Released(t) = [t EXCEPT !.queue = Tail(t.queue), !.done = d]
  BY DEF Released
<1> HIDE DEF d
<1> QED
  BY <1>1, <1>2, <1>3 DEF TransactionType, SameBut

\* The queue of a transaction that concludes keeps its owner only.
LEMMA ConcludedQueue ==
  ASSUME NEW q \in Seq(Calls \cup {Prelude, Setup})
  PROVE  /\ SubSeq(q, 1, IF q = <<>> THEN 0 ELSE 1) \in Seq(Calls \cup {Prelude, Setup})
         /\ SubSeq(q, 1, IF q = <<>> THEN 0 ELSE 1) = IF q = <<>> THEN <<>> ELSE <<q[1]>>
<1> DEFINE S == Calls \cup {Prelude, Setup}
<1>1. CASE q = <<>>
  <2>1. SubSeq(q, 1, 0) = <<>>
    BY SubSeqEmpty
  <2>2. <<>> \in Seq(S)
    BY EmptySeq
  <2> QED
    BY <1>1, <2>1, <2>2
<1>2. CASE q # <<>>
  <2>1. q[1] \in S
    BY <1>2, EmptySeq, ElementOfSeq
  <2> HIDE DEF S
  <2>2. /\ SubSeq(q, 1, 1) \in Seq(S) /\ Len(SubSeq(q, 1, 1)) = 1
        /\ SubSeq(q, 1, 1)[1] = q[1]
    BY <2>1, SubSeqProperties
  <2>3. <<q[1]>> \in Seq(S) /\ Len(<<q[1]>>) = 1 /\ <<q[1]>>[1] = q[1]
    BY <2>1
  <2> DEFINE u == SubSeq(q, 1, 1)
  <2> DEFINE v == <<q[1]>>
  <2>4. u \in Seq(S) /\ v \in Seq(S) /\ Len(u) = Len(v) /\ \A i \in 1..Len(u) : u[i] = v[i]
    BY <2>2, <2>3
  <2> HIDE DEF u, v
  <2>5. u = v
    BY <2>4, SeqEqual
  <2> QED
    BY <1>2, <2>2, <2>5 DEF S, u, v
<1> QED
  BY <1>1, <1>2

\* A transaction that concludes.
LEMMA ConcludedIs ==
  ASSUME NEW t \in TransactionType, text \subseteq Calls
  PROVE  /\ Concluded(t) \in TransactionType
         /\ SameBut(t, Concluded(t), {"open", "queue", "reference", "saves", "stage", "result"})
         /\ Concluded(t).queue = IF t.queue = <<>> THEN <<>> ELSE <<t.queue[1]>>
         /\ ~Concluded(t).open
         /\ Concluded(t).saves = text
         /\ Concluded(t).reference => t.reference
         /\ \/ Concluded(t).stage = "saving" /\ Concluded(t).result = "none"
            \/ Concluded(t).stage = "done" /\ Concluded(t).result = "false"
<1> DEFINE q == SubSeq(t.queue, 1, IF t.queue = <<>> THEN 0 ELSE 1)
<1>1. q \in Seq(Calls \cup {Prelude, Setup}) /\ q = IF t.queue = <<>> THEN <<>> ELSE <<t.queue[1]>>
  BY ConcludedQueue DEF TransactionType
<1>2. Concluded(t) = [t EXCEPT !.open = FALSE, !.queue = q, !.reference = t.reference /\ t.status, !.saves = text,
                               !.stage = IF t.reference /\ t.status THEN "saving" ELSE "done",
                               !.result = IF t.reference /\ t.status THEN "none" ELSE "false"]
  BY DEF Concluded
<1> DEFINE r == t.reference /\ t.status
<1>3. r \in BOOLEAN /\ (r => t.reference)
  BY DEF TransactionType
<1> HIDE DEF q, r
<1>4. CASE r
  <2>1. Concluded(t) = [t EXCEPT !.open = FALSE, !.queue = q, !.reference = TRUE, !.saves = text,
                                 !.stage = "saving", !.result = "none"]
    BY <1>2, <1>4 DEF r
  <2>2. Concluded(t) \in TransactionType
    BY <1>1, <2>1 DEF TransactionType
  <2>3. /\ Concluded(t).open = FALSE /\ Concluded(t).queue = q /\ Concluded(t).saves = text
        /\ Concluded(t).reference = TRUE /\ Concluded(t).stage = "saving" /\ Concluded(t).result = "none"
        /\ Concluded(t).setUp = t.setUp /\ Concluded(t).status = t.status
    BY <2>1 DEF TransactionType
  <2> QED
    BY <1>1, <1>3, <1>4, <2>2, <2>3 DEF SameBut
<1>5. CASE ~r
  <2>1. Concluded(t) = [t EXCEPT !.open = FALSE, !.queue = q, !.reference = FALSE, !.saves = text,
                                 !.stage = "done", !.result = "false"]
    BY <1>2, <1>5 DEF r
  <2>2. Concluded(t) \in TransactionType
    BY <1>1, <2>1 DEF TransactionType
  <2>3. /\ Concluded(t).open = FALSE /\ Concluded(t).queue = q /\ Concluded(t).saves = text
        /\ Concluded(t).reference = FALSE /\ Concluded(t).stage = "done" /\ Concluded(t).result = "false"
        /\ Concluded(t).setUp = t.setUp /\ Concluded(t).status = t.status
    BY <2>1 DEF TransactionType
  <2> QED
    BY <1>1, <2>2, <2>3 DEF SameBut
<1> QED
  BY <1>4, <1>5

\* The head of a sequence is taken off.
LEMMA TailOf ==
  ASSUME NEW S, NEW q \in Seq(S), q # <<>>
  PROVE  /\ Len(q) \in Nat \ {0} /\ Len(Tail(q)) = Len(q) - 1
         /\ \A k \in 1..Len(Tail(q)) : Tail(q)[k] = q[k + 1]
         /\ Tail(q) # <<>> => Len(q) >= 2
<1>1. Tail(q) \in Seq(S) /\ Len(Tail(q)) = Len(q) - 1 /\ \A k \in 1..Len(Tail(q)) : Tail(q)[k] = q[k + 1]
  BY HeadTailProperties
<1>2. Len(q) \in Nat \ {0} /\ (Tail(q) # <<>> => Len(Tail(q)) \in Nat \ {0})
  BY <1>1, EmptySeq
<1> QED
  BY <1>1, <1>2

\* How a transaction may go on, seen from the others.
Turns(s, t) ==
  /\ Fits(t)
  /\ t.open => s.open
  /\ s.stage = "done" => t.stage = "done"
  /\ AtPrelude(t) => AtPrelude(s)

\* A queue is released by its prelude, or behind the set up.
LEMMA ReleasedTurns ==
  ASSUME NEW t \in TransactionType, Fits(t), t.queue # <<>>,
         t.setUp = "ready" \/ ~t.open \/ t.queue[1] = Prelude
  PROVE  Turns(t, Released(t)) /\ ~AtPrelude(Released(t))
<1> DEFINE u == Released(t)
<1>1. u \in TransactionType /\ SameBut(t, u, {"queue"}) /\ u.queue = Tail(t.queue)
  BY ReleasedIs
<1> HIDE DEF u
<1>2. t.queue \in Seq(Calls \cup {Prelude, Setup})
  BY DEF TransactionType
<1>3. /\ Len(t.queue) \in Nat \ {0} /\ Len(u.queue) = Len(t.queue) - 1
      /\ \A k \in 1..Len(u.queue) : u.queue[k] = t.queue[k + 1]
      /\ u.queue # <<>> => Len(t.queue) >= 2
  BY <1>1, <1>2, TailOf, Zenon
<1>4. u.open = t.open /\ u.stage = t.stage /\ u.result = t.result /\ u.setUp = t.setUp /\ u.reference = t.reference
  BY <1>1 DEF SameBut
<1>5. ~AtPrelude(u)
  BY <1>3 DEF AtPrelude, Fits
<1>6. \A k \in 2..Len(u.queue) : u.queue[k] # Prelude
  BY <1>3 DEF Fits
<1>7. u.open /\ u.setUp # "ready" => Begins(u)
  BY <1>3, <1>4, QueueAssumption DEF Fits, Begins
<1> QED
  BY <1>4, <1>5, <1>6, <1>7 DEF Turns, Fits, u

\* The set up ends.
LEMMA ReadyTurns ==
  ASSUME NEW t \in TransactionType, Fits(t), t.queue # <<>>, t.queue[1] = Setup, NEW status \in BOOLEAN
  PROVE  /\ Ready(t, status) \in TransactionType
         /\ SameBut(t, Ready(t, status), {"setUp", "status", "queue"})
         /\ Ready(t, status).setUp = "ready"
         /\ Ready(t, status).queue = Tail(t.queue)
         /\ Turns(t, Ready(t, status)) /\ ~AtPrelude(Ready(t, status))
<1> DEFINE u == [t EXCEPT !.setUp = "ready", !.status = status]
<1>1. u \in TransactionType /\ SameBut(t, u, {"setUp", "status"}) /\ u.setUp = "ready"
  BY DEF TransactionType, SameBut
<1>2. Ready(t, status) = Released(u)
  BY DEF Ready
<1> HIDE DEF u
<1>3. u.queue = t.queue /\ u.open = t.open /\ u.stage = t.stage /\ u.result = t.result
  BY <1>1 DEF SameBut
<1>4. Fits(u) /\ u.queue # <<>>
  BY <1>1, <1>3, QueueAssumption DEF Fits, AtPrelude
<1>5. Turns(u, Released(u)) /\ ~AtPrelude(Released(u))
  BY <1>1, <1>4, ReleasedTurns
<1>6. Released(u) \in TransactionType /\ SameBut(u, Released(u), {"queue"}) /\ Released(u).queue = Tail(u.queue)
  BY <1>1, <1>4, ReleasedIs
<1> QED
  BY <1>1, <1>2, <1>3, <1>5, <1>6 DEF Turns, SameBut

\* A transaction concludes.
LEMMA ConcludedTurns ==
  ASSUME NEW t \in TransactionType, Fits(t), text \subseteq Calls, t.open
  PROVE  Turns(t, Concluded(t))
<1> DEFINE u == Concluded(t)
<1>1. /\ u \in TransactionType
      /\ SameBut(t, u, {"open", "queue", "reference", "saves", "stage", "result"})
      /\ u.queue = IF t.queue = <<>> THEN <<>> ELSE <<t.queue[1]>>
      /\ ~u.open
      /\ u.reference => t.reference
      /\ \/ u.stage = "saving" /\ u.result = "none"
         \/ u.stage = "done" /\ u.result = "false"
  BY ConcludedIs
<1> HIDE DEF u
<1>2. u.setUp = t.setUp
  BY <1>1 DEF SameBut
<1>3. \A k \in 2..Len(u.queue) : u.queue[k] # Prelude
  BY <1>1
<1>4. AtPrelude(u) => AtPrelude(t)
  BY <1>1 DEF AtPrelude
<1> QED
  BY <1>1, <1>2, <1>3, <1>4 DEF Turns, Fits, u

-----------------------------------------------------------------------------
(* The transactions of the provider *)

\* One transaction changes, the others stay.
LEMMA OnlyOne ==
  ASSUME transactions \in Seq(TransactionType), NEW n \in DOMAIN transactions, NEW t \in TransactionType,
         transactions' = [transactions EXCEPT ![n] = t]
  PROVE  /\ transactions' \in Seq(TransactionType)
         /\ Len(transactions) \in Nat /\ DOMAIN transactions = 1..Len(transactions)
         /\ Len(transactions') = Len(transactions) /\ DOMAIN transactions' = DOMAIN transactions
         /\ transactions'[n] = t
         /\ \A m \in DOMAIN transactions : m # n => transactions'[m] = transactions[m]
<1>1. Len(transactions) \in Nat /\ DOMAIN transactions = 1..Len(transactions)
  BY LenProperties
<1>2. /\ transactions' \in Seq(TransactionType) /\ Len(transactions') = Len(transactions)
      /\ \A m \in 1..Len(transactions) : transactions'[m] = IF m = n THEN t ELSE transactions[m]
  BY <1>1, ExceptSeq
<1>3. DOMAIN transactions' = 1..Len(transactions')
  BY <1>2, LenProperties
<1> QED
  BY <1>1, <1>2, <1>3

\* A step of one transaction keeps the chain when it behaves towards the others: it leaves
\* its prelude when the one before it has a result, and closes with an empty queue.
LEMMA ChainStep ==
  ASSUME transactions \in Seq(TransactionType), Chain, NEW n \in DOMAIN transactions, NEW t \in TransactionType,
         transactions' = [transactions EXCEPT ![n] = t],
         disposed => disposed',
         Turns(transactions[n], t),
         ~disposed' /\ ~t.open => t.queue = <<>>,
         ~AtPrelude(t) => ~AtPrelude(transactions[n]) \/ n = 1 \/ transactions[n - 1].result # "none"
  PROVE  transactions' \in Seq(TransactionType) /\ Chain'
<1>1. /\ transactions' \in Seq(TransactionType)
      /\ Len(transactions) \in Nat /\ DOMAIN transactions = 1..Len(transactions)
      /\ Len(transactions') = Len(transactions) /\ DOMAIN transactions' = DOMAIN transactions
      /\ transactions'[n] = t
      /\ \A m \in DOMAIN transactions : m # n => transactions'[m] = transactions[m]
  BY OnlyOne
<1>2. \A m \in DOMAIN transactions : Fits(transactions[m]) /\ Follows(m)
  BY DEF Chain
<1>3. \A m \in DOMAIN transactions : transactions[m].stage = "done" => transactions'[m].stage = "done"
  BY <1>1 DEF Turns
<1>4. SUFFICES ASSUME NEW m \in DOMAIN transactions
               PROVE  Fits(transactions'[m]) /\ Follows(m)'
  BY <1>1 DEF Chain
<1>5. Fits(transactions'[m])
  BY <1>1, <1>2 DEF Turns
<1>6. /\ transactions'[m].open => m = Len(transactions')
      /\ m # Len(transactions') => ~AtPrelude(transactions'[m])
      /\ ~disposed' /\ ~transactions'[m].open => transactions'[m].queue = <<>>
  BY <1>1, <1>2 DEF Turns, Follows
<1>7. ASSUME ~AtPrelude(transactions'[m]), NEW k \in 1..m - 1
      PROVE  transactions[k].stage = "done"
  <2>1. CASE ~AtPrelude(transactions[m])
    BY <1>1, <1>2, <1>7, <2>1 DEF Follows
  <2>2. CASE AtPrelude(transactions[m])
    <3>1. m = n
      BY <1>1, <1>7, <2>2
    <3>2. m - 1 \in DOMAIN transactions /\ transactions[m - 1].result # "none"
      BY <1>1, <1>7, <2>2, <3>1
    <3>3. transactions[m - 1].stage = "done" /\ ~AtPrelude(transactions[m - 1])
      BY <1>1, <1>2, <3>2 DEF Fits, Follows
    <3> QED
      BY <1>1, <1>2, <3>2, <3>3 DEF Follows
  <2> QED
    BY <2>1, <2>2
<1>8. \A k \in 1..m - 1 : k \in DOMAIN transactions
  BY <1>1
<1> QED
  BY <1>3, <1>5, <1>6, <1>7, <1>8 DEF Follows

-----------------------------------------------------------------------------
(* The steps *)

\* The owner of a queue is at its head, and works for an open transaction unless the
\* provider was disposed.
LEMMA OwnerIs ==
  ASSUME transactions \in Seq(TransactionType), Chain, NEW n \in DOMAIN transactions, NEW x \in Owner(n)
  PROVE  /\ transactions[n] \in TransactionType
         /\ Fits(transactions[n])
         /\ transactions[n].queue # <<>> /\ transactions[n].queue[1] = x
         /\ ~disposed => transactions[n].open
<1>1. transactions[n] \in TransactionType
  BY LenProperties, ElementOfSeq
<1>2. transactions[n].queue # <<>> /\ x = Head(transactions[n].queue)
  BY DEF Owner
<1> DEFINE q == transactions[n].queue
<1>3. q \in Seq(Calls \cup {Prelude, Setup}) /\ q # <<>> /\ x = Head(q)
  BY <1>1, <1>2 DEF TransactionType
<1> HIDE DEF q
<1>4. q[1] = x
  BY <1>3
<1> QED
  BY <1>1, <1>2, <1>4 DEF Chain, Follows, q

LEMMA PreludeEndsChain ==
  ASSUME TypeOK, Chain, NEW n \in DOMAIN transactions, PreludeEnds(n)
  PROVE  transactions' \in Seq(TransactionType) /\ Chain'
<1> DEFINE t == transactions[n]
<1> DEFINE u == Released(t)
<1>1. t \in TransactionType /\ Fits(t) /\ t.queue # <<>> /\ t.queue[1] = Prelude /\ (~disposed => t.open)
  BY OwnerIs DEF PreludeEnds, TypeOK
<1>2. u \in TransactionType /\ SameBut(t, u, {"queue"})
  BY <1>1, ReleasedIs
<1>3. Turns(t, u)
  BY <1>1, ReleasedTurns
<1>4. u.open = t.open
  BY <1>2 DEF SameBut
<1>5. n \in Nat \ {0}
  BY LenProperties DEF TypeOK
<1>6. disposed' = disposed /\ transactions' = [transactions EXCEPT ![n] = u] /\ (n = 1 \/ transactions[n - 1].result # "none")
  BY <1>5 DEF PreludeEnds
<1> HIDE DEF u
<1> QED
  BY <1>1, <1>2, <1>3, <1>4, <1>6, ChainStep DEF TypeOK

LEMMA ReferencedChain ==
  ASSUME TypeOK, Chain, NEW n \in DOMAIN transactions, Referenced(n)
  PROVE  transactions' \in Seq(TransactionType) /\ Chain'
<1> DEFINE t == transactions[n]
<1>1. /\ t \in TransactionType /\ Fits(t) /\ t.queue # <<>> /\ t.queue[1] = Setup /\ (~disposed => t.open)
      /\ disposed' = disposed
  BY OwnerIs DEF Referenced, SetUp, TypeOK
<1>2. ~AtPrelude(t)
  BY <1>1, QueueAssumption DEF AtPrelude
<1>3. CASE transactions' = [transactions EXCEPT ![n].reference = TRUE, ![n].setUp = "asking"]
  <2> DEFINE u == [t EXCEPT !.reference = TRUE, !.setUp = "asking"]
  <2>1. u \in TransactionType /\ SameBut(t, u, {"reference", "setUp"})
    BY <1>1 DEF TransactionType, SameBut
  <2>2. transactions' = [transactions EXCEPT ![n] = u]
    BY <1>3
  <2> HIDE DEF u
  <2>3. u.open = t.open /\ u.queue = t.queue /\ u.stage = t.stage /\ u.result = t.result
    BY <2>1 DEF SameBut
  <2>4. Len(t.queue) \in Nat \ {0}
    BY <1>1, EmptySeq, LenProperties DEF TransactionType
  <2>5. Begins(u) /\ ~AtPrelude(u)
    BY <1>1, <1>2, <2>3, <2>4 DEF Begins, AtPrelude
  <2>6. Turns(t, u)
    BY <1>1, <2>3, <2>5 DEF Turns, Fits
  <2> QED
    BY <1>1, <1>2, <2>1, <2>2, <2>3, <2>6, ChainStep DEF TypeOK
<1>4. ASSUME NEW v \in TransactionType, Fits(v), v.queue = t.queue, v.open = t.open, v.stage = t.stage,
             NEW status \in BOOLEAN, transactions' = [transactions EXCEPT ![n] = Ready(v, status)]
      PROVE  transactions' \in Seq(TransactionType) /\ Chain'
  <2> DEFINE u == Ready(v, status)
  <2>1. u \in TransactionType /\ SameBut(v, u, {"setUp", "status", "queue"}) /\ Turns(v, u) /\ ~AtPrelude(u)
    BY <1>1, <1>4, ReadyTurns
  <2> HIDE DEF u
  <2>2. u.open = t.open
    BY <1>4, <2>1 DEF SameBut
  <2>3. Turns(t, u)
    BY <1>4, <2>1 DEF Turns, AtPrelude
  <2>4. transactions' = [transactions EXCEPT ![n] = u]
    BY <1>4 DEF u
  <2> QED
    BY <1>1, <1>2, <2>1, <2>2, <2>3, <2>4, ChainStep DEF TypeOK
<1>5. CASE transactions' = [transactions EXCEPT ![n] = Ready([@ EXCEPT !.reference = TRUE], TRUE)]
  <2> DEFINE v == [t EXCEPT !.reference = TRUE]
  <2>1. v \in TransactionType /\ SameBut(t, v, {"reference"})
    BY <1>1 DEF TransactionType, SameBut
  <2>2. transactions' = [transactions EXCEPT ![n] = Ready(v, TRUE)]
    BY <1>5
  <2> HIDE DEF v
  <2>3. v.open = t.open /\ v.queue = t.queue /\ v.stage = t.stage /\ v.result = t.result /\ v.setUp = t.setUp
    BY <2>1 DEF SameBut
  <2>4. Fits(v)
    BY <1>1, <1>2, <2>3 DEF Fits, AtPrelude, Begins
  <2> QED
    BY <1>4, <2>1, <2>2, <2>3, <2>4
<1>6. CASE transactions' = [transactions EXCEPT ![n] = Ready(@, FALSE)]
  <2>1. transactions' = [transactions EXCEPT ![n] = Ready(t, FALSE)]
    BY <1>6
  <2> QED
    BY <1>1, <1>4, <2>1
<1> QED
  BY <1>3, <1>5, <1>6 DEF Referenced

LEMMA SaveAndRetryChain ==
  ASSUME TypeOK, Chain, NEW n \in DOMAIN transactions, SaveAndRetry(n)
  PROVE  transactions' \in Seq(TransactionType) /\ Chain'
<1> DEFINE t == transactions[n]
<1> DEFINE u == Ready(t, TRUE)
<1>1. /\ t \in TransactionType /\ Fits(t) /\ t.queue # <<>> /\ t.queue[1] = Setup /\ (~disposed => t.open)
      /\ disposed' = disposed
  BY OwnerIs DEF SaveAndRetry, SetUp, TypeOK
<1>2. ~AtPrelude(t)
  BY <1>1, QueueAssumption DEF AtPrelude
<1>3. u \in TransactionType /\ SameBut(t, u, {"setUp", "status", "queue"}) /\ Turns(t, u)
  BY <1>1, ReadyTurns
<1>4. u.open = t.open
  BY <1>3 DEF SameBut
<1>5. transactions' = [transactions EXCEPT ![n] = u]
  BY DEF SaveAndRetry
<1> HIDE DEF u
<1> QED
  BY <1>1, <1>2, <1>3, <1>4, <1>5, ChainStep DEF TypeOK

LEMMA SetUpFailsChain ==
  ASSUME TypeOK, Chain, NEW n \in DOMAIN transactions, SetUpFails(n)
  PROVE  transactions' \in Seq(TransactionType) /\ Chain'
<1> DEFINE t == transactions[n]
<1> DEFINE v == IF t.open THEN Concluded(t) ELSE t
<1> DEFINE u == Ready(v, FALSE)
<1>1. /\ t \in TransactionType /\ Fits(t) /\ t.queue # <<>> /\ t.queue[1] = Setup /\ (~disposed => t.open)
      /\ disposed' = disposed
  BY OwnerIs DEF SetUpFails, SetUp, TypeOK
<1>2. ~AtPrelude(t)
  BY <1>1, QueueAssumption DEF AtPrelude
<1>3. /\ v \in TransactionType /\ v.queue # <<>> /\ v.queue[1] = Setup /\ Turns(t, v) /\ ~v.open
      /\ t.open => v.queue = <<Setup>>
  <2>1. CASE t.open
    <3>1. Concluded(t) \in TransactionType /\ Concluded(t).queue = <<Setup>> /\ ~Concluded(t).open
      BY <1>1, ConcludedIs DEF TypeOK
    <3>2. Turns(t, Concluded(t))
      BY <1>1, <2>1, ConcludedTurns DEF TypeOK
    <3> QED
      BY <2>1, <3>1, <3>2
  <2>2. CASE ~t.open
    BY <1>1, <2>2 DEF Turns
  <2> QED
    BY <2>1, <2>2
<1> HIDE DEF v
<1>4. u \in TransactionType /\ SameBut(v, u, {"setUp", "status", "queue"}) /\ u.queue = Tail(v.queue) /\ Turns(v, u) /\ ~AtPrelude(u)
  BY <1>3, ReadyTurns DEF Turns
<1>5. transactions' = [transactions EXCEPT ![n] = u]
  BY DEF SetUpFails, v
<1> HIDE DEF u
<1>6. u.open = v.open
  BY <1>4 DEF SameBut
<1>7. Turns(t, u)
  BY <1>3, <1>4 DEF Turns
<1>8. ~disposed' => u.queue = <<>>
  <2>1. ~disposed' => u.queue = Tail(<<Setup>>)
    BY <1>1, <1>3, <1>4
  <2>2. <<Setup>> \in Seq({Setup}) /\ Len(<<Setup>>) = 1
    OBVIOUS
  <2>3. Tail(<<Setup>>) = <<>>
    BY <2>2, TailOf
  <2> QED
    BY <2>1, <2>3
<1> QED
  BY <1>1, <1>2, <1>4, <1>5, <1>7, <1>8, ChainStep DEF TypeOK

\* A call that owns a queue finds the set up ended.
LEMMA ActChain ==
  ASSUME TypeOK, Chain, NEW c \in Calls, Act(c)
  PROVE  transactions' \in Seq(TransactionType) /\ Chain'
<1>1. PICK n \in DOMAIN transactions :
        /\ c \in Owner(n)
        /\ transactions' = [transactions EXCEPT
             ![n] = Released([transactions[n] EXCEPT !.done = IF @ = "not in use" THEN "waiting" ELSE @])]
        /\ disposed' = disposed
  BY DEF Act
<1> DEFINE t == transactions[n]
<1> DEFINE v == [t EXCEPT !.done = IF @ = "not in use" THEN "waiting" ELSE @]
<1> DEFINE u == Released(v)
<1>2. t \in TransactionType /\ Fits(t) /\ t.queue # <<>> /\ t.queue[1] = c /\ (~disposed => t.open)
  BY <1>1, OwnerIs DEF TypeOK
<1>3. ~AtPrelude(t) /\ (t.open => t.setUp = "ready")
  BY <1>2, QueueAssumption DEF AtPrelude, Fits, Begins
<1>4. v \in TransactionType /\ SameBut(t, v, {})
  BY <1>2 DEF TransactionType, SameBut
<1>5. transactions' = [transactions EXCEPT ![n] = u]
  BY <1>1
<1> HIDE DEF v
<1>6. v.open = t.open /\ v.queue = t.queue /\ v.setUp = t.setUp /\ v.stage = t.stage /\ v.result = t.result /\ v.reference = t.reference
  BY <1>4 DEF SameBut
<1>7. Fits(v)
  BY <1>2, <1>6 DEF Fits, AtPrelude, Begins
<1>8. u \in TransactionType /\ SameBut(v, u, {"queue"}) /\ Turns(v, u) /\ ~AtPrelude(u)
  BY <1>2, <1>3, <1>4, <1>6, <1>7, ReleasedIs, ReleasedTurns
<1> HIDE DEF u
<1>9. Turns(t, u) /\ u.open = t.open
  BY <1>6, <1>8 DEF Turns, SameBut
<1> QED
  BY <1>1, <1>2, <1>3, <1>5, <1>8, <1>9, ChainStep DEF TypeOK

LEMMA DoneChain ==
  ASSUME TypeOK, Chain, NEW n \in DOMAIN transactions, Done(n)
  PROVE  transactions' \in Seq(TransactionType) /\ Chain'
<1> DEFINE t == transactions[n]
<1> DEFINE v == [t EXCEPT !.done = "waiting"]
<1>1. t \in TransactionType /\ Fits(t) /\ (~disposed /\ ~t.open => t.queue = <<>>) /\ disposed' = disposed
  BY LenProperties, ElementOfSeq DEF TypeOK, Chain, Follows, Done
<1>2. v \in TransactionType /\ SameBut(t, v, {})
  BY <1>1 DEF TransactionType, SameBut
<1>3. \/ v.queue = <<>> /\ v.open /\ transactions' = [transactions EXCEPT ![n] = Concluded(v)]
      \/ transactions' = [transactions EXCEPT ![n] = v]
  BY DEF Done
<1> HIDE DEF v
<1>4. v.open = t.open /\ v.queue = t.queue /\ v.setUp = t.setUp /\ v.stage = t.stage /\ v.result = t.result /\ v.reference = t.reference
  BY <1>2 DEF SameBut
<1>5. Turns(t, v) /\ (AtPrelude(v) <=> AtPrelude(t))
  BY <1>1, <1>4 DEF Fits, AtPrelude, Begins, Turns
<1>6. CASE transactions' = [transactions EXCEPT ![n] = v]
  BY <1>1, <1>2, <1>4, <1>5, <1>6, ChainStep DEF TypeOK
<1>7. CASE v.queue = <<>> /\ v.open /\ transactions' = [transactions EXCEPT ![n] = Concluded(v)]
  <2> DEFINE u == Concluded(v)
  <2>1. u \in TransactionType /\ u.queue = <<>>
    BY <1>2, <1>7, ConcludedIs DEF TypeOK
  <2>2. Turns(v, u)
    BY <1>2, <1>5, <1>7, ConcludedTurns DEF TypeOK, Turns
  <2>3. transactions' = [transactions EXCEPT ![n] = u] /\ v.queue = <<>>
    BY <1>7
  <2> HIDE DEF u
  <2>4. Turns(t, u) /\ ~AtPrelude(t)
    BY <1>4, <1>5, <2>2, <2>3 DEF Turns, AtPrelude
  <2> QED
    BY <1>1, <2>1, <2>3, <2>4, ChainStep DEF TypeOK
<1> QED
  BY <1>3, <1>6, <1>7

\* A save is of a closed transaction.
LEMMA SavingChain ==
  ASSUME TypeOK, Chain, NEW n \in DOMAIN transactions, SaveEnds(n) \/ ConcludeEnds(n)
  PROVE  transactions' \in Seq(TransactionType) /\ Chain'
<1> DEFINE t == transactions[n]
<1>1. /\ t \in TransactionType /\ Fits(t) /\ (~disposed /\ ~t.open => t.queue = <<>>)
      /\ disposed' = disposed /\ t.stage \in {"saving", "concluding"}
  BY LenProperties, ElementOfSeq DEF TypeOK, Chain, Follows, SaveEnds, ConcludeEnds
<1>2. ~t.open /\ t.result = "none"
  BY <1>1 DEF Fits, TransactionType
<1>3. ASSUME NEW u \in TransactionType, SameBut(t, u, {"stage", "reference", "result"}),
             u.stage \in {"concluding", "done"}, u.result # "none" => u.stage = "done", u.reference => t.reference,
             transactions' = [transactions EXCEPT ![n] = u]
      PROVE  transactions' \in Seq(TransactionType) /\ Chain'
  <2>1. u.open = t.open /\ u.queue = t.queue /\ u.setUp = t.setUp
    BY <1>3 DEF SameBut
  <2>2. Turns(t, u) /\ (AtPrelude(u) <=> AtPrelude(t))
    BY <1>1, <1>2, <1>3, <2>1 DEF Fits, AtPrelude, Begins, Turns
  <2> QED
    BY <1>1, <1>3, <2>1, <2>2, ChainStep DEF TypeOK
<1>4. CASE transactions' = [transactions EXCEPT ![n].stage = "concluding", ![n].reference = FALSE]
  <2> DEFINE u == [t EXCEPT !.stage = "concluding", !.reference = FALSE]
  <2>1. u \in TransactionType /\ SameBut(t, u, {"stage", "reference", "result"}) /\ u.stage = "concluding"
        /\ u.result = "none" /\ ~u.reference
    BY <1>1, <1>2 DEF TransactionType, SameBut
  <2>2. transactions' = [transactions EXCEPT ![n] = u]
    BY <1>4
  <2> HIDE DEF u
  <2> QED
    BY <1>3, <2>1, <2>2
<1>5. CASE transactions' = [transactions EXCEPT ![n].stage = "done", ![n].reference = FALSE, ![n].result = "false"]
  <2> DEFINE u == [t EXCEPT !.stage = "done", !.reference = FALSE, !.result = "false"]
  <2>1. u \in TransactionType /\ SameBut(t, u, {"stage", "reference", "result"}) /\ u.stage = "done" /\ ~u.reference
    BY <1>1 DEF TransactionType, SameBut
  <2>2. transactions' = [transactions EXCEPT ![n] = u]
    BY <1>5
  <2> HIDE DEF u
  <2> QED
    BY <1>3, <2>1, <2>2
<1>6. CASE transactions' = [transactions EXCEPT ![n].stage = "done", ![n].result = "true"]
  <2> DEFINE u == [t EXCEPT !.stage = "done", !.result = "true"]
  <2>1. u \in TransactionType /\ SameBut(t, u, {"stage", "reference", "result"}) /\ u.stage = "done"
        /\ u.reference = t.reference
    BY <1>1 DEF TransactionType, SameBut
  <2>2. transactions' = [transactions EXCEPT ![n] = u]
    BY <1>6
  <2> HIDE DEF u
  <2> QED
    BY <1>3, <2>1, <2>2
<1> QED
  BY <1>4, <1>5, <1>6 DEF SaveEnds, ConcludeEnds

LEMMA DisposeChain ==
  ASSUME TypeOK, Chain, Dispose
  PROVE  transactions' \in Seq(TransactionType) /\ Chain'
<1>1. disposed'
  BY DEF Dispose
<1>2. CASE transactions' = transactions
  <2>1. DOMAIN transactions' = DOMAIN transactions /\ Len(transactions') = Len(transactions)
    BY <1>2
  <2> QED
    BY <1>1, <1>2, <2>1 DEF TypeOK, Chain, Follows
<1>3. ASSUME NEW n \in DOMAIN transactions, transactions[n].open,
             transactions' = [transactions EXCEPT ![n] = Concluded(@)]
      PROVE  transactions' \in Seq(TransactionType) /\ Chain'
  <2> DEFINE t == transactions[n]
  <2> DEFINE u == Concluded(t)
  <2>1. t \in TransactionType /\ Fits(t)
    BY LenProperties, ElementOfSeq DEF TypeOK, Chain
  <2>2. u \in TransactionType /\ Turns(t, u) /\ u.queue = IF t.queue = <<>> THEN <<>> ELSE <<t.queue[1]>>
    BY <1>3, <2>1, ConcludedIs, ConcludedTurns DEF TypeOK
  <2>3. transactions' = [transactions EXCEPT ![n] = u]
    BY <1>3
  <2> HIDE DEF u
  <2>4. ~AtPrelude(u) => ~AtPrelude(t)
    BY <2>2 DEF AtPrelude
  <2> QED
    BY <1>1, <2>1, <2>2, <2>3, <2>4, ChainStep DEF TypeOK
<1> QED
  BY <1>2, <1>3 DEF Dispose

\* A call is queued behind what the queue holds.
LEMMA QueuedIs ==
  ASSUME NEW t \in TransactionType, NEW c \in Calls, Fits(t), t.open,
         NEW u, u = [t EXCEPT !.queue = Append(@, c)]
  PROVE  /\ u \in TransactionType
         /\ SameBut(t, u, {"queue"})
         /\ Turns(t, u) /\ u.open
         /\ AtPrelude(t) => AtPrelude(u)
         /\ Holds(u) \subseteq Holds(t) \cup {c}
<1> DEFINE S == Calls \cup {Prelude, Setup}
<1> DEFINE q == t.queue
<1>1. q \in Seq(S) /\ c \in S
  BY DEF TransactionType
<1> HIDE DEF S
<1> DEFINE r == Append(q, c)
<1>2. /\ r \in Seq(S) /\ Len(r) = Len(q) + 1 /\ r[Len(r)] = c /\ Len(q) \in Nat
      /\ \A k \in 1..Len(q) : r[k] = q[k]
      /\ q # <<>> => Len(q) # 0
      /\ r # <<>>
  BY <1>1, AppendProperties, EmptySeq, LenProperties
<1> HIDE DEF r
<1>3. u \in TransactionType /\ SameBut(t, u, {"queue"}) /\ u.queue = r
  BY <1>2 DEF TransactionType, SameBut, S, r
<1>4. u.open = t.open /\ u.setUp = t.setUp /\ u.stage = t.stage /\ u.result = t.result /\ u.reference = t.reference
  BY <1>3 DEF SameBut
<1>5. c # Prelude
  BY QueueAssumption
<1>6. Holds(u) \subseteq Holds(t) \cup {c}
  <2>1. \A k \in 1..Len(r) : k = Len(r) \/ k \in 1..Len(q)
    BY <1>2
  <2> QED
    BY <1>2, <1>3, <2>1 DEF Holds
<1>7. CASE Len(q) = 0
  <2>1. q = <<>>
    BY <1>2, <1>7
  <2>2. Len(r) = 1 /\ r[1] = c
    BY <1>2, <1>7
  <2> QED
    BY <1>3, <1>4, <1>5, <1>6, <2>1, <2>2 DEF Turns, Fits, AtPrelude, Begins
<1>8. CASE Len(q) # 0
  <2>1. r[1] = q[1] /\ q # <<>>
    BY <1>2, <1>8, EmptySeq
  <2>2. \A k \in 2..Len(r) : r[k] # Prelude
    <3>1. SUFFICES ASSUME NEW k \in 2..Len(r) PROVE r[k] # Prelude
      OBVIOUS
    <3>2. CASE k = Len(r)
      BY <1>2, <1>5, <3>2
    <3>3. CASE k # Len(r)
      <4>1. k \in 2..Len(q) /\ k \in 1..Len(q)
        BY <1>2, <3>3
      <4> QED
        BY <1>2, <4>1 DEF Fits
    <3> QED
      BY <3>2, <3>3
  <2>3. Begins(t) => Begins(u)
    BY <1>2, <1>3 DEF Begins
  <2>4. AtPrelude(u) <=> AtPrelude(t)
    BY <1>2, <1>3, <2>1 DEF AtPrelude
  <2> QED
    BY <1>3, <1>4, <1>6, <2>2, <2>3, <2>4 DEF Turns, Fits
<1> QED
  BY <1>7, <1>8

\* A new transaction is well-formed.
LEMMA NewIs ==
  /\ New \in TransactionType /\ Fits(New) /\ New.open /\ AtPrelude(New)
  /\ New.stage = "open" /\ ~New.status /\ Holds(New) \subseteq {Prelude, Setup}
<1>1. <<Prelude, Setup>> \in Seq(Calls \cup {Prelude, Setup}) /\ Len(<<Prelude, Setup>>) = 2
  OBVIOUS
<1> DEFINE q == <<Prelude, Setup>>
<1>2. q \in Seq(Calls \cup {Prelude, Setup}) /\ Len(q) = 2 /\ q[1] = Prelude /\ q[2] = Setup /\ q # <<>>
  OBVIOUS
<1>3. New = [open |-> TRUE, queue |-> q, setUp |-> "loading", status |-> FALSE,
             reference |-> FALSE, done |-> "not in use", saves |-> {}, stage |-> "open", result |-> "none"]
  BY DEF New
<1> HIDE DEF q
<1>4. New.queue = q /\ New.open = TRUE /\ New.setUp = "loading" /\ New.reference = FALSE /\ New.stage = "open" /\ New.result = "none"
  BY <1>3
<1>5. New \in TransactionType
  BY <1>2, <1>3 DEF TransactionType
<1>6. \A k \in 2..Len(q) : q[k] # Prelude
  BY <1>2, QueueAssumption
<1>7. AtPrelude(New)
  BY <1>2, <1>4 DEF AtPrelude
<1>8. Begins(New)
  BY <1>2, <1>4 DEF Begins
<1>9. Fits(New)
  BY <1>4, <1>6, <1>8 DEF Fits
<1>10. Holds(New) \subseteq {Prelude, Setup}
  <2>1. Holds(New) = {q[k] : k \in 1..2}
    BY <1>2, <1>4 DEF Holds
  <2>2. \A k \in 1..2 : k = 1 \/ k = 2
    OBVIOUS
  <2> QED
    BY <1>2, <2>1, <2>2
<1>11. ~New.status
  BY <1>3
<1> QED
  BY <1>4, <1>5, <1>7, <1>9, <1>10, <1>11

\* What a call does to the transactions: it is in the queue of one.
Queued(c) ==
  /\ call' \in [Calls -> [is : CallStages, in : Nat]]
  /\ call'[c].is = "queued" /\ \A d \in Calls \ {c} : call'[d] = call[d]
  /\ call'[c].in \in DOMAIN transactions'
  /\ DOMAIN transactions \subseteq DOMAIN transactions'
  /\ \A m \in DOMAIN transactions' :
       LET t == IF m \in DOMAIN transactions THEN transactions[m] ELSE New IN
       /\ SameBut(t, transactions'[m], {"queue"})
       /\ Holds(transactions'[m]) \subseteq Holds(t) \cup (IF m = call'[c].in THEN {c} ELSE {})

LEMMA SetPreferenceChain ==
  ASSUME TypeOK, Chain, NEW c \in Calls, SetPreference(c)
  PROVE  transactions' \in Seq(TransactionType) /\ Chain' /\ Queued(c)
<1>0. Len(transactions) \in Nat /\ DOMAIN transactions = 1..Len(transactions) /\ transactions \in Seq(TransactionType)
  BY LenProperties DEF TypeOK
<1> PICK L \in Nat : L = Len(transactions)
  BY <1>0
<1> DEFINE again == L # 0 /\ transactions[L].open
<1> DEFINE ts == IF again THEN transactions ELSE Append(transactions, New)
<1>1. /\ ~disposed /\ ~disposed'
      /\ transactions' = [ts EXCEPT ![Len(ts)].queue = Append(@, c)]
      /\ call' = [call EXCEPT ![c] = [is |-> "queued", in |-> Len(ts)]]
  BY DEF SetPreference
<1>2. L \in Nat /\ DOMAIN transactions = 1..L /\ transactions \in Seq(TransactionType)
  BY <1>0
<1>3. CASE again
  <2> DEFINE t == transactions[L]
  <2> DEFINE u == [t EXCEPT !.queue = Append(@, c)]
  <2>1. L \in DOMAIN transactions /\ t.open /\ t \in TransactionType /\ Fits(t)
    BY <1>2, <1>3, ElementOfSeq DEF Chain
  <2>2. transactions' = [transactions EXCEPT ![L] = u]
    BY <1>1, <1>3
  <2>3. /\ u \in TransactionType /\ Turns(t, u) /\ u.open
        /\ AtPrelude(t) => AtPrelude(u)
        /\ SameBut(t, u, {"queue"}) /\ Holds(u) \subseteq Holds(t) \cup {c}
    BY <2>1, QueuedIs
  <2>4. ts = transactions
    BY <1>3
  <2> HIDE DEF u
  <2>5. transactions' \in Seq(TransactionType) /\ Chain'
    BY <1>1, <1>2, <2>1, <2>2, <2>3, ChainStep
  <2>6. Queued(c)
    <3>1. call' = [call EXCEPT ![c] = [is |-> "queued", in |-> L]]
      BY <1>1, <2>4
    <3>2. /\ call' \in [Calls -> [is : CallStages, in : Nat]] /\ call'[c].is = "queued" /\ call'[c].in = L
          /\ \A d \in Calls \ {c} : call'[d] = call[d]
      BY <3>1 DEF TypeOK, CallStages
    <3>3. /\ DOMAIN transactions' = DOMAIN transactions /\ transactions'[L] = u
          /\ \A m \in DOMAIN transactions : m # L => transactions'[m] = transactions[m]
      BY <1>2, <2>1, <2>2, <2>3, OnlyOne
    <3>4. \A m \in DOMAIN transactions : SameBut(transactions[m], transactions[m], {"queue"})
      BY DEF SameBut
    <3> QED
      BY <2>1, <2>3, <3>2, <3>3, <3>4 DEF Queued
  <2> QED
    BY <2>5, <2>6
<1>4. CASE ~again
  <2> DEFINE u == [New EXCEPT !.queue = Append(@, c)]
  <2>1. /\ u \in TransactionType /\ Turns(New, u) /\ u.open /\ AtPrelude(u)
        /\ SameBut(New, u, {"queue"}) /\ Holds(u) \subseteq Holds(New) \cup {c}
    BY NewIs, QueuedIs
  <2>2. /\ ts = Append(transactions, New) /\ ts \in Seq(TransactionType) /\ Len(ts) = L + 1
        /\ ts[L + 1] = New /\ \A m \in 1..L : ts[m] = transactions[m]
    BY <1>2, <1>4, NewIs, AppendProperties
  <2> HIDE DEF ts
  <2>3. transactions' = [ts EXCEPT ![L + 1] = u]
    BY <1>1, <2>2
  <2> HIDE DEF u
  <2>4. /\ transactions' \in Seq(TransactionType) /\ Len(transactions') = L + 1
        /\ \A m \in 1..L + 1 : transactions'[m] = IF m = L + 1 THEN u ELSE ts[m]
    <3>1. L + 1 \in 1..Len(ts) /\ u \in TransactionType /\ ts \in Seq(TransactionType)
      BY <2>1, <2>2
    <3>2. /\ [ts EXCEPT ![L + 1] = u] \in Seq(TransactionType)
          /\ Len([ts EXCEPT ![L + 1] = u]) = Len(ts)
          /\ \A m \in 1..Len(ts) : [ts EXCEPT ![L + 1] = u][m] = IF m = L + 1 THEN u ELSE ts[m]
      BY <3>1, ExceptSeq
    <3> QED
      BY <2>2, <2>3, <3>2
  <2>5. DOMAIN transactions' = 1..L + 1
    BY <2>4, LenProperties
  <2>6. \A m \in 1..L : transactions'[m] = transactions[m]
    BY <1>2, <2>2, <2>4
  <2>7. transactions'[L + 1] = u
    BY <1>2, <2>4
  <2>8. \A m \in 1..L : Fits(transactions[m]) /\ Follows(m)
    BY <1>2 DEF Chain
  <2>9. ASSUME NEW m \in 1..L
        PROVE  Fits(transactions'[m]) /\ Follows(m)'
    <3>1. m \in 1..L /\ m # L + 1 /\ L # 0 /\ \A k \in 1..m - 1 : k \in 1..L
      BY <1>2
    <3>2. ~transactions[m].open
      BY <1>2, <1>4, <2>8 DEF Follows
    <3>3. ~AtPrelude(transactions[m])
      BY <1>1, <2>8, <3>2 DEF Follows, AtPrelude
    <3>4. transactions'[m] = transactions[m] /\ \A k \in 1..m - 1 : transactions'[k] = transactions[k]
      BY <2>6, <3>1
    <3>5. \A k \in 1..m - 1 : transactions[k].stage = "done"
      BY <2>8, <3>3 DEF Follows
    <3>6. transactions[m].queue = <<>> /\ Fits(transactions[m])
      BY <1>1, <2>8, <3>2 DEF Follows
    <3> QED
      BY <3>2, <3>3, <3>4, <3>5, <3>6 DEF Follows
  <2>10. Fits(transactions'[L + 1]) /\ Follows(L + 1)'
    BY <1>2, <2>1, <2>4, <2>7 DEF Turns, Follows
  <2>11. \A m \in 1..L + 1 : m \in 1..L \/ m = L + 1
    BY <1>2
  <2>12. Chain'
    BY <2>5, <2>9, <2>10, <2>11 DEF Chain
  <2>13. Queued(c)
    <3>1. call' = [call EXCEPT ![c] = [is |-> "queued", in |-> L + 1]] /\ L + 1 \in Nat
      BY <1>1, <2>2
    <3>2. /\ call' \in [Calls -> [is : CallStages, in : Nat]] /\ call'[c].is = "queued" /\ call'[c].in = L + 1
          /\ \A d \in Calls \ {c} : call'[d] = call[d]
      BY <3>1 DEF TypeOK, CallStages
    <3>3. \A m \in 1..L + 1 : IF m = L + 1 THEN m \notin 1..L ELSE m \in 1..L
      BY <1>2
    <3>4. L + 1 \in 1..L + 1 /\ 1..L \subseteq 1..L + 1
      BY <1>2
    <3>5. \A m \in DOMAIN transactions : SameBut(transactions[m], transactions[m], {"queue"})
      BY DEF SameBut
    <3> QED
      BY <1>2, <2>1, <2>5, <2>6, <2>7, <3>2, <3>3, <3>4, <3>5 DEF Queued
  <2> QED
    BY <2>4, <2>12, <2>13
<1> QED
  BY <1>3, <1>4

-----------------------------------------------------------------------------
(* The calls and what is saved *)

\* All other transactions are over or have not begun.
Alone(n) ==
  \A m \in DOMAIN transactions \ {n} :
    \/ transactions[m].stage = "done"
    \/ transactions[m].stage = "open" /\ transactions[m].setUp = "loading"

LEMMA AloneIs ==
  ASSUME TypeOK, Chain, ~disposed, NEW n \in DOMAIN transactions,
         ~AtPrelude(transactions[n]), transactions[n].stage # "done"
  PROVE  Alone(n)
<1>1. Len(transactions) \in Nat /\ DOMAIN transactions = 1..Len(transactions)
  BY LenProperties DEF TypeOK
<1>2. SUFFICES ASSUME NEW m \in DOMAIN transactions, m # n, transactions[m].stage # "done"
               PROVE  transactions[m].stage = "open" /\ transactions[m].setUp = "loading"
  BY DEF Alone
<1>3. Fits(transactions[m]) /\ Follows(m) /\ Follows(n)
  BY DEF Chain
<1>4. m > n
  BY <1>1, <1>2, <1>3 DEF Follows
<1>5. AtPrelude(transactions[m])
  BY <1>1, <1>3, <1>4 DEF Follows
<1> QED
  BY <1>3, <1>5 DEF Fits, Follows, AtPrelude

\* What a step of transaction n must see to, lest a value is lost.
Keeps(n, u) ==
  /\ file \subseteq file' /\ file' \subseteq text' /\ unsaved \subseteq unsaved'
  /\ text \subseteq text' \/ Alone(n)
  /\ u.stage = "saving" => u.saves \subseteq text'
  /\ u.setUp = "ready" \/ ~u.status
  /\ \A c \in Calls : call'[c].is = "true" => call[c].is = "true" \/ c \in file' \cup unsaved'
  /\ \A c \in Calls : call'[c].is \in {"setting", "set"} =>
       IF call[c].in = n THEN Kept(c, u, text', file' \cup unsaved') ELSE call[c].is \in {"setting", "set"}

\* No call is called, or moved.
SameCalls ==
  /\ call' \in [Calls -> [is : CallStages, in : Nat]]
  /\ \A c \in Calls : call'[c].in = call[c].in /\ (call'[c].is = "not called" <=> call[c].is = "not called")

LEMMA StepKeeps ==
  ASSUME IInv, NEW n \in DOMAIN transactions, NEW u \in TransactionType,
         transactions' = [transactions EXCEPT ![n] = u],
         Holds(u) \subseteq Holds(transactions[n]), SameCalls,
         disposed' = disposed, disposed \/ Keeps(n, u)
  PROVE  CallsInv' /\ SavedInv'
<1>1. /\ DOMAIN transactions' = DOMAIN transactions
      /\ transactions'[n] = u
      /\ \A m \in DOMAIN transactions : m # n => transactions'[m] = transactions[m]
  BY OnlyOne DEF IInv, TypeOK
<1>2. CallsInv'
  <2>1. \A c \in Calls : /\ call'[c].is = "not called" => call'[c].in = 0
                         /\ call'[c].is # "not called" => call'[c].in \in DOMAIN transactions'
    BY <1>1 DEF IInv, CallsInv, SameCalls
  <2>2. ASSUME NEW m \in DOMAIN transactions, NEW c \in Holds(transactions'[m]) \cap Calls
        PROVE  call'[c].in = m
    <3>1. c \in Holds(transactions[m])
      BY <1>1, <2>2
    <3> QED
      BY <2>2, <3>1 DEF IInv, CallsInv, SameCalls
  <2>3. \A m \in DOMAIN transactions : (Holds(transactions[m]))' = Holds(transactions'[m])
    BY DEF Holds
  <2> QED
    BY <1>1, <2>1, <2>2, <2>3 DEF CallsInv
<1>3. ASSUME ~disposed
      PROVE  SavedInv'
  <2>1. Keeps(n, u) /\ ~disposed'
    BY <1>3
  <2>2. \A m \in DOMAIN transactions' : transactions'[m].stage = "saving" => transactions'[m].saves \subseteq text'
    BY <1>1, <1>3, <2>1 DEF IInv, SavedInv, Keeps, Alone
  <2>3. \A m \in DOMAIN transactions' : transactions'[m].setUp = "ready" \/ ~transactions'[m].status
    BY <1>1, <1>3, <2>1 DEF IInv, SavedInv, Keeps
  <2>4. ASSUME NEW c \in Calls, call'[c].is \in {"setting", "set"}
        PROVE  Kept(c, transactions'[call'[c].in], text', file' \cup unsaved')
    <3>1. call'[c].in = call[c].in
      BY DEF SameCalls
    <3>2. CASE call[c].in = n
      BY <1>1, <2>1, <2>4, <3>1, <3>2 DEF Keeps
    <3>3. CASE call[c].in # n
      <4>1. call[c].is \in {"setting", "set"}
        BY <2>1, <2>4, <3>3 DEF Keeps
      <4>2. call[c].in \in DOMAIN transactions
        BY <4>1 DEF IInv, CallsInv
      <4> DEFINE t == transactions[call[c].in]
      <4>3. transactions'[call'[c].in] = t
        BY <1>1, <3>1, <3>3, <4>2
      <4>4. Kept(c, t, text, file \cup unsaved)
        BY <1>3, <4>1 DEF IInv, SavedInv
      <4>5. Fits(t)
        BY <4>2 DEF IInv, Chain
      <4>6. text \subseteq text' \/ t.stage = "done" \/ (t.stage = "open" /\ t.setUp = "loading")
        BY <2>1, <3>3, <4>2 DEF Keeps, Alone
      <4>7. file \cup unsaved \subseteq file' \cup unsaved'
        BY <2>1 DEF Keeps
      <4> HIDE DEF t
      <4>8. Kept(c, t, text', file' \cup unsaved')
        BY <4>4, <4>5, <4>6, <4>7 DEF Kept, Fits
      <4> QED
        BY <4>3, <4>8
    <3> QED
      BY <3>2, <3>3
  <2>5. \A c \in Calls : call'[c].is = "true" => c \in file' \cup unsaved'
    BY <1>3, <2>1 DEF IInv, SavedInv, Keeps
  <2>6. file' \subseteq text'
    BY <2>1 DEF Keeps
  <2> QED
    BY <2>2, <2>3, <2>4, <2>5, <2>6 DEF SavedInv, Kept
<1> QED
  BY <1>2, <1>3 DEF SavedInv

\* What queues hold after a step.
LEMMA HoldsLess ==
  /\ \A t \in TransactionType : t.queue # <<>> => Holds(Released(t)) \subseteq Holds(t)
  /\ \A t \in TransactionType : text \subseteq Calls => Holds(Concluded(t)) \subseteq Holds(t)
<1>1. ASSUME NEW t \in TransactionType, t.queue # <<>>
      PROVE  Holds(Released(t)) \subseteq Holds(t)
  <2> DEFINE u == Released(t)
  <2>1. u.queue = Tail(t.queue)
    BY <1>1, ReleasedIs
  <2> HIDE DEF u
  <2>2. t.queue \in Seq(Calls \cup {Prelude, Setup})
    BY DEF TransactionType
  <2>3. /\ Len(t.queue) \in Nat \ {0} /\ Len(u.queue) = Len(t.queue) - 1
        /\ \A k \in 1..Len(u.queue) : u.queue[k] = t.queue[k + 1]
    BY <1>1, <2>1, <2>2, TailOf, Zenon
  <2>4. \A k \in 1..Len(u.queue) : k + 1 \in 1..Len(t.queue)
    BY <2>3
  <2> QED
    BY <2>3, <2>4 DEF Holds, u
<1>2. ASSUME NEW t \in TransactionType, text \subseteq Calls
      PROVE  Holds(Concluded(t)) \subseteq Holds(t)
  <2> DEFINE u == Concluded(t)
  <2>1. u.queue = IF t.queue = <<>> THEN <<>> ELSE <<t.queue[1]>>
    BY <1>2, ConcludedIs
  <2> HIDE DEF u
  <2>2. t.queue \in Seq(Calls \cup {Prelude, Setup})
    BY DEF TransactionType
  <2>3. CASE t.queue = <<>>
    BY <2>1, <2>3 DEF Holds, u
  <2>4. CASE t.queue # <<>>
    <3>1. Len(t.queue) \in Nat \ {0}
      BY <2>2, <2>4, EmptySeq, LenProperties
    <3>2. Holds(u) = {t.queue[1]}
      BY <2>1, <2>4 DEF Holds
    <3> QED
      BY <3>1, <3>2 DEF Holds, u
  <2> QED
    BY <2>3, <2>4
<1> QED
  BY <1>1, <1>2

\* Those who wait are rejected.
LEMMA CancelledIs ==
  ASSUME IInv, NEW n \in DOMAIN transactions, CancelCalls(transactions[n])
  PROVE  /\ SameCalls
         /\ \A c \in Calls : call'[c].is \in {call[c].is, "cancelled"}
<1> DEFINE t == transactions[n]
<1>1. t \in TransactionType
  BY ElementOfSeq, LenProperties DEF IInv, TypeOK
<1> DEFINE q == t.queue
<1>2. q \in Seq(Calls \cup {Prelude, Setup})
  BY <1>1 DEF TransactionType
<1>3. Cancelled(t) \subseteq Holds(t) \cap Calls
  <2>1. CASE q = <<>>
    BY <2>1 DEF Cancelled
  <2>2. CASE q # <<>>
    <3>1. Cancelled(t) = {Tail(q)[k] : k \in 1..Len(q) - 1} \cap Calls
      BY <2>2 DEF Cancelled
    <3> HIDE DEF q
    <3>2. /\ Len(q) \in Nat \ {0} /\ Len(Tail(q)) = Len(q) - 1
          /\ \A k \in 1..Len(Tail(q)) : Tail(q)[k] = q[k + 1]
      BY <1>2, <2>2, TailOf, Zenon
    <3>3. \A k \in 1..Len(q) - 1 : k + 1 \in 1..Len(q) /\ Tail(q)[k] = q[k + 1]
      BY <3>2
    <3>4. Holds(t) = {q[k] : k \in 1..Len(q)}
      BY DEF Holds, q
    <3> QED
      BY <3>1, <3>3, <3>4
  <2> QED
    BY <2>1, <2>2
<1>4. \A c \in Cancelled(t) : call[c].is # "not called"
  <2>1. n # 0
    BY LenProperties DEF IInv, TypeOK
  <2> QED
    BY <1>3, <2>1 DEF IInv, CallsInv
<1>5. call' = [c \in Calls |-> IF c \in Cancelled(t) THEN [call[c] EXCEPT !.is = "cancelled"] ELSE call[c]]
  BY DEF CancelCalls
<1>6. \A c \in Calls : call[c] \in [is : CallStages, in : Nat]
  BY DEF IInv, TypeOK
<1> HIDE DEF t
<1>7. \A c \in Calls : [call[c] EXCEPT !.is = "cancelled"] \in [is : CallStages, in : Nat]
  BY <1>6 DEF CallStages
<1> QED
  BY <1>4, <1>5, <1>6, <1>7 DEF SameCalls

LEMMA Unmoved ==
  ASSUME IInv, call' = call
  PROVE  SameCalls
BY DEF IInv, TypeOK, SameCalls

LEMMA PreludeEndsKeeps ==
  ASSUME IInv, NEW n \in DOMAIN transactions, PreludeEnds(n)
  PROVE  SameCalls /\ CallsInv' /\ SavedInv'
<1> DEFINE t == transactions[n]
<1> DEFINE u == Released(t)
<1>1. t \in TransactionType /\ Fits(t) /\ t.queue # <<>> /\ t.queue[1] = Prelude
  BY OwnerIs DEF PreludeEnds, IInv, TypeOK
<1>2. u \in TransactionType /\ SameBut(t, u, {"queue"}) /\ Holds(u) \subseteq Holds(t)
  BY <1>1, ReleasedIs, HoldsLess
<1>3. transactions' = [transactions EXCEPT ![n] = u] /\ UNCHANGED <<call, text, file, disposed, unsaved>>
  BY DEF PreludeEnds
<1>4. SameCalls
  BY <1>3, Unmoved
<1> HIDE DEF u
<1>5. /\ u.open = t.open /\ u.stage = t.stage /\ u.result = t.result /\ u.setUp = t.setUp
      /\ u.reference = t.reference /\ u.saves = t.saves /\ u.status = t.status
  BY <1>2 DEF SameBut
<1>6. ASSUME ~disposed
      PROVE  Keeps(n, u)
  <2>1. \A c \in Calls : Kept(c, t, text, file \cup unsaved) => Kept(c, u, text', file' \cup unsaved')
    BY <1>3, <1>5 DEF Kept
  <2> QED
    BY <1>3, <1>5, <1>6, <2>1 DEF Keeps, IInv, SavedInv
<1> QED
  BY <1>2, <1>3, <1>4, <1>6, StepKeeps

\* Nobody has set a value by an open transaction whose set up has not ended.
LEMMA NotYet ==
  ASSUME IInv, ~disposed, NEW n \in DOMAIN transactions, transactions[n].open, transactions[n].setUp # "ready",
         NEW c \in Calls, call[c].is \in {"setting", "set"}
  PROVE  call[c].in # n
BY DEF IInv, SavedInv, Kept

LEMMA ReferencedKeeps ==
  ASSUME IInv, NEW n \in DOMAIN transactions, Referenced(n)
  PROVE  SameCalls /\ CallsInv' /\ SavedInv'
<1> DEFINE t == transactions[n]
<1>1. /\ t \in TransactionType /\ Fits(t) /\ t.queue # <<>> /\ t.queue[1] = Setup /\ (~disposed => t.open)
      /\ t.setUp = "loading" /\ UNCHANGED <<call, text, file, disposed, unsaved>>
  BY OwnerIs DEF Referenced, SetUp, IInv, TypeOK
<1>2. SameCalls
  BY <1>1, Unmoved
<1>3. ASSUME NEW u \in TransactionType, Holds(u) \subseteq Holds(t), u.open = t.open, u.stage = t.stage, u.saves = t.saves,
             u.setUp = "ready" \/ u.status = t.status, transactions' = [transactions EXCEPT ![n] = u]
      PROVE  CallsInv' /\ SavedInv'
  <2>1. ASSUME ~disposed
        PROVE  Keeps(n, u)
    <3>1. \A c \in Calls : call[c].is \in {"setting", "set"} => call[c].in # n
      BY <1>1, <2>1, NotYet
    <3> QED
      BY <1>1, <1>3, <2>1, <3>1 DEF Keeps, IInv, SavedInv
  <2> QED
    BY <1>1, <1>2, <1>3, <2>1, StepKeeps
<1>4. CASE transactions' = [transactions EXCEPT ![n].reference = TRUE, ![n].setUp = "asking"]
  <2> DEFINE u == [t EXCEPT !.reference = TRUE, !.setUp = "asking"]
  <2>1. u \in TransactionType /\ SameBut(t, u, {"reference", "setUp"})
    BY <1>1 DEF TransactionType, SameBut
  <2>2. transactions' = [transactions EXCEPT ![n] = u]
    BY <1>4
  <2> HIDE DEF u
  <2>3. u.open = t.open /\ u.queue = t.queue /\ u.stage = t.stage /\ u.saves = t.saves /\ u.status = t.status
    BY <2>1 DEF SameBut
  <2> QED
    BY <1>2, <1>3, <2>1, <2>2, <2>3 DEF Holds
<1>5. ASSUME NEW v \in TransactionType, SameBut(t, v, {"reference"}), NEW status \in BOOLEAN,
             transactions' = [transactions EXCEPT ![n] = Ready(v, status)]
      PROVE  CallsInv' /\ SavedInv'
  <2> DEFINE u == Ready(v, status)
  <2>1. v.open = t.open /\ v.queue = t.queue /\ v.stage = t.stage /\ v.saves = t.saves /\ v.setUp = t.setUp /\ v.result = t.result
    BY <1>5 DEF SameBut
  <2>2. Fits(v)
    BY <1>1, <2>1, QueueAssumption DEF Fits, Begins, AtPrelude
  <2>3. u \in TransactionType /\ SameBut(v, u, {"setUp", "status", "queue"}) /\ u.setUp = "ready" /\ u.queue = Tail(v.queue)
    BY <1>1, <1>5, <2>1, <2>2, ReadyTurns
  <2>4. Holds(u) \subseteq Holds(t)
    <3>1. Released(t).queue = Tail(t.queue) /\ Holds(Released(t)) \subseteq Holds(t)
      BY <1>1, ReleasedIs, HoldsLess
    <3> QED
      BY <2>1, <2>3, <3>1 DEF Holds
  <2>5. transactions' = [transactions EXCEPT ![n] = u]
    BY <1>5
  <2> HIDE DEF u
  <2>6. u.open = t.open /\ u.stage = t.stage /\ u.saves = t.saves
    BY <2>1, <2>3 DEF SameBut
  <2> QED
    BY <1>3, <2>3, <2>4, <2>5, <2>6
<1>6. CASE transactions' = [transactions EXCEPT ![n] = Ready([@ EXCEPT !.reference = TRUE], TRUE)]
  <2> DEFINE v == [t EXCEPT !.reference = TRUE]
  <2>1. v \in TransactionType /\ SameBut(t, v, {"reference"})
    BY <1>1 DEF TransactionType, SameBut
  <2>2. transactions' = [transactions EXCEPT ![n] = Ready(v, TRUE)]
    BY <1>6
  <2> HIDE DEF v
  <2> QED
    BY <1>2, <1>5, <2>1, <2>2
<1>7. CASE transactions' = [transactions EXCEPT ![n] = Ready(@, FALSE)]
  <2>1. transactions' = [transactions EXCEPT ![n] = Ready(t, FALSE)] /\ SameBut(t, t, {"reference"})
    BY <1>7 DEF SameBut
  <2> QED
    BY <1>1, <1>2, <1>5, <2>1
<1> QED
  BY <1>2, <1>4, <1>6, <1>7 DEF Referenced

\* What a transaction in set up holds when the set up has ended.
LEMMA ReadyHolds ==
  ASSUME NEW t \in TransactionType, Fits(t), t.queue # <<>>, t.queue[1] = Setup, NEW status \in BOOLEAN
  PROVE  Holds(Ready(t, status)) \subseteq Holds(t)
<1>1. Released(t).queue = Tail(t.queue) /\ Holds(Released(t)) \subseteq Holds(t)
  BY ReleasedIs, HoldsLess
<1>2. Ready(t, status).queue = Tail(t.queue)
  BY ReadyTurns
<1> QED
  BY <1>1, <1>2 DEF Holds

LEMMA SaveAndRetryKeeps ==
  ASSUME IInv, NEW n \in DOMAIN transactions, SaveAndRetry(n)
  PROVE  SameCalls /\ CallsInv' /\ SavedInv'
<1> DEFINE t == transactions[n]
<1> DEFINE u == Ready(t, TRUE)
<1>1. /\ t \in TransactionType /\ Fits(t) /\ t.queue # <<>> /\ t.queue[1] = Setup /\ (~disposed => t.open)
      /\ t.setUp = "asking" /\ UNCHANGED <<call, text, disposed, unsaved>> /\ file' \in {text, file}
  BY OwnerIs DEF SaveAndRetry, SetUp, IInv, TypeOK
<1>2. SameCalls
  BY <1>1, Unmoved
<1>3. u \in TransactionType /\ SameBut(t, u, {"setUp", "status", "queue"}) /\ u.setUp = "ready" /\ Holds(u) \subseteq Holds(t)
  BY <1>1, ReadyTurns, ReadyHolds
<1>4. transactions' = [transactions EXCEPT ![n] = u]
  BY DEF SaveAndRetry
<1> HIDE DEF u
<1>5. u.stage = t.stage
  BY <1>3 DEF SameBut
<1>6. ASSUME ~disposed
      PROVE  Keeps(n, u)
  <2>1. \A c \in Calls : call[c].is \in {"setting", "set"} => call[c].in # n
    BY <1>1, <1>6, NotYet
  <2>2. u.stage = "open"
    BY <1>1, <1>5, <1>6 DEF Fits
  <2> QED
    BY <1>1, <1>3, <1>6, <2>1, <2>2 DEF Keeps, IInv, SavedInv
<1> QED
  BY <1>1, <1>2, <1>3, <1>4, <1>6, StepKeeps

LEMMA SetUpFailsKeeps ==
  ASSUME IInv, NEW n \in DOMAIN transactions, SetUpFails(n)
  PROVE  SameCalls /\ CallsInv' /\ SavedInv'
<1> DEFINE t == transactions[n]
<1> DEFINE v == IF t.open THEN Concluded(t) ELSE t
<1> DEFINE u == Ready(v, FALSE)
<1>1. /\ t \in TransactionType /\ Fits(t) /\ t.queue # <<>> /\ t.queue[1] = Setup /\ (~disposed => t.open)
      /\ t.setUp # "ready" /\ file' = file /\ disposed' = disposed /\ unsaved' = unsaved
      /\ text \subseteq Calls
  BY OwnerIs DEF SetUpFails, SetUp, IInv, TypeOK
<1>2. SameCalls /\ \A c \in Calls : call'[c].is \in {call[c].is, "cancelled"}
  BY CancelledIs, Unmoved DEF SetUpFails
<1>3. /\ v \in TransactionType /\ v.queue # <<>> /\ v.queue[1] = Setup /\ Fits(v) /\ Holds(v) \subseteq Holds(t)
      /\ t.open /\ ~t.status => v.stage # "saving"
  <2>1. CASE t.open
    <3>1. Concluded(t) \in TransactionType /\ Concluded(t).queue = <<t.queue[1]>>
      BY <1>1, ConcludedIs
    <3>2. Fits(Concluded(t)) /\ Holds(Concluded(t)) \subseteq Holds(t)
      BY <1>1, <2>1, ConcludedTurns, HoldsLess DEF Turns
    <3>3. ~t.status => Concluded(t).stage = "done"
      BY <1>1 DEF Concluded, TransactionType
    <3>4. <<Setup>> # <<>> /\ <<Setup>>[1] = Setup
      OBVIOUS
    <3>5. Concluded(t).queue = <<Setup>> /\ v = Concluded(t)
      BY <1>1, <2>1, <3>1
    <3> HIDE DEF v
    <3> QED
      BY <3>1, <3>2, <3>3, <3>4, <3>5
  <2>2. CASE ~t.open
    BY <1>1, <2>2
  <2> QED
    BY <2>1, <2>2
<1>4. transactions' = [transactions EXCEPT ![n] = u]
  BY DEF SetUpFails
<1> HIDE DEF v
<1>5. u \in TransactionType /\ SameBut(v, u, {"setUp", "status", "queue"}) /\ u.setUp = "ready" /\ Holds(u) \subseteq Holds(v)
  BY <1>3, ReadyTurns, ReadyHolds
<1> HIDE DEF u
<1>6. u.stage = v.stage
  BY <1>5 DEF SameBut
<1>7. ASSUME ~disposed
      PROVE  Keeps(n, u)
  <2>1. \A c \in Calls : call[c].is \in {"setting", "set"} => call[c].in # n
    BY <1>1, <1>7, NotYet
  <2>2. u.stage # "saving"
    BY <1>1, <1>3, <1>6, <1>7 DEF IInv, SavedInv
  <2>3. file \subseteq text /\ text' \in {text, file}
    BY <1>7 DEF SetUpFails, Dropped, IInv, SavedInv
  <2>4. ~AtPrelude(t) /\ t.stage # "done"
    BY <1>1, <1>7, QueueAssumption DEF AtPrelude, Fits
  <2>5. Alone(n)
    BY <1>7, <2>4, AloneIs DEF IInv
  <2> QED
    BY <1>1, <1>2, <1>5, <2>1, <2>2, <2>3, <2>5 DEF Keeps, SameCalls
<1> QED
  BY <1>1, <1>2, <1>3, <1>4, <1>5, <1>7, StepKeeps

\* A call that owns a queue is one of the transaction's, and sets its value.
LEMMA ActKeeps ==
  ASSUME IInv, NEW c \in Calls, Act(c)
  PROVE  SameCalls /\ CallsInv' /\ SavedInv'
<1>1. PICK n \in DOMAIN transactions :
        /\ c \in Owner(n)
        /\ transactions' = [transactions EXCEPT
             ![n] = Released([transactions[n] EXCEPT !.done = IF @ = "not in use" THEN "waiting" ELSE @])]
        /\ IF transactions[n].reference
             THEN text' = text \cup {c} /\ call' = [call EXCEPT ![c].is = "setting"]
             ELSE call' = [call EXCEPT ![c].is = "false"] /\ UNCHANGED text
        /\ file' = file /\ disposed' = disposed /\ unsaved' = unsaved
  BY DEF Act
<1> DEFINE t == transactions[n]
<1> DEFINE v == [t EXCEPT !.done = IF @ = "not in use" THEN "waiting" ELSE @]
<1> DEFINE u == Released(v)
<1>2. t \in TransactionType /\ Fits(t) /\ t.queue # <<>> /\ t.queue[1] = c /\ (~disposed => t.open)
  BY <1>1, OwnerIs DEF IInv, TypeOK
<1>3. t.open => t.setUp = "ready"
  BY <1>2, QueueAssumption DEF Fits, Begins
<1>4. v \in TransactionType /\ SameBut(t, v, {})
  BY <1>2 DEF TransactionType, SameBut
<1>5. transactions' = [transactions EXCEPT ![n] = u]
  BY <1>1
<1> HIDE DEF v
<1>6. v.queue = t.queue
  BY <1>4 DEF SameBut
<1>7. u \in TransactionType /\ SameBut(v, u, {"queue"}) /\ Holds(u) \subseteq Holds(v)
  BY <1>2, <1>4, <1>6, ReleasedIs, HoldsLess
<1> HIDE DEF u
<1>8. /\ u.open = t.open /\ u.stage = t.stage /\ u.result = t.result /\ u.setUp = t.setUp
      /\ u.reference = t.reference /\ u.saves = t.saves /\ u.status = t.status
  BY <1>4, <1>7 DEF SameBut
<1>9. call[c].in = n /\ call[c].is # "not called"
  <2>0. n # 0
    BY LenProperties DEF IInv, TypeOK
  <2>1. Len(t.queue) \in Nat \ {0} /\ n # 0
    BY <1>2, <2>0, EmptySeq, LenProperties DEF TransactionType
  <2>2. c \in Holds(t) \cap Calls
    BY <1>2, <2>1 DEF Holds
  <2> QED
    BY <2>1, <2>2 DEF IInv, CallsInv
<1>10. SameCalls
  <2>1. \A d \in Calls : call[d] \in [is : CallStages, in : Nat]
    BY DEF IInv, TypeOK
  <2>2. PICK is \in {"setting", "false"} : call' = [call EXCEPT ![c].is = is]
    BY <1>1
  <2> QED
    BY <1>9, <2>1, <2>2 DEF SameCalls, IInv, TypeOK, CallStages
<1>11. ASSUME ~disposed
       PROVE  Keeps(n, u)
  <2>1. t.open /\ t.stage = "open" /\ t.setUp = "ready" /\ t.result = "none"
    BY <1>2, <1>3, <1>11 DEF Fits, TransactionType
  <2>2. call \in [Calls -> [is : CallStages, in : Nat]]
    BY DEF IInv, TypeOK
  <2>3. ASSUME NEW d \in Calls, call'[d].is \in {"setting", "set"}
        PROVE  IF call[d].in = n THEN Kept(d, u, text', file' \cup unsaved') ELSE call[d].is \in {"setting", "set"}
    <3>1. CASE d = c
      <4>1. t.reference /\ c \in text'
        BY <1>1, <2>2, <2>3, <3>1
      <4> QED
        BY <1>8, <1>9, <2>1, <3>1, <4>1 DEF Kept
    <3>2. CASE d # c
      <4>1. call[d].is \in {"setting", "set"}
        BY <1>1, <2>2, <2>3, <3>2
      <4>2. Kept(d, transactions[call[d].in], text, file \cup unsaved)
        BY <1>11, <4>1 DEF IInv, SavedInv
      <4>3. text \subseteq text' /\ file' = file /\ unsaved' = unsaved
        BY <1>1
      <4> QED
        BY <1>8, <4>1, <4>2, <4>3 DEF Kept
    <3> QED
      BY <3>1, <3>2
  <2>4. \A d \in Calls : call'[d].is = "true" => call[d].is = "true"
    BY <1>1, <2>2
  <2>5. file \subseteq text /\ text \subseteq text' /\ file' = file /\ unsaved' = unsaved
    BY <1>1, <1>11 DEF IInv, SavedInv
  <2> QED
    BY <1>8, <2>1, <2>3, <2>4, <2>5 DEF Keeps
<1>12. Holds(u) \subseteq Holds(t)
  BY <1>6, <1>7 DEF Holds
<1> QED
  BY <1>1, <1>5, <1>7, <1>10, <1>11, <1>12, StepKeeps

LEMMA DoneKeeps ==
  ASSUME IInv, NEW n \in DOMAIN transactions, Done(n)
  PROVE  SameCalls /\ CallsInv' /\ SavedInv'
<1> DEFINE t == transactions[n]
<1> DEFINE v == [t EXCEPT !.done = "waiting"]
<1>1. t \in TransactionType /\ UNCHANGED <<text, file, disposed, unsaved>> /\ text \subseteq Calls
  BY LenProperties, ElementOfSeq DEF IInv, TypeOK, Done
<1>2. v \in TransactionType /\ SameBut(t, v, {})
  BY <1>1 DEF TransactionType, SameBut
<1>3. \/ v.queue = <<>> /\ transactions' = [transactions EXCEPT ![n] = Concluded(v)] /\ CancelCalls(v) /\ v.open
      \/ transactions' = [transactions EXCEPT ![n] = v] /\ call' = call
  BY DEF Done
<1> HIDE DEF v
<1>4. /\ v.open = t.open /\ v.stage = t.stage /\ v.result = t.result /\ v.setUp = t.setUp /\ v.queue = t.queue
      /\ v.reference = t.reference /\ v.saves = t.saves /\ v.status = t.status
  BY <1>2 DEF SameBut
<1>5. SameCalls /\ \A c \in Calls : call'[c].is \in {call[c].is, "cancelled"}
  <2>1. CancelCalls(v) => CancelCalls(t)
    BY <1>4 DEF CancelCalls, Cancelled
  <2> QED
    BY <1>3, <2>1, CancelledIs, Unmoved
<1>6. ASSUME NEW u \in TransactionType, Holds(u) \subseteq Holds(t), transactions' = [transactions EXCEPT ![n] = u],
             u.setUp = t.setUp, u.status = t.status,
             ~disposed /\ u.stage = "saving" => u.saves \subseteq text,
             \A c \in Calls : Kept(c, t, text, file \cup unsaved) => Kept(c, u, text, file \cup unsaved)
      PROVE  CallsInv' /\ SavedInv'
  <2>1. ASSUME ~disposed
        PROVE  Keeps(n, u)
    <3>1. \A c \in Calls : call[c].is \in {"setting", "set"} => Kept(c, transactions[call[c].in], text, file \cup unsaved)
      BY <2>1 DEF IInv, SavedInv
    <3>2. \A c \in Calls : call'[c].is \in {"setting", "set", "true"} => call'[c].is = call[c].is
      BY <1>5
    <3>3. \A c \in Calls : call'[c].is \in {"setting", "set"} =>
            IF call[c].in = n THEN Kept(c, u, text', file' \cup unsaved') ELSE call[c].is \in {"setting", "set"}
      BY <1>1, <1>6, <3>1, <3>2
    <3>4. u.setUp = "ready" \/ ~u.status
      BY <1>6, <2>1 DEF IInv, SavedInv
    <3> QED
      BY <1>1, <1>6, <2>1, <3>2, <3>3, <3>4 DEF Keeps, IInv, SavedInv
  <2> QED
    BY <1>1, <1>5, <1>6, <2>1, StepKeeps
<1>7. CASE transactions' = [transactions EXCEPT ![n] = v]
  <2>1. \A c \in Calls : Kept(c, t, text, file \cup unsaved) => Kept(c, v, text, file \cup unsaved)
    BY <1>4 DEF Kept
  <2>2. ~disposed /\ v.stage = "saving" => v.saves \subseteq text
    BY <1>4 DEF IInv, SavedInv
  <2> QED
    BY <1>2, <1>4, <1>5, <1>6, <1>7, <2>1, <2>2 DEF Holds
<1>8. CASE v.open /\ transactions' = [transactions EXCEPT ![n] = Concluded(v)]
  <2> DEFINE u == Concluded(v)
  <2>1. /\ u \in TransactionType /\ Holds(u) \subseteq Holds(v)
        /\ SameBut(v, u, {"open", "queue", "reference", "saves", "stage", "result"})
        /\ ~u.open /\ u.saves = text
        /\ \/ u.stage = "saving" /\ u.result = "none"
           \/ u.stage = "done" /\ u.result = "false"
    BY <1>1, <1>2, ConcludedIs, HoldsLess
  <2>2. transactions' = [transactions EXCEPT ![n] = u]
    BY <1>8
  <2> HIDE DEF u
  <2>3. u.setUp = t.setUp /\ u.status = t.status
    BY <1>4, <2>1 DEF SameBut
  <2>4. t.open /\ t.stage = "open"
    BY <1>4, <1>8 DEF IInv, Chain, Fits
  <2>5. \A c \in Calls : Kept(c, t, text, file \cup unsaved) => Kept(c, u, text, file \cup unsaved)
    BY <2>1, <2>4 DEF Kept
  <2>6. Holds(u) \subseteq Holds(t)
    BY <1>4, <2>1 DEF Holds
  <2> QED
    BY <1>5, <1>6, <2>1, <2>2, <2>3, <2>5, <2>6
<1> QED
  BY <1>3, <1>5, <1>7, <1>8

LEMMA SaveEndsKeeps ==
  ASSUME IInv, NEW n \in DOMAIN transactions, SaveEnds(n)
  PROVE  SameCalls /\ CallsInv' /\ SavedInv'
<1> DEFINE t == transactions[n]
<1>1. /\ t \in TransactionType /\ t.stage = "saving" /\ call' = call /\ disposed' = disposed
      /\ ~t.open /\ (~disposed => t.queue = <<>>)
  BY LenProperties, ElementOfSeq DEF IInv, TypeOK, SaveEnds, Chain, Fits, Follows
<1>2. SameCalls
  BY <1>1, Unmoved
<1>3. ~disposed => Alone(n) /\ file \subseteq text /\ t.saves \subseteq text
  <2>1. ~disposed => ~AtPrelude(t) /\ t.stage # "done"
    BY <1>1 DEF AtPrelude
  <2> QED
    BY <1>1, <2>1, AloneIs DEF IInv, SavedInv
<1>4. ASSUME NEW u \in TransactionType, SameBut(t, u, {"stage", "reference", "result"}), u.stage \in {"concluding", "done"},
             transactions' = [transactions EXCEPT ![n] = u],
             file \subseteq file', unsaved \subseteq unsaved', ~disposed => file' \subseteq text',
             u.stage = "concluding" => t.saves \subseteq file' \cup unsaved' /\ u.result = "none",
             u.stage = "done" => u.result = "false"
      PROVE  CallsInv' /\ SavedInv'
  <2>1. u.open = t.open /\ u.queue = t.queue /\ u.setUp = t.setUp /\ u.status = t.status
    BY <1>4 DEF SameBut
  <2>2. ASSUME ~disposed
        PROVE  Keeps(n, u)
    <3>1. \A c \in Calls : Kept(c, t, text, file \cup unsaved) => Kept(c, u, text', file' \cup unsaved')
      BY <1>1, <1>4, <2>1 DEF Kept
    <3>2. \A c \in Calls : call[c].is \in {"setting", "set"} => Kept(c, transactions[call[c].in], text, file \cup unsaved)
      BY <2>2 DEF IInv, SavedInv
    <3>3. u.setUp = "ready" \/ ~u.status
      BY <2>1, <2>2 DEF IInv, SavedInv
    <3> QED
      BY <1>1, <1>3, <1>4, <2>2, <3>1, <3>2, <3>3 DEF Keeps
  <2>3. Holds(u) \subseteq Holds(t)
    BY <2>1 DEF Holds
  <2> QED
    BY <1>1, <1>2, <1>4, <2>2, <2>3, StepKeeps
<1>5. CASE /\ transactions' = [transactions EXCEPT ![n].stage = "concluding", ![n].reference = FALSE]
           /\ \/ file' = file \cup t.saves /\ text' \in {text, file'} /\ unsaved' = unsaved
              \/ Dropped /\ unsaved' = unsaved \cup t.saves /\ file' = file
  <2> DEFINE u == [t EXCEPT !.stage = "concluding", !.reference = FALSE]
  <2>1. u \in TransactionType /\ SameBut(t, u, {"stage", "reference", "result"}) /\ u.stage = "concluding" /\ u.result = t.result
    BY <1>1 DEF TransactionType, SameBut
  <2>2. t.result = "none"
    BY <1>1 DEF IInv, Chain, Fits, TransactionType
  <2>3. transactions' = [transactions EXCEPT ![n] = u]
    BY <1>5
  <2> HIDE DEF u
  <2>4. /\ file \subseteq file' /\ unsaved \subseteq unsaved' /\ (~disposed => file' \subseteq text')
        /\ t.saves \subseteq file' \cup unsaved'
    BY <1>3, <1>5 DEF Dropped
  <2> QED
    BY <1>2, <1>4, <1>5, <2>1, <2>2, <2>3, <2>4
<1>6. CASE /\ transactions' = [transactions EXCEPT ![n].stage = "done", ![n].reference = FALSE, ![n].result = "false"]
           /\ Dropped
           /\ file' = file /\ unsaved' = unsaved
  <2> DEFINE u == [t EXCEPT !.stage = "done", !.reference = FALSE, !.result = "false"]
  <2>1. u \in TransactionType /\ SameBut(t, u, {"stage", "reference", "result"}) /\ u.stage = "done" /\ u.result = "false"
    BY <1>1 DEF TransactionType, SameBut
  <2>2. transactions' = [transactions EXCEPT ![n] = u]
    BY <1>6
  <2> HIDE DEF u
  <2>3. file \subseteq file' /\ (~disposed => file' \subseteq text')
    BY <1>3, <1>6 DEF Dropped
  <2> QED
    BY <1>2, <1>4, <1>6, <2>1, <2>2, <2>3
<1> QED
  BY <1>5, <1>6 DEF SaveEnds

LEMMA ConcludeEndsKeeps ==
  ASSUME IInv, NEW n \in DOMAIN transactions, ConcludeEnds(n)
  PROVE  SameCalls /\ CallsInv' /\ SavedInv'
<1> DEFINE t == transactions[n]
<1> DEFINE u == [t EXCEPT !.stage = "done", !.result = "true"]
<1>1. /\ t \in TransactionType /\ t.stage = "concluding" /\ UNCHANGED <<call, text, file, disposed, unsaved>>
      /\ transactions' = [transactions EXCEPT ![n] = u]
  BY LenProperties, ElementOfSeq DEF IInv, TypeOK, ConcludeEnds
<1>2. SameCalls
  BY <1>1, Unmoved
<1>3. u \in TransactionType /\ SameBut(t, u, {"stage", "result"}) /\ u.stage = "done" /\ u.result = "true"
  BY <1>1 DEF TransactionType, SameBut
<1> HIDE DEF u
<1>4. u.open = t.open /\ u.queue = t.queue /\ u.setUp = t.setUp /\ u.status = t.status /\ u.reference = t.reference
  BY <1>3 DEF SameBut
<1>5. ASSUME ~disposed
      PROVE  Keeps(n, u)
  <2>1. \A c \in Calls : Kept(c, t, text, file \cup unsaved) => Kept(c, u, text', file' \cup unsaved')
    BY <1>1, <1>3, <1>4 DEF Kept
  <2>2. u.setUp = "ready" \/ ~u.status
    BY <1>4, <1>5 DEF IInv, SavedInv
  <2> QED
    BY <1>1, <1>3, <1>5, <2>1, <2>2 DEF Keeps, IInv, SavedInv
<1>6. Holds(u) \subseteq Holds(t)
  BY <1>4 DEF Holds
<1> QED
  BY <1>1, <1>2, <1>3, <1>5, <1>6, StepKeeps

\* The transactions stay.
LEMMA CallKeeps ==
  ASSUME IInv, NEW c \in Calls, ValueSet(c) \/ ResultKnown(c)
  PROVE  SameCalls /\ CallsInv' /\ SavedInv'
<1>1. UNCHANGED <<transactions, text, disposed, unsaved>> /\ call[c].is \in {"setting", "set"}
  BY DEF ValueSet, ResultKnown
<1> DEFINE n == call[c].in
<1> DEFINE t == transactions[n]
<1>2. n \in DOMAIN transactions
  BY <1>1 DEF IInv, CallsInv
<1>3. t \in TransactionType
  BY <1>2, LenProperties, ElementOfSeq DEF IInv, TypeOK
<1>4. call \in [Calls -> [is : CallStages, in : Nat]]
  BY DEF IInv, TypeOK
<1>5. PICK is \in {"set", "true", "false"} :
        /\ call' = [call EXCEPT ![c].is = is]
        /\ is = "set" => call[c].is = "setting" /\ file' \in {file, file \cup text}
        /\ is # "set" => file' = file
        /\ is = "true" => t.result = "true"
  <2>1. t.result \in {"none", "true", "false"}
    BY <1>3 DEF TransactionType
  <2> QED
    BY <2>1 DEF ValueSet, ResultKnown
<1>6. SameCalls
  BY <1>1, <1>4, <1>5 DEF SameCalls, CallStages
<1>7. ASSUME ~disposed
      PROVE  Keeps(n, t)
  <2>1. \A d \in Calls : call[d].is \in {"setting", "set"} => Kept(d, transactions[call[d].in], text, file \cup unsaved)
    BY <1>7 DEF IInv, SavedInv
  <2>2. file \subseteq text
    BY <1>7 DEF IInv, SavedInv
  <2>3. file \subseteq file' /\ file' \subseteq text' /\ text' = text /\ unsaved' = unsaved
    BY <1>1, <1>5, <2>2
  <2>4. \A d \in Calls : call'[d].is \in {"setting", "set"} => call[d].is \in {"setting", "set"}
    BY <1>1, <1>4, <1>5
  <2>5. \A d \in Calls : call'[d].is \in {"setting", "set"} =>
          IF call[d].in = n THEN Kept(d, t, text', file' \cup unsaved') ELSE call[d].is \in {"setting", "set"}
    BY <2>1, <2>3, <2>4 DEF Kept
  <2>6. \A d \in Calls : call'[d].is = "true" => call[d].is = "true" \/ d \in file' \cup unsaved'
    <3>1. t.result = "true" => c \in file \cup unsaved
      BY <1>1, <2>1 DEF Kept
    <3> QED
      BY <1>4, <1>5, <2>3, <3>1
  <2>7. (t.stage = "saving" => t.saves \subseteq text) /\ (t.setUp = "ready" \/ ~t.status)
    BY <1>2, <1>7 DEF IInv, SavedInv
  <2> QED
    BY <2>3, <2>5, <2>6, <2>7 DEF Keeps
<1>8. transactions' = [transactions EXCEPT ![n] = t]
  BY <1>1, <1>2 DEF IInv, TypeOK
<1>9. PICK m \in DOMAIN transactions : m = n
  BY <1>2
<1>10. PICK u \in TransactionType : u = t
  BY <1>3
<1> HIDE DEF n, t
<1>11. Holds(u) \subseteq Holds(transactions[m])
  BY <1>9, <1>10 DEF n, t
<1> QED
  BY <1>1, <1>6, <1>7, <1>8, <1>9, <1>10, <1>11, StepKeeps

LEMMA SetPreferenceKeeps ==
  ASSUME IInv, NEW c \in Calls, SetPreference(c)
  PROVE  CallsInv' /\ SavedInv'
<1>1. Queued(c) /\ UNCHANGED <<text, file, disposed, unsaved>> /\ call[c].is = "not called"
  BY SetPreferenceChain DEF IInv, SetPreference
<1>2. \A d \in Calls : d # c => call'[d] = call[d]
  BY <1>1 DEF Queued
<1>3. \A d \in Calls : d # c /\ call[d].is # "not called" => call[d].in \in DOMAIN transactions
  BY DEF IInv, CallsInv
<1>4. CallsInv'
  <2>1. ASSUME NEW d \in Calls
        PROVE  /\ call'[d].is = "not called" => call'[d].in = 0
               /\ call'[d].is # "not called" => call'[d].in \in DOMAIN transactions'
    <3>1. DOMAIN transactions \subseteq DOMAIN transactions' /\ call'[c].is = "queued" /\ call'[c].in \in DOMAIN transactions'
      BY <1>1 DEF Queued
    <3>2. d # c /\ call[d].is = "not called" => call[d].in = 0
      BY DEF IInv, CallsInv
    <3> QED
      BY <1>2, <1>3, <3>1, <3>2
  <2>2. ASSUME NEW m \in DOMAIN transactions', NEW d \in Holds(transactions'[m]) \cap Calls
        PROVE  call'[d].in = m
    <3>1. CASE d = c /\ m = call'[c].in
      BY <3>1
    <3>2. CASE ~(d = c /\ m = call'[c].in)
      <4>1. d \in Holds(IF m \in DOMAIN transactions THEN transactions[m] ELSE New)
        BY <1>1, <2>2, <3>2 DEF Queued
      <4>2. d \notin Holds(New)
        BY NewIs, QueueAssumption
      <4>3. m \in DOMAIN transactions /\ d \in Holds(transactions[m]) \cap Calls
        BY <4>1, <4>2
      <4>4. call[d].in = m /\ m # 0
        <5>1. m # 0
          BY <4>3, LenProperties DEF IInv, TypeOK
        <5> QED
          BY <4>3, <5>1 DEF IInv, CallsInv
      <4>5. d # c
        BY <1>1, <4>4 DEF IInv, CallsInv
      <4> QED
        BY <1>2, <4>4, <4>5
    <3> QED
      BY <3>1, <3>2
  <2>3. \A m \in DOMAIN transactions' : (Holds(transactions[m]))' = Holds(transactions'[m])
    BY DEF Holds
  <2> QED
    BY <2>1, <2>2, <2>3 DEF CallsInv
<1>5. ASSUME ~disposed
      PROVE  SavedInv'
  <2>1. \A m \in DOMAIN transactions :
          /\ transactions'[m].open = transactions[m].open /\ transactions'[m].stage = transactions[m].stage
          /\ transactions'[m].setUp = transactions[m].setUp /\ transactions'[m].status = transactions[m].status
          /\ transactions'[m].reference = transactions[m].reference /\ transactions'[m].saves = transactions[m].saves
          /\ transactions'[m].result = transactions[m].result
    BY <1>1 DEF Queued, SameBut
  <2>2. \A m \in DOMAIN transactions' : m \notin DOMAIN transactions =>
          transactions'[m].stage = "open" /\ ~transactions'[m].status
    BY <1>1, NewIs DEF Queued, SameBut
  <2>3. \A m \in DOMAIN transactions' :
          /\ transactions'[m].stage = "saving" => transactions'[m].saves \subseteq text'
          /\ transactions'[m].setUp = "ready" \/ ~transactions'[m].status
    BY <1>1, <1>5, <2>1, <2>2 DEF IInv, SavedInv
  <2>4. ASSUME NEW d \in Calls, call'[d].is \in {"setting", "set"}
        PROVE  Kept(d, transactions'[call'[d].in], text', file' \cup unsaved')
    <3>1. d # c
      BY <1>1, <2>4 DEF Queued
    <3>2. call[d].is \in {"setting", "set"} /\ call'[d] = call[d]
      BY <1>2, <2>4, <3>1
    <3>3. call[d].in \in DOMAIN transactions /\ Kept(d, transactions[call[d].in], text, file \cup unsaved)
      BY <1>3, <1>5, <3>1, <3>2 DEF IInv, SavedInv
    <3> QED
      BY <1>1, <2>1, <3>2, <3>3 DEF Kept
  <2>5. \A d \in Calls : call'[d].is = "true" => d \in file' \cup unsaved'
    BY <1>1, <1>2, <1>5 DEF Queued, IInv, SavedInv
  <2>6. file' \subseteq text'
    BY <1>1, <1>5 DEF IInv, SavedInv
  <2> QED
    BY <2>3, <2>4, <2>5, <2>6 DEF SavedInv, Kept
<1> QED
  BY <1>1, <1>4, <1>5 DEF SavedInv

LEMMA DisposeKeeps ==
  ASSUME IInv, Dispose
  PROVE  SameCalls /\ CallsInv' /\ SavedInv'
<1>1. SavedInv'
  BY DEF Dispose, SavedInv
<1>2. CASE UNCHANGED <<transactions, call>>
  <2>1. SameCalls
    BY <1>2, Unmoved
  <2>2. CallsInv'
    <3>1. \A m \in DOMAIN transactions : (Holds(transactions[m]))' = Holds(transactions'[m])
      BY DEF Holds
    <3> QED
      BY <1>2, <3>1 DEF IInv, CallsInv
  <2> QED
    BY <1>1, <2>1, <2>2
<1>3. ASSUME NEW n \in DOMAIN transactions, transactions' = [transactions EXCEPT ![n] = Concluded(@)],
             CancelCalls(transactions[n])
      PROVE  SameCalls /\ CallsInv' /\ SavedInv'
  <2> DEFINE u == Concluded(transactions[n])
  <2>1. SameCalls
    BY <1>3, CancelledIs
  <2>2. transactions[n] \in TransactionType /\ text \subseteq Calls
    BY LenProperties, ElementOfSeq DEF IInv, TypeOK
  <2>3. u \in TransactionType /\ Holds(u) \subseteq Holds(transactions[n])
    BY <2>2, ConcludedIs, HoldsLess
  <2>4. transactions' = [transactions EXCEPT ![n] = u]
    BY <1>3
  <2> HIDE DEF u
  <2>5. /\ DOMAIN transactions' = DOMAIN transactions /\ transactions'[n] = u
        /\ \A m \in DOMAIN transactions : m # n => transactions'[m] = transactions[m]
    BY <2>3, <2>4, OnlyOne DEF IInv, TypeOK
  <2>6. \A m \in DOMAIN transactions : (Holds(transactions[m]))' = Holds(transactions'[m])
    BY DEF Holds
  <2>7. \A m \in DOMAIN transactions : Holds(transactions'[m]) \subseteq Holds(transactions[m])
    BY <2>3, <2>5
  <2>8. CallsInv'
    BY <2>1, <2>5, <2>6, <2>7 DEF IInv, CallsInv, SameCalls
  <2> QED
    BY <1>1, <2>1, <2>8
<1> QED
  BY <1>2, <1>3 DEF Dispose

-----------------------------------------------------------------------------
(* The invariant is inductive *)

LEMMA InitIInv == Init => IInv
<1> SUFFICES ASSUME Init
             PROVE  IInv
  OBVIOUS
<1>1. TypeOK
  BY EmptySeq DEF Init, TypeOK, CallStages
<1>2. DOMAIN transactions = {}
  <2>1. Len(transactions) = 0 /\ DOMAIN transactions = 1..Len(transactions)
    BY <1>1, EmptySeq, LenProperties DEF Init, TypeOK
  <2> QED
    BY <2>1
<1> QED
  BY <1>1, <1>2 DEF Init, IInv, Chain, CallsInv, SavedInv

LEMMA NextIInv == IInv /\ [Next]_vars => IInv'
<1> SUFFICES ASSUME IInv, [Next]_vars
             PROVE  IInv'
  OBVIOUS
<1> USE DEF IInv
<1>1. CASE Dispose
  <2>1. text' \subseteq Calls /\ file' \subseteq Calls /\ disposed' \in BOOLEAN /\ unsaved' \subseteq Calls
    BY <1>1 DEF Dispose, Dropped, TypeOK
  <2> QED
    BY <1>1, <2>1, DisposeChain, DisposeKeeps DEF TypeOK, SameCalls
<1>2. ASSUME NEW n \in DOMAIN transactions, GoesOn(n)
      PROVE  IInv'
  <2> DEFINE Rest == text' \subseteq Calls /\ file' \subseteq Calls /\ disposed' \in BOOLEAN /\ unsaved' \subseteq Calls
  <2>1. CASE PreludeEnds(n)
    <3>1. Rest
      BY <2>1 DEF PreludeEnds, TypeOK
    <3> QED
      BY <2>1, <3>1, PreludeEndsChain, PreludeEndsKeeps DEF TypeOK, SameCalls
  <2>2. CASE Referenced(n)
    <3>1. Rest
      BY <2>2 DEF Referenced, TypeOK
    <3> QED
      BY <2>2, <3>1, ReferencedChain, ReferencedKeeps DEF TypeOK, SameCalls
  <2>3. CASE SetUpFails(n)
    <3>1. Rest
      BY <2>3 DEF SetUpFails, Dropped, TypeOK
    <3> QED
      BY <2>3, <3>1, SetUpFailsChain, SetUpFailsKeeps DEF TypeOK, SameCalls
  <2>4. CASE SaveAndRetry(n)
    <3>1. Rest
      BY <2>4 DEF SaveAndRetry, TypeOK
    <3> QED
      BY <2>4, <3>1, SaveAndRetryChain, SaveAndRetryKeeps DEF TypeOK, SameCalls
  <2>5. CASE Done(n)
    <3>1. Rest
      BY <2>5 DEF Done, TypeOK
    <3> QED
      BY <2>5, <3>1, DoneChain, DoneKeeps DEF TypeOK, SameCalls
  <2>6. CASE SaveEnds(n)
    <3>1. transactions[n] \in TransactionType
      BY LenProperties, ElementOfSeq DEF TypeOK
    <3>2. transactions[n].saves \subseteq Calls
      BY <3>1 DEF TransactionType
    <3>3. Rest
      BY <2>6, <3>2 DEF SaveEnds, Dropped, TypeOK
    <3> QED
      BY <2>6, <3>3, SavingChain, SaveEndsKeeps DEF TypeOK, SameCalls
  <2>7. CASE ConcludeEnds(n)
    <3>1. Rest
      BY <2>7 DEF ConcludeEnds, TypeOK
    <3> QED
      BY <2>7, <3>1, SavingChain, ConcludeEndsKeeps DEF TypeOK, SameCalls
  <2> QED
    BY <1>2, <2>1, <2>2, <2>3, <2>4, <2>5, <2>6, <2>7 DEF GoesOn
<1>3. ASSUME NEW c \in Calls, SetPreference(c) \/ Act(c) \/ ValueSet(c) \/ ResultKnown(c)
      PROVE  IInv'
  <2> DEFINE Rest == text' \subseteq Calls /\ file' \subseteq Calls /\ disposed' \in BOOLEAN /\ unsaved' \subseteq Calls
  <2>1. CASE SetPreference(c)
    <3>1. Rest
      BY <2>1 DEF SetPreference, TypeOK
    <3> QED
      BY <2>1, <3>1, SetPreferenceChain, SetPreferenceKeeps DEF Queued, TypeOK
  <2>2. CASE Act(c)
    <3>1. Rest
      BY <2>2 DEF Act, TypeOK
    <3> QED
      BY <2>2, <3>1, ActChain, ActKeeps DEF TypeOK, SameCalls
  <2>3. CASE ValueSet(c) \/ ResultKnown(c)
    <3>1. Rest /\ transactions' = transactions /\ disposed' = disposed
      BY <2>3 DEF ValueSet, ResultKnown, TypeOK
    <3>2. transactions' \in Seq(TransactionType) /\ Chain'
      BY <3>1 DEF TypeOK, Chain, Follows
    <3> QED
      BY <2>3, <3>1, <3>2, CallKeeps DEF TypeOK, SameCalls
  <2> QED
    BY <1>3, <2>1, <2>2, <2>3
<1>4. CASE UNCHANGED vars
  <2>1. TypeOK' /\ Chain'
    BY <1>4 DEF vars, TypeOK, Chain, Follows
  <2>2. CallsInv'
    <3>1. \A m \in DOMAIN transactions : (Holds(transactions[m]))' = Holds(transactions'[m])
      BY DEF Holds
    <3> QED
      BY <1>4, <3>1 DEF vars, CallsInv
  <2>3. SavedInv'
    BY <1>4 DEF vars, SavedInv, Kept
  <2> QED
    BY <2>1, <2>2, <2>3
<1> QED
  BY <1>1, <1>2, <1>3, <1>4 DEF Next

-----------------------------------------------------------------------------
(* The theorems *)

\* While a transaction refers to the document all those before it are over.
THEOREM OneTransactionAtATimeAlways == Spec => []OneTransactionAtATime
<1>1. IInv => OneTransactionAtATime
  BY DEF IInv, Chain, Fits, Follows, OneTransactionAtATime
<1> QED
  BY <1>1, InitIInv, NextIInv, PTL DEF Spec

\* A preference that was answered with true is in the file, unless the save its transaction
\* ended with returned without having written, until the provider is disposed.
THEOREM TrueIsSavedAlways == Spec => []TrueIsSaved
<1>1. IInv => TrueIsSaved
  BY DEF IInv, SavedInv, TrueIsSaved
<1> QED
  BY <1>1, InitIInv, NextIInv, PTL DEF Spec
=============================================================================
