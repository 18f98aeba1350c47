------------------------ MODULE PreferenceTransaction ------------------------
(***************************************************************************)
(* Setting preferences of one provider: the transactions of                *)
(* packages/preferences/src/browser/preference-transaction-manager.ts, and *)
(* the provider that makes them (abstract-resource-preference-provider.ts).*)
(*                                                                         *)
(* A transaction's queue is a mutex: its owner, then those who wait for it.*)
(* The mutex and the document of the settings file are external.  The      *)
(* document is the set of the calls whose value it holds; an edit is made  *)
(* at once, saves of it end in the order they began, and without a         *)
(* reference it may lose what was not saved.  A save writes, throws, or    *)
(* returns without having written, when it is superseded or its failure    *)
(* is only shown to the user: the transaction cannot tell the difference.  *)
(***************************************************************************)
EXTENDS Naturals, Sequences, FiniteSets

CONSTANTS Calls,         \* calls of setPreference
          Prelude, Setup \* what the queue of a transaction begins with

ASSUME QueueAssumption == Prelude \notin Calls /\ Setup \notin Calls /\ Prelude # Setup

VARIABLES
  transactions, \* sequence of the transactions, the last is the provider's
  call,         \* per call: its stage or answer, and its transaction
  text, file,   \* the document and its file
  disposed,     \* the provider is
  unsaved       \* history: the values left out by a save that tearDown took for one that wrote

vars == <<transactions, call, text, file, disposed, unsaved>>

New == [open |-> TRUE, queue |-> <<Prelude, Setup>>, setUp |-> "loading", status |-> FALSE,
        reference |-> FALSE, done |-> "not in use", saves |-> {}, stage |-> "open", result |-> "none"]

Init ==
  /\ transactions = <<>>
  /\ call = [c \in Calls |-> [is |-> "not called", in |-> 0]]
  /\ text = {}
  /\ file = {}
  /\ disposed = FALSE
  /\ unsaved = {}

Owner(n) == IF transactions[n].queue = <<>> THEN {} ELSE {Head(transactions[n].queue)}

\* release: waitForUnlock resolves when nobody waits.
Released(t) ==
  [t EXCEPT !.queue = Tail(@),
            !.done = IF Len(t.queue) = 1 /\ @ = "waiting" THEN "unlocked" ELSE @]

\* queue.cancel: those who wait are rejected.
Cancelled(t) == IF t.queue = <<>> THEN {} ELSE {Tail(t.queue)[k] : k \in 1..Len(t.queue) - 1} \cap Calls
CancelCalls(t) == call' = [c \in Calls |-> IF c \in Cancelled(t) THEN [call[c] EXCEPT !.is = "cancelled"] ELSE call[c]]

\* A reference is disposed.
Dropped == text' \in {text, file}

\* conclude: tearDown saves when the set up went well.
\* Mutation: the result is resolved before the document is saved.
Concluded_Early(t) ==
  LET saves == t.reference /\ t.status IN
  [t EXCEPT !.open = FALSE,
            !.queue = SubSeq(@, 1, IF @ = <<>> THEN 0 ELSE 1),
            !.reference = saves,
            !.saves = text,
            !.stage = IF saves THEN "saving" ELSE "done",
            !.result = IF saves THEN "true" ELSE "false"]

Concluded(t) ==
  LET saves == t.reference /\ t.status IN
  [t EXCEPT !.open = FALSE,
            !.queue = SubSeq(@, 1, IF @ = <<>> THEN 0 ELSE 1),
            !.reference = saves,
            !.saves = text,
            !.stage = IF saves THEN "saving" ELSE "done",
            !.result = IF saves THEN "none" ELSE "false"]

-----------------------------------------------------------------------------
(* doSetPreference, and the disposal of the provider *)

SetPreference(c) ==
  /\ call[c].is = "not called"
  /\ ~disposed
  /\ LET current == Len(transactions)
         again == current # 0 /\ transactions[current].open
         ts == IF again THEN transactions ELSE Append(transactions, New)
     IN /\ transactions' = [ts EXCEPT ![Len(ts)].queue = Append(@, c)]
        /\ call' = [call EXCEPT ![c] = [is |-> "queued", in |-> Len(ts)]]
  /\ UNCHANGED <<text, file, disposed, unsaved>>

Dispose ==
  /\ ~disposed
  /\ disposed' = TRUE
  /\ \/ /\ \A n \in DOMAIN transactions : ~transactions[n].open
        /\ UNCHANGED <<transactions, call, text>>
     \/ \E n \in DOMAIN transactions :
          /\ transactions[n].open
          /\ transactions' = [transactions EXCEPT ![n] = Concluded(@)]
          /\ CancelCalls(transactions[n])
          /\ IF transactions[n].reference /\ ~transactions[n].status THEN Dropped ELSE UNCHANGED text
  /\ UNCHANGED <<file, unsaved>>

-----------------------------------------------------------------------------
(* doInit *)

\* The result of the transaction before is waited for.
PreludeEnds(n) ==
  /\ Prelude \in Owner(n)
  /\ n > 1 => transactions[n - 1].result # "none"
  /\ transactions' = [transactions EXCEPT ![n] = Released(@)]
  /\ UNCHANGED <<call, text, file, disposed, unsaved>>

SetUp(n, stage) == Setup \in Owner(n) /\ transactions[n].setUp = stage

Ready(t, status) == Released([t EXCEPT !.setUp = "ready", !.status = status])

\* createModelReference: the document may be dirty.
Referenced(n) ==
  /\ SetUp(n, "loading")
  /\ IF transactions[n].open
       THEN \/ transactions' = [transactions EXCEPT ![n].reference = TRUE, ![n].setUp = "asking"]
            \/ /\ text = file
               /\ transactions' = [transactions EXCEPT ![n] = Ready([@ EXCEPT !.reference = TRUE], TRUE)]
       ELSE transactions' = [transactions EXCEPT ![n] = Ready(@, FALSE)]
  /\ UNCHANGED <<call, text, file, disposed, unsaved>>

\* setUp gives up, or throws, and disposes the transaction, which may have been
\* disposed meanwhile.
SetUpFails(n) ==
  /\ SetUp(n, "loading") \/ SetUp(n, "asking")
  /\ LET t == transactions[n] IN
     /\ transactions' = [transactions EXCEPT ![n] = Ready(IF t.open THEN Concluded(t) ELSE t, FALSE)]
     /\ IF t.open THEN CancelCalls(t) ELSE UNCHANGED call
     /\ IF t.reference THEN Dropped ELSE UNCHANGED text
  /\ UNCHANGED <<file, disposed, unsaved>>

\* Save and Retry: the transaction goes on whether or not the save wrote.
SaveAndRetry(n) ==
  /\ SetUp(n, "asking")
  /\ transactions[n].reference
  /\ file' \in {text, file}
  /\ transactions' = [transactions EXCEPT ![n] = Ready(@, TRUE)]
  /\ UNCHANGED <<call, text, disposed, unsaved>>

-----------------------------------------------------------------------------
(* enqueueAction and act *)

\* The action does not wait for the result with the lock held.
\* Mutation: it does.
Act_Awaited(c) ==
  \E n \in DOMAIN transactions :
    /\ c \in Owner(n)
    /\ call[c].is = "queued"
    /\ LET t == [transactions[n] EXCEPT !.done = IF @ = "not in use" THEN "waiting" ELSE @] IN
       IF t.reference
         THEN /\ transactions' = [transactions EXCEPT ![n] = t]
              /\ text' = text \cup {c}
              /\ call' = [call EXCEPT ![c].is = "setting"]
         ELSE /\ transactions' = [transactions EXCEPT ![n] = Released(t)]
              /\ call' = [call EXCEPT ![c].is = "false"]
              /\ UNCHANGED text
    /\ UNCHANGED <<file, disposed, unsaved>>

Act(c) ==
  \E n \in DOMAIN transactions :
    /\ c \in Owner(n)
    /\ LET t == transactions[n] IN
       /\ transactions' = [transactions EXCEPT
            ![n] = Released([t EXCEPT !.done = IF @ = "not in use" THEN "waiting" ELSE @])]
       /\ IF t.reference
            THEN text' = text \cup {c} /\ call' = [call EXCEPT ![c].is = "setting"]
            ELSE call' = [call EXCEPT ![c].is = "false"] /\ UNCHANGED text
    /\ UNCHANGED <<file, disposed, unsaved>>

\* setValue ends, and may have saved the document.
ValueSet(c) ==
  /\ call[c].is = "setting"
  /\ \/ /\ call' = [call EXCEPT ![c].is = "set"]
        /\ file' \in {file, file \cup text}
     \/ /\ call' = [call EXCEPT ![c].is = "false"]
        /\ UNCHANGED file
  /\ UNCHANGED <<transactions, text, disposed, unsaved>>

ResultKnown(c) ==
  /\ call[c].is = "set"
  /\ transactions[call[c].in].result # "none"
  /\ call' = [call EXCEPT ![c].is = transactions[call[c].in].result]
  /\ UNCHANGED <<transactions, text, file, disposed, unsaved>>

-----------------------------------------------------------------------------
(* disposeWhenDone, and the rest of conclude *)

\* Something may have been queued since the queue was unlocked.
\* Mutation: that is not looked at.
Done_Unchecked(n) ==
  /\ transactions[n].done = "unlocked"
  /\ LET t == [transactions[n] EXCEPT !.done = "waiting"] IN
     IF t.open
       THEN /\ transactions' = [transactions EXCEPT ![n] = Concluded(t)]
            /\ CancelCalls(t)
       ELSE transactions' = [transactions EXCEPT ![n] = t] /\ UNCHANGED call
  /\ UNCHANGED <<text, file, disposed, unsaved>>

Done(n) ==
  /\ transactions[n].done = "unlocked"
  /\ LET t == [transactions[n] EXCEPT !.done = "waiting"] IN
     IF t.queue = <<>> /\ t.open
       THEN /\ transactions' = [transactions EXCEPT ![n] = Concluded(t)]
            /\ CancelCalls(t)
       ELSE transactions' = [transactions EXCEPT ![n] = t] /\ UNCHANGED call
  /\ UNCHANGED <<text, file, disposed, unsaved>>

\* The save of tearDown wrote, returned without having written, or threw.
SaveEnds(n) ==
  /\ transactions[n].stage = "saving"
  /\ \/ /\ transactions' = [transactions EXCEPT ![n].stage = "concluding", ![n].reference = FALSE]
        /\ file' = file \cup transactions[n].saves
        /\ text' \in {text, file'}
        /\ UNCHANGED unsaved
     \/ /\ transactions' = [transactions EXCEPT ![n].stage = "concluding", ![n].reference = FALSE]
        /\ Dropped
        /\ unsaved' = unsaved \cup transactions[n].saves
        /\ UNCHANGED file
     \/ /\ transactions' = [transactions EXCEPT ![n].stage = "done", ![n].reference = FALSE, ![n].result = "false"]
        /\ Dropped
        /\ UNCHANGED <<file, unsaved>>
  /\ UNCHANGED <<call, disposed>>

\* onWillConclude: the provider has read the file.
ConcludeEnds(n) ==
  /\ transactions[n].stage = "concluding"
  /\ transactions' = [transactions EXCEPT ![n].stage = "done", ![n].result = "true"]
  /\ UNCHANGED <<call, text, file, disposed, unsaved>>

-----------------------------------------------------------------------------
GoesOn(n) ==
  \/ PreludeEnds(n)
  \/ Referenced(n)
  \/ SetUpFails(n)
  \/ SaveAndRetry(n)
  \/ Done(n)
  \/ SaveEnds(n)
  \/ ConcludeEnds(n)

Next ==
  \/ Dispose
  \/ \E n \in DOMAIN transactions : GoesOn(n)
  \/ \E c \in Calls : SetPreference(c) \/ Act(c) \/ ValueSet(c) \/ ResultKnown(c)

Spec == Init /\ [][Next]_vars

\* The document is loaded, changed and saved in time, and the user answers the
\* question about a dirty document.
Fairness ==
  WF_vars(\/ \E n \in DOMAIN transactions : GoesOn(n)
          \/ \E c \in Calls : Act(c) \/ ValueSet(c) \/ ResultKnown(c))

FairSpec == Spec /\ Fairness

-----------------------------------------------------------------------------
(* Properties *)

\* Transactions of one provider do not overlap: one refers to the document only
\* when all those before it are over, the result told and their saves done.
OneTransactionAtATime ==
  \A n \in DOMAIN transactions :
    transactions[n].reference => \A m \in 1..n - 1 : transactions[m].stage = "done"

\* A preference that setPreference answered true for is in the file, whatever else fails or
\* overlaps, unless the provider was disposed under it or the very save that its transaction
\* ended with returned without having written, which tearDown takes for success.
TrueIsSaved ==
  \A c \in Calls : call[c].is = "true" /\ ~disposed => c \in file \cup unsaved

\* Every setPreference settles: with the result, false, or a CancellationError.
Settled(c) == call[c].is \in {"true", "false", "cancelled"}
CallsSettle == []<>(\A c \in Calls : call[c].is = "not called" \/ Settled(c))
=============================================================================
