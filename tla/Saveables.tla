------------------------------ MODULE Saveables ------------------------------
(***************************************************************************)
(* Saving and closing of dirty tabs: the saveable service of packages/core *)
(* (browser/saveable-service.ts, saveable.ts), the shell's closeMany and   *)
(* saveAll (browser/shell/application-shell.ts), and the question asked    *)
(* before the application stops (browser/common-frontend-contribution.ts). *)
(*                                                                         *)
(* Several tabs may show one document, which lives as long as a tab does.  *)
(* Documents are external: a text is known by the number of the edit that  *)
(* made it, a save writes the text it began with, saves of one document    *)
(* end in the order they began, and a save may also throw, or end and      *)
(* leave the document dirty.  Untitled documents are left out.             *)
(***************************************************************************)
EXTENDS Naturals, FiniteSets

CONSTANTS Tabs, Docs,
          DocOf,       \* the document of a tab
          Modes,       \* of autosave: some of "off", "afterDelay", "onFocusChange"
          Options,     \* of closeMany: "ask", "save", "dont", "cancel"
          MaxEdits,    \* bound on the edits
          Bulk, Exit   \* the flows of closeMany and of onWillStop

ASSUME DocOfAssumption == Docs # {} /\ DocOf \in [Tabs -> Docs]
ASSUME MaxEditsAssumption == MaxEdits \in Nat

Flows == Tabs \cup Docs \cup {Bulk, Exit}

VARIABLES
  open,       \* the tabs there are
  text,       \* per document: what its tabs show
  disk,       \* per document: what its file holds
  tried,      \* per document: the last text a save began with
  edits,      \* made so far
  mode,       \* autoSave
  timers,     \* tabs whose throttle runs
  flow,       \* per tab closeWithSaving, per document its autosave, Bulk and Exit
  todo,       \* tabs that closeMany, or saveAll, has not come to yet
  many        \* closeMany: its targets, the tabs it does not close, its option

vars == <<open, text, disk, tried, edits, mode, timers, flow, todo, many>>

Dirty(d) == text[d] # disk[d]
Holders(d) == {t \in open : DocOf[t] = d}

\* closingWidgetWouldLoseSaveable
WouldLose(t, tabs) == \A u \in tabs \ {t} : DocOf[u] # DocOf[t]

Stage(stage) == [stage |-> stage, doc |-> CHOOSE d \in Docs : TRUE, saves |-> 0]
Idle == Stage("idle")
OfDoc(stage, d) == [stage |-> stage, doc |-> d, saves |-> 0]
NotMany == [targets |-> {}, others |-> {}, option |-> "ask"]

\* Nothing is loaded yet, and nothing under way.
Init ==
  /\ open = {}
  /\ text = [d \in Docs |-> 0]
  /\ disk = [d \in Docs |-> 0]
  /\ tried = [d \in Docs |-> 0]
  /\ edits = 0
  /\ mode \in Modes
  /\ timers = {}
  /\ flow = [f \in Flows |-> Idle]
  /\ todo = {}
  /\ many = NotMany

-----------------------------------------------------------------------------
(* The user's editing, and autosave *)

OpenTab(t) ==
  /\ t \notin open
  /\ open' = open \cup {t}
  /\ UNCHANGED <<text, disk, tried, edits, mode, timers, flow, todo, many>>

\* throttledSave of the tabs ts, whose documents are dirty.
Throttle(ts, m) == timers' = IF m = "afterDelay" THEN timers \cup ts ELSE timers \ ts

Edit(d) ==
  /\ edits < MaxEdits
  /\ Holders(d) # {}
  /\ edits' = edits + 1
  /\ text' = [text EXCEPT ![d] = edits + 1]
  /\ Throttle(Holders(d), mode)
  /\ UNCHANGED <<open, disk, tried, mode, flow, todo, many>>

\* A save begins, and f waits for it.
Save(f, d) ==
  /\ flow' = [flow EXCEPT ![f] = [stage |-> "saving", doc |-> d, saves |-> text[d]]]
  /\ tried' = [tried EXCEPT ![d] = text[d]]

\* Those of the documents ds that are dirty are saved, each once at a time.
AutoSave(ds) ==
  LET dirty == {d \in ds : Dirty(d)} IN
  /\ \A d \in dirty : flow[d].stage = "idle"
  /\ flow' = [f \in Flows |->
               IF f \in dirty THEN [stage |-> "saving", doc |-> f, saves |-> text[f]] ELSE flow[f]]
  /\ tried' = [d \in Docs |-> IF d \in dirty THEN text[d] ELSE tried[d]]

\* The preference changes.  With onFocusChange all but the current tab are saved.
SetMode(m) ==
  /\ m # mode
  /\ mode' = m
  /\ Throttle({t \in open : Dirty(DocOf[t])}, m)
  /\ \/ m # "onFocusChange" /\ UNCHANGED <<flow, tried>>
     \/ m = "onFocusChange" /\ \E current \in SUBSET open :
          /\ Cardinality(current) <= 1
          /\ AutoSave({DocOf[t] : t \in open \ current})
  /\ UNCHANGED <<open, text, disk, edits, todo, many>>

\* A throttle ends, also that of a tab that was closed meanwhile.
TimerFires(t) ==
  /\ t \in timers
  /\ timers' = timers \ {t}
  /\ IF mode = "afterDelay" THEN AutoSave({DocOf[t]}) ELSE UNCHANGED <<flow, tried>>
  /\ UNCHANGED <<open, text, disk, edits, mode, todo, many>>

FocusChanges(t) ==
  /\ mode = "onFocusChange"
  /\ t \in open
  /\ AutoSave({DocOf[t]})
  /\ UNCHANGED <<open, text, disk, edits, mode, timers, todo, many>>

-----------------------------------------------------------------------------
(* Closing a tab *)

\* A tab is gone, and with the last one its document.  Its throttle runs on.
\* Mutation: the throttle is cancelled.
Closed_Cancelled(t) ==
  /\ open' = open \ {t}
  /\ text' = IF WouldLose(t, open) THEN [text EXCEPT ![DocOf[t]] = disk[DocOf[t]]] ELSE text
  /\ timers' = timers \ {t}

Closed(t) ==
  /\ open' = open \ {t}
  /\ text' = IF WouldLose(t, open) THEN [text EXCEPT ![DocOf[t]] = disk[DocOf[t]]] ELSE text
  /\ UNCHANGED timers

\* closeWithoutSaving: whether the document is reverted is decided here.
CloseWithoutSaving(t) ==
  \/ /\ Dirty(DocOf[t]) /\ WouldLose(t, open)
     /\ flow' = [flow EXCEPT ![t] = OfDoc("reverting", DocOf[t])]
     /\ UNCHANGED <<open, text, timers>>
  \/ /\ ~(Dirty(DocOf[t]) /\ WouldLose(t, open))
     /\ Closed(t)
     /\ flow' = [flow EXCEPT ![t] = Idle]

\* The answer of shouldSaveWidget: to save, not to, or not to close at all.
Decided(t, answer) ==
  \/ answer = "save" /\ Save(t, DocOf[t]) /\ UNCHANGED <<open, text, timers>>
  \/ answer = "dont" /\ CloseWithoutSaving(t) /\ UNCHANGED tried
  \/ answer = "cancel" /\ flow' = [flow EXCEPT ![t] = Idle] /\ UNCHANGED <<open, text, tried, timers>>

\* shouldSaveWidget; the option says what to do, or to ask the user.
Decide(t, option) ==
  CASE ~Dirty(DocOf[t])     -> Decided(t, "dont")
    [] Dirty(DocOf[t]) /\ mode # "off" -> Decided(t, "save")
    [] Dirty(DocOf[t]) /\ mode = "off" /\ ~WouldLose(t, open) -> Decided(t, "dont")
    [] OTHER ->
         IF option # "ask" THEN Decided(t, option)
         ELSE /\ flow' = [flow EXCEPT ![t] = OfDoc("asking", DocOf[t])]
              /\ UNCHANGED <<open, text, tried, timers>>

\* createCloseWithSaving: nothing while the tab is being closed.
CloseWithSaving(t, option) ==
  IF t \in open /\ flow[t].stage = "idle"
    THEN Decide(t, option)
    ELSE UNCHANGED <<open, text, tried, timers, flow>>

CloseWidget(t, option) ==
  /\ t \in open
  /\ flow[t].stage = "idle"
  /\ CloseWithSaving(t, option)
  /\ UNCHANGED <<disk, edits, mode, todo, many>>

Answer(t) ==
  /\ flow[t].stage = "asking"
  /\ \E answer \in {"save", "dont", "cancel"} : Decided(t, answer)
  /\ UNCHANGED <<disk, edits, mode, todo, many>>

-----------------------------------------------------------------------------
(* closeMany: confirmSaveBeforeClose, then closeWidget for every target *)

CloseMany(tabs, option) ==
  /\ flow[Bulk].stage = "idle"
  /\ tabs # {}
  /\ flow[Exit].stage = "idle"
  /\ many' = [targets |-> tabs, others |-> open \ tabs, option |-> option]
  /\ todo' = tabs
  /\ flow' = [flow EXCEPT ![Bulk] = Stage(IF option = "dont" THEN "closing" ELSE "confirming")]
  /\ UNCHANGED <<open, text, disk, tried, edits, mode, timers>>

Confirm ==
  /\ flow[Bulk].stage = "confirming"
  /\ IF todo = {}
       THEN /\ flow' = [flow EXCEPT ![Bulk] = Stage("closing")]
            /\ todo' = many.targets
       ELSE \E t \in todo :
              /\ todo' = todo \ {t}
              /\ flow' = IF Dirty(DocOf[t]) /\ WouldLose(t, many.others)
                           THEN [flow EXCEPT ![Bulk] = OfDoc("asking", DocOf[t])] ELSE flow
  /\ UNCHANGED <<open, text, disk, tried, edits, mode, timers, many>>

ConfirmAnswer ==
  /\ flow[Bulk].stage = "asking"
  /\ \/ Save(Bulk, flow[Bulk].doc) /\ UNCHANGED <<todo, many>>
     \/ /\ flow' = [flow EXCEPT ![Bulk].stage = "reverting"]
        /\ UNCHANGED <<tried, todo, many>>
     \/ /\ flow' = [flow EXCEPT ![Bulk] = Idle]
        /\ todo' = {}
        /\ many' = NotMany
        /\ UNCHANGED tried
  /\ UNCHANGED <<open, text, disk, edits, mode, timers>>

CloseNext ==
  /\ flow[Bulk].stage = "closing"
  /\ \/ \E t \in todo :
          /\ CloseWithSaving(t, many.option)
          /\ todo' = todo \ {t}
          /\ UNCHANGED many
     \/ /\ todo = {}
        /\ flow' = [flow EXCEPT ![Bulk] = Idle]
        /\ many' = NotMany
        /\ UNCHANGED <<open, text, tried, timers, todo>>
  /\ UNCHANGED <<disk, edits, mode>>

-----------------------------------------------------------------------------
(* onWillStop, and saveAll *)

WillStop ==
  /\ flow[Exit].stage = "idle"
  /\ flow[Bulk].stage = "idle"
  /\ \E t \in open : Dirty(DocOf[t])
  /\ flow' = [flow EXCEPT ![Exit] = Stage("asking")]
  /\ UNCHANGED <<open, text, disk, tried, edits, mode, timers, todo, many>>

StopAnswer ==
  /\ flow[Exit].stage = "asking"
  /\ \/ flow' = [flow EXCEPT ![Exit] = Stage("saving all")] /\ todo' = open
     \/ flow' = [flow EXCEPT ![Exit] = Stage("stopped")] /\ UNCHANGED todo
     \/ flow' = [flow EXCEPT ![Exit] = Idle] /\ UNCHANGED todo
  /\ UNCHANGED <<open, text, disk, tried, edits, mode, timers, many>>

SaveAllNext ==
  /\ flow[Exit].stage = "saving all"
  /\ \/ \E t \in todo :
          /\ todo' = todo \ {t}
          /\ IF Dirty(DocOf[t]) THEN Save(Exit, DocOf[t]) ELSE UNCHANGED <<flow, tried>>
     \/ /\ todo = {}
        /\ flow' = [flow EXCEPT ![Exit] = Stage("all saved")]
        /\ UNCHANGED <<tried, todo>>
  /\ UNCHANGED <<open, text, disk, edits, mode, timers, many>>

Stopped == flow[Exit].stage \in {"stopped", "all saved"}

-----------------------------------------------------------------------------
(* What is waited for ends *)

\* How a flow goes on after a save or a revert that did not throw.
GoesOn(f) == CASE f = Bulk -> Stage("confirming") [] f = Exit -> Stage("saving all") [] OTHER -> Idle

Ended(f) ==
  /\ flow' = [flow EXCEPT ![f] = Idle]
  /\ todo' = IF f \in {Bulk, Exit} THEN {} ELSE todo
  /\ many' = IF f = Bulk THEN NotMany ELSE many

InOrder(f) ==
  \A g \in Flows : (flow[g].stage = "saving" /\ flow[g].doc = flow[f].doc) => flow[f].saves <= flow[g].saves

\* A text was saved.  A document that is not dirty shows what its file holds.  A
\* tab is closed after the save, unless there is something to save again.
\* Mutation: whatever has been edited meanwhile.
Saved_Closes(f) ==
  LET d == flow[f].doc  n == flow[f].saves IN
  /\ disk' = [disk EXCEPT ![d] = n]
  /\ text' = IF Dirty(d) /\ f \notin Tabs THEN text ELSE [text EXCEPT ![d] = n]
  /\ open' = open \ {f}
  /\ flow' = [flow EXCEPT ![f] = GoesOn(f)]
  /\ UNCHANGED <<todo, many>>

Saved(f) ==
  LET d == flow[f].doc  n == flow[f].saves IN
  /\ disk' = [disk EXCEPT ![d] = n]
  /\ text' = IF Dirty(d) THEN text ELSE [text EXCEPT ![d] = n]
  /\ open' = IF text'[d] = n THEN open \ {f} ELSE open
  /\ flow' = [flow EXCEPT ![f] = GoesOn(f)]
  /\ UNCHANGED <<todo, many>>

\* It was not, and the flow is told, or only finds its document dirty.
\* Mutation: a save that throws leaves closing set.
NotSaved_Closing(f) ==
  /\ \/ flow' = [flow EXCEPT ![f] = GoesOn(f)] /\ UNCHANGED <<todo, many>>
     \/ f \in Tabs /\ flow' = [flow EXCEPT ![f] = Stage("closing")] /\ UNCHANGED <<todo, many>>
     \/ f \notin Tabs /\ Ended(f)
  /\ UNCHANGED <<open, text, disk>>

NotSaved(f) ==
  /\ \/ flow' = [flow EXCEPT ![f] = GoesOn(f)] /\ UNCHANGED <<todo, many>>
     \/ Ended(f)
  /\ UNCHANGED <<open, text, disk>>

SaveEnds(f) ==
  /\ flow[f].stage = "saving"
  /\ InOrder(f)
  /\ Saved(f) \/ NotSaved(f)
  /\ UNCHANGED <<tried, edits, mode, timers>>

Reverted(f) ==
  /\ flow[f].stage = "reverting"
  /\ text' = [text EXCEPT ![flow[f].doc] = disk[flow[f].doc]]
  /\ open' = open \ {f}
  /\ flow' = [flow EXCEPT ![f] = GoesOn(f)]
  /\ UNCHANGED <<disk, tried, edits, mode, timers, todo, many>>

RevertThrows(f) ==
  /\ flow[f].stage = "reverting"
  /\ Ended(f)
  /\ UNCHANGED <<open, text, disk, tried, edits, mode, timers>>

-----------------------------------------------------------------------------
\* The loops of confirmSaveBeforeClose, closeMany and saveAll only pause where
\* they wait for something.
InLoop == flow[Bulk].stage \in {"confirming", "closing"} \/ flow[Exit].stage = "saving all"
Loop == Confirm \/ CloseNext \/ SaveAllNext

Next ==
  \/ Loop
  \/ /\ ~InLoop /\ ~Stopped
     /\ \/ \E t \in Tabs : OpenTab(t) \/ TimerFires(t) \/ FocusChanges(t) \/ CloseWidget(t, "ask") \/ Answer(t)
        \/ \E d \in Docs : Edit(d)
        \/ \E m \in Modes : SetMode(m)
        \/ \E tabs \in SUBSET open, option \in Options : CloseMany(tabs, option)
        \/ ConfirmAnswer
        \/ WillStop
        \/ StopAnswer
        \/ \E f \in Flows : SaveEnds(f) \/ Reverted(f) \/ RevertThrows(f)

Spec == Init /\ [][Next]_vars

\* Loops go on, the user answers, timers fire, saves and reverts end.
Fairness ==
  /\ WF_vars(Loop)
  /\ WF_vars(~Stopped /\ (ConfirmAnswer \/ StopAnswer))
  /\ \A t \in Tabs : WF_vars(~Stopped /\ TimerFires(t)) /\ WF_vars(~Stopped /\ Answer(t))
  /\ \A f \in Flows : WF_vars(~Stopped /\ (SaveEnds(f) \/ Reverted(f) \/ RevertThrows(f)))

FairSpec == Spec /\ Fairness

-----------------------------------------------------------------------------
(* Properties *)

\* What was edited and not saved is only given up where a flow reverts its
\* document because the user, or the caller, said not to save: closing a tab
\* never loses it, whatever was edited, opened or closed meanwhile.
LossIsDeclined ==
  [][\A d \in Docs : text'[d] < text[d] => \E f \in Flows : flow[f].stage = "reverting" /\ flow[f].doc = d]_vars

\* No tab remains in its closing: one that could not be closed can be closed
\* again.
ClosingEnds == \A t \in Tabs : flow[t].stage # "idle" ~> flow[t].stage = "idle" \/ Stopped

\* With autosave after a delay a dirty document is saved some time after its
\* last edit, whichever of its tabs are opened and closed.
AutoSaveDue(d) == mode = "afterDelay" /\ Holders(d) # {} /\ Dirty(d) /\ tried[d] # text[d]
AutoSaves == \A d \in Docs : AutoSaveDue(d) ~> ~AutoSaveDue(d) \/ Stopped

\* The application only stops after "Save All" when everything is saved.
StopsWhenSaved == flow[Exit].stage = "all saved" => \A t \in open : ~Dirty(DocOf[t])

\* A tab closed with the option not to be saved is not saved.
DontSaveIsKept ==
  [][(flow[Bulk].stage = "closing" /\ many.option = "dont") =>
       \A t \in Tabs : flow'[t].stage = "saving" => flow[t].stage = "saving"]_vars
=============================================================================
