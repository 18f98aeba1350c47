---------------------------- MODULE SaveablesProofs ----------------------------
(***************************************************************************)
(* Proofs about Saveables, for any tabs and documents, any number of       *)
(* edits, and all modes and options: what was edited and not saved is only *)
(* given up where the user, or the caller, declined to save it.            *)
(***************************************************************************)
EXTENDS Saveables, TLAPS

-----------------------------------------------------------------------------
(* The inductive invariant *)

Stages == {"idle", "asking", "saving", "reverting", "confirming", "closing", "saving all", "stopped", "all saved"}

Flow == [stage : Stages, doc : Docs, saves : Nat]

\* Only tabs are to be closed or saved.
Targets == todo \subseteq Tabs /\ many.targets \subseteq Tabs

TypeOK ==
  /\ open \subseteq Tabs
  /\ text \in [Docs -> Nat]
  /\ disk \in [Docs -> Nat]
  /\ edits \in Nat
  /\ flow \in [Flows -> Flow]
  /\ Targets

\* No file is ahead of its document, and the last edit is the newest of all.
InTime == \A d \in Docs : disk[d] <= text[d] /\ text[d] <= edits

\* A save under way writes nothing older than what the file holds, and nothing that
\* a dirty document does not hold already.
SavesInOrder ==
  \A f \in Flows : \A d \in Docs : flow[f].stage = "saving" /\ flow[f].doc = d =>
    /\ disk[d] <= flow[f].saves
    /\ flow[f].saves <= edits
    /\ Dirty(d) => flow[f].saves <= text[d]

IInv == TypeOK /\ InTime /\ SavesInOrder

-----------------------------------------------------------------------------
(* Steps that change no text and no file *)

\* Flows go on, and the saves that begin are of what their documents show.
Calm ==
  /\ UNCHANGED <<text, disk, edits>>
  /\ open' \subseteq Tabs
  /\ Targets'
  /\ flow' \in [Flows -> Flow]
  /\ \A f \in Flows : flow'[f].stage = "saving" =>
       flow'[f] = flow[f] \/ flow'[f].saves = text[flow'[f].doc]

LEMMA CalmKeeps == IInv /\ Calm => IInv'
<1> SUFFICES ASSUME IInv, Calm PROVE IInv'
  OBVIOUS
<1>1. TypeOK' /\ InTime'
  BY DEF IInv, Calm, TypeOK, InTime
<1>2. SavesInOrder'
  <2>1. SUFFICES ASSUME NEW f \in Flows, NEW d \in Docs, flow'[f].stage = "saving", flow'[f].doc = d
                 PROVE  /\ disk[d] <= flow'[f].saves
                        /\ flow'[f].saves <= edits
                        /\ Dirty(d) => flow'[f].saves <= text[d]
    BY DEF Calm, SavesInOrder, Dirty
  <2>2. CASE flow'[f] = flow[f]
    BY <2>1, <2>2 DEF IInv, SavesInOrder
  <2>3. CASE flow'[f].saves = text[d]
    BY <2>3 DEF IInv, TypeOK, InTime
  <2> QED
    BY <2>1, <2>2, <2>3 DEF Calm
<1> QED
  BY <1>1, <1>2 DEF IInv

\* The stages a flow may be put in.
LEMMA StagesAreFlows ==
  ASSUME NEW st \in Stages, NEW d \in Docs
  PROVE  /\ Stage(st) \in Flow /\ Stage(st).stage = st
         /\ OfDoc(st, d) \in Flow /\ OfDoc(st, d).stage = st
<1>1. (CHOOSE e \in Docs : TRUE) \in Docs
  BY DocOfAssumption
<1> QED
  BY <1>1 DEF Stage, OfDoc, Flow

\* One flow goes on, not to a save.
LEMMA FlowGoesOn ==
  ASSUME IInv, NEW f \in Flows, NEW x \in Flow, x.stage # "saving",
         flow' = [flow EXCEPT ![f] = x], UNCHANGED <<text, disk, edits>>,
         open' \subseteq open, Targets'
  PROVE  Calm
BY DEF Calm, IInv, TypeOK

\* A save begins.
LEMMA SaveIsCalm ==
  ASSUME IInv, NEW f \in Flows, NEW d \in Docs, Save(f, d), UNCHANGED <<text, disk, edits>>,
         open' \subseteq open, Targets'
  PROVE  Calm
<1>1. PICK x : x = [stage |-> "saving", doc |-> d, saves |-> text[d]]
  OBVIOUS
<1>2. x \in Flow /\ x.saves = text[x.doc]
  BY <1>1 DEF Flow, Stages, IInv, TypeOK
<1>3. flow' = [flow EXCEPT ![f] = x]
  BY <1>1 DEF Save
<1> QED
  BY <1>2, <1>3 DEF Calm, IInv, TypeOK

\* Autosave begins some.
LEMMA AutoSaveIsCalm ==
  ASSUME IInv, NEW ds \in SUBSET Docs, AutoSave(ds), UNCHANGED <<open, todo, many, text, disk, edits>>
  PROVE  Calm
<1>1. PICK dirty : /\ dirty \subseteq Docs
                   /\ flow' = [f \in Flows |-> IF f \in dirty
                                                 THEN [stage |-> "saving", doc |-> f, saves |-> text[f]]
                                                 ELSE flow[f]]
  BY DEF AutoSave
<1>2. \A f \in dirty : [stage |-> "saving", doc |-> f, saves |-> text[f]] \in Flow
  BY <1>1 DEF Flow, Stages, IInv, TypeOK
<1>3. flow' \in [Flows -> Flow]
  BY <1>1, <1>2 DEF IInv, TypeOK
<1>4. \A f \in Flows : flow'[f] = flow[f] \/ flow'[f].saves = text[flow'[f].doc]
  BY <1>1
<1> QED
  BY <1>3, <1>4 DEF Calm, IInv, TypeOK, Targets

-----------------------------------------------------------------------------
(* Closing a tab *)

\* A tab that closes at once takes no text with it.
LEMMA CloseWithoutSavingIsCalm ==
  ASSUME IInv, NEW t \in Tabs, CloseWithoutSaving(t), UNCHANGED <<disk, edits>>, Targets'
  PROVE  Calm
<1>1. DocOf[t] \in Docs /\ t \in Flows
  BY DocOfAssumption DEF Flows
<1>2. CASE flow' = [flow EXCEPT ![t] = OfDoc("reverting", DocOf[t])] /\ UNCHANGED <<open, text, timers>>
  <2>1. OfDoc("reverting", DocOf[t]) \in Flow /\ OfDoc("reverting", DocOf[t]).stage = "reverting"
    BY <1>1, StagesAreFlows DEF Stages
  <2> QED
    BY <1>1, <1>2, <2>1, FlowGoesOn
<1>3. CASE /\ ~(Dirty(DocOf[t]) /\ WouldLose(t, open))
           /\ Closed(t)
           /\ flow' = [flow EXCEPT ![t] = Idle]
  <2>1. text' = text
    <3>1. CASE WouldLose(t, open)
      <4>1. text[DocOf[t]] = disk[DocOf[t]]
        BY <1>3, <3>1 DEF Dirty
      <4>2. text' = [text EXCEPT ![DocOf[t]] = disk[DocOf[t]]]
        BY <1>3, <3>1 DEF Closed
      <4> QED
        BY <1>1, <4>1, <4>2 DEF IInv, TypeOK
    <3>2. CASE ~WouldLose(t, open)
      BY <1>3, <3>2 DEF Closed
    <3> QED
      BY <3>1, <3>2
  <2>2. open' \subseteq open
    BY <1>3 DEF Closed
  <2>3. Idle \in Flow /\ Idle.stage # "saving"
    BY <1>1, StagesAreFlows DEF Stages, Idle
  <2> QED
    BY <1>1, <1>3, <2>1, <2>2, <2>3, FlowGoesOn
<1> QED
  BY <1>2, <1>3 DEF CloseWithoutSaving

LEMMA DecidedIsCalm ==
  ASSUME IInv, NEW t \in Tabs, NEW answer, Decided(t, answer), UNCHANGED <<disk, edits>>, Targets'
  PROVE  Calm
<1>1. DocOf[t] \in Docs /\ t \in Flows
  BY DocOfAssumption DEF Flows
<1>2. CASE Save(t, DocOf[t]) /\ UNCHANGED <<open, text, timers>>
  BY <1>1, <1>2, SaveIsCalm
<1>3. CASE CloseWithoutSaving(t)
  BY <1>3, CloseWithoutSavingIsCalm
<1>4. CASE flow' = [flow EXCEPT ![t] = Idle] /\ UNCHANGED <<open, text, tried, timers>>
  BY <1>1, <1>4, StagesAreFlows, FlowGoesOn DEF Stages, Idle
<1> QED
  BY <1>2, <1>3, <1>4 DEF Decided

LEMMA CloseWithSavingIsCalm ==
  ASSUME IInv, NEW t \in Tabs, NEW option, CloseWithSaving(t, option), UNCHANGED <<disk, edits>>,
         Targets'
  PROVE  Calm
<1>1. DocOf[t] \in Docs /\ t \in Flows
  BY DocOfAssumption DEF Flows
<1>2. \/ \E answer : Decided(t, answer)
      \/ flow' = [flow EXCEPT ![t] = OfDoc("asking", DocOf[t])] /\ UNCHANGED <<open, text>>
      \/ UNCHANGED <<open, text, flow>>
  BY DEF CloseWithSaving, Decide
<1>3. CASE \E answer : Decided(t, answer)
  BY <1>3, DecidedIsCalm
<1>4. CASE flow' = [flow EXCEPT ![t] = OfDoc("asking", DocOf[t])] /\ UNCHANGED <<open, text>>
  <2>1. "asking" \in Stages
    BY DEF Stages
  <2>2. OfDoc("asking", DocOf[t]) \in Flow /\ OfDoc("asking", DocOf[t]).stage = "asking"
    BY <1>1, <2>1, StagesAreFlows
  <2> QED
    BY <1>1, <1>4, <2>2, FlowGoesOn
<1>5. CASE UNCHANGED <<open, text, flow>>
  BY <1>5 DEF Calm, IInv, TypeOK
<1> QED
  BY <1>2, <1>3, <1>4, <1>5

-----------------------------------------------------------------------------
(* Every step keeps the invariant *)

LEMMA InitIInv == Init => IInv
<1> SUFFICES ASSUME Init PROVE IInv
  OBVIOUS
<1>1. Idle \in Flow /\ Idle.stage # "saving"
  BY StagesAreFlows, DocOfAssumption DEF Stages, Idle
<1>2. TypeOK
  BY <1>1 DEF Init, TypeOK, Targets, NotMany
<1> QED
  BY <1>1, <1>2 DEF Init, IInv, InTime, SavesInOrder

\* An edit is newer than everything.
LEMMA EditIInv ==
  ASSUME IInv, NEW d \in Docs, Edit(d)
  PROVE  IInv' /\ \A e \in Docs : text[e] <= text'[e]
<1>1. /\ text' = [text EXCEPT ![d] = edits + 1] /\ edits' = edits + 1
      /\ UNCHANGED <<open, disk, flow, todo, many>>
  BY DEF Edit
<1>2. TypeOK' /\ InTime' /\ \A e \in Docs : text[e] <= text'[e]
  BY <1>1 DEF IInv, TypeOK, InTime, Targets
<1>3. SavesInOrder'
  <2>1. SUFFICES ASSUME NEW f \in Flows, NEW e \in Docs, flow[f].stage = "saving", flow[f].doc = e
                 PROVE  /\ disk[e] <= flow[f].saves
                        /\ flow[f].saves <= edits + 1
                        /\ text'[e] # disk[e] => flow[f].saves <= text'[e]
    BY <1>1 DEF SavesInOrder, Dirty
  <2>2. /\ disk[e] <= flow[f].saves /\ flow[f].saves <= edits /\ (Dirty(e) => flow[f].saves <= text[e])
        /\ flow[f].saves \in Nat /\ edits \in Nat
    BY <2>1 DEF IInv, SavesInOrder, TypeOK, Flow
  <2>3. CASE e = d
    BY <1>1, <2>2, <2>3 DEF IInv, TypeOK
  <2>4. CASE e # d
    BY <1>1, <2>2, <2>4 DEF IInv, TypeOK, Dirty
  <2> QED
    BY <2>3, <2>4
<1> QED
  BY <1>2, <1>3 DEF IInv

\* A save that is not the last of its document to end leaves the text as it is, and
\* no save writes what is older than the text of a document that is not dirty.
LEMMA SavedIInv ==
  ASSUME IInv, NEW f \in Flows, flow[f].stage = "saving", InOrder(f), Saved(f), edits' = edits
  PROVE  IInv' /\ \A e \in Docs : text[e] <= text'[e]
<1>0. PICK d, n, x : d = flow[f].doc /\ n = flow[f].saves /\ x = GoesOn(f)
  OBVIOUS
<1>1. /\ disk' = [disk EXCEPT ![d] = n]
      /\ text' = IF Dirty(d) THEN text ELSE [text EXCEPT ![d] = n]
      /\ open' \subseteq open
      /\ flow' = [flow EXCEPT ![f] = x]
      /\ UNCHANGED <<todo, many>>
  BY <1>0 DEF Saved
<1>2. d \in Docs /\ n \in Nat
  BY <1>0 DEF IInv, TypeOK, Flow
<1>3. x \in Flow /\ x.stage # "saving"
  BY <1>0, <1>2, StagesAreFlows DEF GoesOn, Stages, Idle
<1>4. disk[d] <= n /\ n <= edits /\ (Dirty(d) => n <= text[d])
  BY <1>0, <1>2 DEF IInv, SavesInOrder
<1>5. TypeOK'
  BY <1>1, <1>2, <1>3 DEF IInv, TypeOK, Targets
<1>6. InTime' /\ \A e \in Docs : text[e] <= text'[e]
  BY <1>1, <1>2, <1>4 DEF IInv, TypeOK, InTime, Dirty
<1>7. SavesInOrder'
  <2>1. SUFFICES ASSUME NEW g \in Flows, NEW e \in Docs, flow'[g].stage = "saving", flow'[g].doc = e
                 PROVE  /\ disk'[e] <= flow'[g].saves
                        /\ flow'[g].saves <= edits
                        /\ text'[e] # disk'[e] => flow'[g].saves <= text'[e]
    BY DEF SavesInOrder, Dirty
  <2>2. flow'[g] = flow[g]
    BY <1>1, <1>3, <2>1 DEF IInv, TypeOK
  <2>3. /\ disk[e] <= flow[g].saves /\ flow[g].saves <= edits
        /\ text[e] # disk[e] => flow[g].saves <= text[e]
    BY <2>1, <2>2 DEF IInv, SavesInOrder, Dirty
  <2>4. CASE e = d
    <3>1. n <= flow[g].saves
      BY <1>0, <2>1, <2>2, <2>4 DEF InOrder
    <3>2. disk'[d] = n /\ (text'[d] = text[d] \/ text'[d] = n) /\ (text'[d] = n \/ text[d] # disk[d])
      BY <1>1, <1>2 DEF IInv, TypeOK, Dirty
    <3> QED
      BY <2>2, <2>3, <2>4, <3>1, <3>2, <1>1, <1>2 DEF Dirty, IInv, TypeOK
  <2>5. CASE e # d
    <3>1. disk'[e] = disk[e] /\ text'[e] = text[e]
      BY <1>1, <2>5 DEF IInv, TypeOK
    <3> QED
      BY <2>2, <2>3, <3>1
  <2> QED
    BY <2>4, <2>5
<1> QED
  BY <1>5, <1>6, <1>7 DEF IInv

\* Only here does a document go back to what its file holds.
LEMMA RevertedIInv ==
  ASSUME IInv, NEW f \in Flows, Reverted(f)
  PROVE  IInv' /\ \A e \in Docs : text[e] <= text'[e] \/ flow[f].doc = e
<1>0. PICK d, x : d = flow[f].doc /\ x = GoesOn(f)
  OBVIOUS
<1>1. /\ text' = [text EXCEPT ![d] = disk[d]]
      /\ open' \subseteq open
      /\ flow' = [flow EXCEPT ![f] = x]
      /\ UNCHANGED <<disk, edits, todo, many>>
  BY <1>0 DEF Reverted
<1>2. d \in Docs
  BY <1>0 DEF IInv, TypeOK, Flow
<1>3. x \in Flow /\ x.stage # "saving"
  BY <1>0, <1>2, StagesAreFlows DEF GoesOn, Stages, Idle
<1>4. TypeOK' /\ InTime' /\ \A e \in Docs : text[e] <= text'[e] \/ flow[f].doc = e
  BY <1>0, <1>1, <1>2, <1>3 DEF IInv, TypeOK, InTime, Targets
<1>5. SavesInOrder'
  <2>1. SUFFICES ASSUME NEW g \in Flows, NEW e \in Docs, flow'[g].stage = "saving", flow'[g].doc = e
                 PROVE  /\ disk[e] <= flow'[g].saves
                        /\ flow'[g].saves <= edits
                        /\ text'[e] # disk[e] => flow'[g].saves <= text'[e]
    BY <1>1 DEF SavesInOrder, Dirty
  <2>2. flow'[g] = flow[g]
    BY <1>1, <1>3, <2>1 DEF IInv, TypeOK
  <2>3. e # d => text'[e] = text[e]
    BY <1>1 DEF IInv, TypeOK
  <2>4. text'[d] = disk[d]
    BY <1>1, <1>2 DEF IInv, TypeOK
  <2> QED
    BY <2>1, <2>2, <2>3, <2>4 DEF IInv, SavesInOrder, Dirty
<1> QED
  BY <1>4, <1>5 DEF IInv

\* Opening, autosaving and closing tabs.
LEMMA TabsAreCalm ==
  ASSUME IInv,
         \/ \E t \in Tabs : OpenTab(t) \/ TimerFires(t) \/ FocusChanges(t) \/ CloseWidget(t, "ask") \/ Answer(t)
         \/ \E m \in Modes : SetMode(m)
  PROVE  Calm
<1>1. ASSUME NEW t \in Tabs, OpenTab(t) PROVE Calm
  BY <1>1 DEF OpenTab, Calm, IInv, TypeOK, Targets
<1>2. ASSUME NEW t \in Tabs, TimerFires(t) PROVE Calm
  <2>1. {DocOf[t]} \subseteq Docs
    BY DocOfAssumption
  <2>2. UNCHANGED <<open, todo, many, text, disk, edits>>
    BY <1>2 DEF TimerFires
  <2>3. CASE AutoSave({DocOf[t]})
    BY <2>1, <2>2, <2>3, AutoSaveIsCalm
  <2>4. CASE UNCHANGED flow
    BY <2>2, <2>4 DEF Calm, IInv, TypeOK, Targets
  <2> QED
    BY <1>2, <2>3, <2>4 DEF TimerFires
<1>3. ASSUME NEW t \in Tabs, FocusChanges(t) PROVE Calm
  <2>1. {DocOf[t]} \subseteq Docs
    BY DocOfAssumption
  <2> QED
    BY <1>3, <2>1, AutoSaveIsCalm DEF FocusChanges
<1>4. ASSUME NEW t \in Tabs, CloseWidget(t, "ask") PROVE Calm
  BY <1>4, CloseWithSavingIsCalm DEF CloseWidget, IInv, TypeOK, Targets
<1>5. ASSUME NEW t \in Tabs, Answer(t) PROVE Calm
  BY <1>5, DecidedIsCalm DEF Answer, IInv, TypeOK, Targets
<1>6. ASSUME NEW m \in Modes, SetMode(m) PROVE Calm
  <2>1. UNCHANGED <<open, todo, many, text, disk, edits>>
    BY <1>6 DEF SetMode
  <2>2. CASE UNCHANGED flow
    BY <2>1, <2>2 DEF Calm, IInv, TypeOK, Targets
  <2>3. CASE \E current \in SUBSET open : AutoSave({DocOf[t] : t \in open \ current})
    <3>1. PICK ds : AutoSave(ds) /\ ds \subseteq Docs
      BY <2>3, DocOfAssumption DEF IInv, TypeOK
    <3> QED
      BY <2>1, <3>1, AutoSaveIsCalm
  <2> QED
    BY <1>6, <2>2, <2>3 DEF SetMode
<1> QED
  BY <1>1, <1>2, <1>3, <1>4, <1>5, <1>6

\* A flow goes to a stage where it does not save.
LEMMA StageIsCalm ==
  ASSUME IInv, NEW f \in Flows, NEW st \in Stages, st # "saving", NEW d \in Docs,
         \/ flow' = [flow EXCEPT ![f] = Stage(st)]
         \/ flow' = [flow EXCEPT ![f] = OfDoc(st, d)]
         \/ flow' = [flow EXCEPT ![f].stage = st],
         UNCHANGED <<open, text, disk, edits>>, Targets'
  PROVE  Calm
<1>1. PICK x : x = [flow[f] EXCEPT !.stage = st]
  OBVIOUS
<1>2. x \in Flow /\ x.stage = st
  BY <1>1 DEF IInv, TypeOK, Flow
<1>3. CASE flow' = [flow EXCEPT ![f].stage = st]
  <2>1. flow' = [flow EXCEPT ![f] = x]
    BY <1>1, <1>3
  <2> QED
    BY <1>2, <2>1, FlowGoesOn
<1>4. CASE flow' = [flow EXCEPT ![f] = Stage(st)] \/ flow' = [flow EXCEPT ![f] = OfDoc(st, d)]
  BY <1>4, StagesAreFlows, FlowGoesOn
<1> QED
  BY <1>3, <1>4

\* closeMany, onWillStop and saveAll.
LEMMA BulkIsCalm ==
  ASSUME IInv,
         \/ Loop
         \/ \E tabs \in SUBSET open, option \in Options : CloseMany(tabs, option)
         \/ ConfirmAnswer \/ WillStop \/ StopAnswer
  PROVE  Calm
<1>0. Bulk \in Flows /\ Exit \in Flows /\ (\A t \in Tabs : t \in Flows /\ DocOf[t] \in Docs)
      /\ (\A f \in Flows : flow[f].doc \in Docs) /\ open \subseteq Tabs /\ todo \subseteq Tabs
  <2>1. Bulk \in Flows /\ Exit \in Flows /\ \A t \in Tabs : t \in Flows /\ DocOf[t] \in Docs
    BY DocOfAssumption DEF Flows
  <2>2. (\A f \in Flows : flow[f].doc \in Docs) /\ open \subseteq Tabs /\ todo \subseteq Tabs
    BY DEF IInv, TypeOK, Flow, Targets
  <2> QED
    BY <2>1, <2>2
<1>1. PICK d0 : d0 \in Docs
  BY DocOfAssumption
<1>2. CASE Confirm
  <2>1. UNCHANGED <<open, text, disk, edits, many>> /\ Targets'
    BY <1>2 DEF Confirm, IInv, TypeOK, Targets
  <2>2. \/ flow' = [flow EXCEPT ![Bulk] = Stage("closing")]
        \/ \E t \in todo : flow' = [flow EXCEPT ![Bulk] = OfDoc("asking", DocOf[t])]
        \/ flow' = flow
    BY <1>2 DEF Confirm
  <2>3. CASE flow' = flow
    BY <2>1, <2>3 DEF Calm, IInv, TypeOK
  <2>4. CASE flow' = [flow EXCEPT ![Bulk] = Stage("closing")]
    BY <1>0, <1>1, <2>1, <2>4, StageIsCalm DEF Stages
  <2>5. CASE \E t \in todo : flow' = [flow EXCEPT ![Bulk] = OfDoc("asking", DocOf[t])]
    BY <1>0, <2>1, <2>5, StageIsCalm DEF Stages
  <2> QED
    BY <2>2, <2>3, <2>4, <2>5
<1>3. CASE CloseNext
  <2>1. UNCHANGED <<disk, edits>> /\ Targets'
    BY <1>3 DEF CloseNext, IInv, TypeOK, Targets, NotMany
  <2>2. \/ \E t \in todo : CloseWithSaving(t, many.option)
        \/ flow' = [flow EXCEPT ![Bulk] = Stage("idle")] /\ UNCHANGED <<open, text>>
    BY <1>3 DEF CloseNext, Idle
  <2>3. CASE \E t \in todo : CloseWithSaving(t, many.option)
    BY <1>0, <2>1, <2>3, CloseWithSavingIsCalm
  <2>4. CASE flow' = [flow EXCEPT ![Bulk] = Stage("idle")] /\ UNCHANGED <<open, text>>
    BY <1>0, <1>1, <2>1, <2>4, StageIsCalm DEF Stages
  <2> QED
    BY <2>2, <2>3, <2>4
<1>4. CASE SaveAllNext
  <2>1. UNCHANGED <<open, text, disk, edits>> /\ Targets'
    BY <1>4 DEF SaveAllNext, IInv, TypeOK, Targets
  <2>2. \/ \E t \in todo : Save(Exit, DocOf[t])
        \/ flow' = flow
        \/ flow' = [flow EXCEPT ![Exit] = Stage("all saved")]
    BY <1>4 DEF SaveAllNext
  <2>3. CASE \E t \in todo : Save(Exit, DocOf[t])
    BY <1>0, <2>1, <2>3, SaveIsCalm
  <2>4. CASE flow' = flow
    BY <2>1, <2>4 DEF Calm, IInv, TypeOK
  <2>5. CASE flow' = [flow EXCEPT ![Exit] = Stage("all saved")]
    BY <1>0, <1>1, <2>1, <2>5, StageIsCalm DEF Stages
  <2> QED
    BY <2>2, <2>3, <2>4, <2>5
<1>5. ASSUME NEW tabs \in SUBSET open, NEW option, CloseMany(tabs, option) PROVE Calm
  <2>1. UNCHANGED <<open, text, disk, edits>> /\ Targets'
    BY <1>0, <1>5 DEF CloseMany, Targets
  <2>2. flow' = [flow EXCEPT ![Bulk] = Stage("closing")] \/ flow' = [flow EXCEPT ![Bulk] = Stage("confirming")]
    BY <1>5 DEF CloseMany
  <2> QED
    BY <1>0, <1>1, <2>1, <2>2, StageIsCalm DEF Stages
<1>6. CASE ConfirmAnswer
  <2>1. UNCHANGED <<open, text, disk, edits>> /\ Targets'
    BY <1>6 DEF ConfirmAnswer, IInv, TypeOK, Targets, NotMany
  <2>2. CASE Save(Bulk, flow[Bulk].doc)
    BY <1>0, <2>1, <2>2, SaveIsCalm
  <2>3. CASE flow' = [flow EXCEPT ![Bulk].stage = "reverting"] \/ flow' = [flow EXCEPT ![Bulk] = Stage("idle")]
    BY <1>0, <1>1, <2>1, <2>3, StageIsCalm DEF Stages
  <2> QED
    BY <1>6, <2>2, <2>3 DEF ConfirmAnswer, Idle
<1>7. CASE WillStop \/ StopAnswer
  <2>1. UNCHANGED <<open, text, disk, edits>> /\ Targets'
    BY <1>0, <1>7 DEF WillStop, StopAnswer, IInv, TypeOK, Targets
  <2>2. \E st \in Stages \ {"saving"} : flow' = [flow EXCEPT ![Exit] = Stage(st)]
    BY <1>7 DEF WillStop, StopAnswer, Stages, Idle
  <2> QED
    BY <1>0, <1>1, <2>1, <2>2, StageIsCalm
<1> QED
  BY <1>2, <1>3, <1>4, <1>5, <1>6, <1>7 DEF Loop

\* A save or a revert that fails.
LEMMA FailureIsCalm ==
  ASSUME IInv, NEW f \in Flows, NotSaved(f) \/ RevertThrows(f), UNCHANGED edits
  PROVE  Calm
<1>1. UNCHANGED <<open, text, disk, edits>> /\ Targets'
  BY DEF NotSaved, RevertThrows, Ended, IInv, TypeOK, Targets, NotMany
<1>2. \E st \in Stages \ {"saving"} : flow' = [flow EXCEPT ![f] = Stage(st)]
  BY DEF NotSaved, RevertThrows, Ended, GoesOn, Idle, Stages
<1>3. PICK d \in Docs : TRUE
  BY DocOfAssumption
<1> QED
  BY <1>1, <1>2, <1>3, StageIsCalm

\* What is lost was declined.
Declined ==
  \A d \in Docs : text'[d] < text[d] => \E f \in Flows : flow[f].stage = "reverting" /\ flow[f].doc = d

LEMMA CalmLosesNothing == IInv /\ Calm => Declined
BY DEF IInv, TypeOK, Calm, Declined

\* If no text is older than it was, none is lost.
LEMMA NewerLosesNothing ==
  ASSUME IInv, IInv', \A d \in Docs : text[d] <= text'[d]
  PROVE  Declined
BY DEF IInv, TypeOK, Declined

LEMMA Step == IInv /\ Next => IInv' /\ Declined
<1> SUFFICES ASSUME IInv, Next PROVE IInv' /\ Declined
  OBVIOUS
<1>1. Calm => IInv' /\ Declined
  BY CalmKeeps, CalmLosesNothing
<1>2. ASSUME NEW d \in Docs, Edit(d) PROVE IInv' /\ Declined
  BY <1>2, EditIInv, NewerLosesNothing
<1>3. ASSUME NEW f \in Flows, SaveEnds(f) PROVE IInv' /\ Declined
  <2>1. flow[f].stage = "saving" /\ InOrder(f) /\ edits' = edits
    BY <1>3 DEF SaveEnds
  <2>2. CASE Saved(f)
    BY <2>1, <2>2, SavedIInv, NewerLosesNothing
  <2>3. CASE NotSaved(f)
    BY <1>1, <2>1, <2>3, FailureIsCalm
  <2> QED
    BY <1>3, <2>2, <2>3 DEF SaveEnds
<1>4. ASSUME NEW f \in Flows, Reverted(f) PROVE IInv' /\ Declined
  <2>1. IInv' /\ \A d \in Docs : text[d] <= text'[d] \/ flow[f].doc = d
    BY <1>4, RevertedIInv
  <2>2. flow[f].stage = "reverting"
    BY <1>4 DEF Reverted
  <2> QED
    BY <2>1, <2>2 DEF IInv, TypeOK, Declined
<1>5. ASSUME NEW f \in Flows, RevertThrows(f) PROVE IInv' /\ Declined
  BY <1>1, <1>5, FailureIsCalm DEF RevertThrows
<1> QED
  BY <1>1, <1>2, <1>3, <1>4, <1>5, TabsAreCalm, BulkIsCalm DEF Next

LEMMA IInvAlways == Spec => []IInv
<1>1. IInv /\ UNCHANGED vars => IInv'
  BY DEF vars, IInv, TypeOK, InTime, SavesInOrder, Targets, Dirty
<1>2. IInv /\ [Next]_vars => IInv'
  BY <1>1, Step
<1> QED
  BY InitIInv, <1>2, PTL DEF Spec

-----------------------------------------------------------------------------
(* The theorem *)

\* What was edited and not saved is only given up where a flow reverts its document
\* because the user, or the caller, said not to save.
THEOREM LossIsDeclinedAlways == Spec => LossIsDeclined
<1>1. IInv /\ [Next]_vars => [Declined]_vars
  BY Step
<1> QED
  BY <1>1, IInvAlways, PTL DEF Spec, LossIsDeclined, Declined
=============================================================================
