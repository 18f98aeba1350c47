----------------------- MODULE ServiceConnectionProofs -----------------------
(***************************************************************************)
(* Proofs about ServiceConnection, for any number of main channels and any *)
(* set of calls: no call waits on a closed protocol, and a service is      *)
(* never left behind.                                                      *)
(***************************************************************************)
EXTENDS ServiceConnection, TLAPS

\* What the provider knows of the main channel is what there is.
ProviderInv ==
  /\ ready = mainOpen
  /\ mainOpen => main # 0
  /\ opening # {} => mainOpen
  /\ waiting => ~mainOpen
  /\ "handleChannelCreated" \in opening => installed

\* A call that was sent in time holds on to the protocol, which is that of the main
\* channel, and belongs to a path that is installed.
ProxyInv ==
  /\ ProtocolIsCurrent
  /\ protocol # 0 => installed
  /\ \A c \in Calls \ hasty : call[c] = "sent" => protocol # 0 /\ on[c] = main

\* The inductive invariant.
IInv == TypeOK /\ ProviderInv /\ ProxyInv /\ ServiceIsAccountedFor

\* It holds before anything is opened.
LEMMA InitIInv == Init => IInv
<1> SUFFICES ASSUME Init PROVE IInv
  OBVIOUS
<1>1. TypeOK
  <2>1. main \in 0..MaxMains /\ protocol \in 0..main
    BY MaxMainsAssumption DEF Init
  <2> QED
    BY <2>1 DEF Init, TypeOK
<1>2. ProviderInv /\ ProxyInv /\ ServiceIsAccountedFor
  BY DEF Init, ProviderInv, ProxyInv, ProtocolIsCurrent, ServiceIsAccountedFor
<1> QED
  BY <1>1, <1>2 DEF IInv

\* Listening to a path waits for the main channel or opens at once.
LEMMA ListenIInv == IInv /\ Listen => IInv'
<1> SUFFICES ASSUME IInv, Listen PROVE IInv'
  OBVIOUS
<1> USE DEF Listen, provider, proxy
<1>1. TypeOK'
  BY DEF IInv, TypeOK, ProviderInv, Openers
<1>2. ProviderInv'
  BY DEF IInv, TypeOK, ProviderInv, Openers
<1>3. ProxyInv'
  BY DEF IInv, TypeOK, ProviderInv, ProxyInv, ProtocolIsCurrent, Openers
<1>4. ServiceIsAccountedFor'
  BY DEF IInv, TypeOK, ProviderInv, ProxyInv, ProtocolIsCurrent, ServiceIsAccountedFor, Openers
<1> QED
  BY <1>1, <1>2, <1>3, <1>4 DEF IInv

\* A new main channel opens what waited and what is installed.
LEMMA CreatedIInv == IInv /\ HandleChannelCreated => IInv'
<1> SUFFICES ASSUME IInv, HandleChannelCreated PROVE IInv'
  OBVIOUS
<1> USE MaxMainsAssumption DEF HandleChannelCreated, Opened, provider, proxy
<1>1. TypeOK'
  <2>1. main' \in 0..MaxMains /\ protocol' \in 0..main' /\ 0..main \subseteq 0..main'
    BY DEF IInv, TypeOK
  <2>2. on' \in [Calls -> 0..main']
    BY <2>1 DEF IInv, TypeOK
  <2> QED
    BY <2>1, <2>2 DEF IInv, TypeOK, Openers
<1>2. ProviderInv'
  BY DEF IInv, TypeOK, ProviderInv, Openers
<1>3. ProxyInv'
  BY DEF IInv, TypeOK, ProviderInv, ProxyInv, ProtocolIsCurrent, Openers
<1>4. ServiceIsAccountedFor'
  BY DEF IInv, TypeOK, ProviderInv, ProxyInv, ProtocolIsCurrent, ServiceIsAccountedFor, Openers
<1> QED
  BY <1>1, <1>2, <1>3, <1>4 DEF IInv

\* The first channel that opens gives the proxy its protocol.
LEMMA OpenedIInv == ASSUME NEW o \in Openers PROVE IInv /\ ChannelOpened(o) => IInv'
<1> SUFFICES ASSUME IInv, ChannelOpened(o) PROVE IInv'
  OBVIOUS
<1> USE DEF ChannelOpened, Sent, provider, proxy
<1>1. TypeOK'
  BY DEF IInv, TypeOK, ProviderInv, Openers
<1>2. ProviderInv'
  BY DEF IInv, TypeOK, ProviderInv, Openers
<1>3. ProxyInv'
  BY DEF IInv, TypeOK, ProviderInv, ProxyInv, ProtocolIsCurrent, Openers
<1>4. ServiceIsAccountedFor'
  BY DEF IInv, TypeOK, ProviderInv, ProxyInv, ProtocolIsCurrent, ServiceIsAccountedFor, Openers
<1> QED
  BY <1>1, <1>2, <1>3, <1>4 DEF IInv

\* The close of the main channel settles the calls, or a hasty listener made them.
LEMMA ClosedIInv == IInv /\ MainChannelClosed => IInv'
<1> SUFFICES ASSUME IInv, MainChannelClosed PROVE IInv'
  OBVIOUS
<1> USE DEF MainChannelClosed, Renewed, provider, proxy
<1>1. TypeOK'
  <2>1. call' \in [Calls -> {"none", "waiting", "sent", "settled"}]
    BY DEF IInv, TypeOK
  <2>2. on' \in [Calls -> 0..main'] /\ hasty' \subseteq Calls
    BY DEF IInv, TypeOK
  <2>3. opening' \subseteq Openers /\ lost' \subseteq Openers
    BY DEF IInv, TypeOK, Openers
  <2>4. main' \in 0..MaxMains /\ protocol' \in 0..main'
    BY DEF IInv, TypeOK
  <2>5. mainOpen' \in BOOLEAN /\ ready' \in BOOLEAN /\ UNCHANGED <<listened, installed, waiting>>
    BY DEF IInv, TypeOK
  <2> QED
    BY <2>1, <2>2, <2>3, <2>4, <2>5 DEF IInv, TypeOK
<1>2. ProviderInv'
  BY DEF IInv, TypeOK, ProviderInv, Openers
<1>3. ProxyInv'
  BY DEF IInv, TypeOK, ProviderInv, ProxyInv, ProtocolIsCurrent, Openers
<1>4. ServiceIsAccountedFor'
  BY DEF IInv, TypeOK, ProviderInv, ProxyInv, ProtocolIsCurrent, ServiceIsAccountedFor, Openers
<1> QED
  BY <1>1, <1>2, <1>3, <1>4 DEF IInv

\* A call and its answer leave the connection alone.
LEMMA CallIInv == ASSUME NEW c \in Calls PROVE IInv /\ (Call(c) \/ Answered(c)) => IInv'
<1> SUFFICES ASSUME IInv, Call(c) \/ Answered(c) PROVE IInv'
  OBVIOUS
<1> USE DEF Call, Answered, provider, proxy
<1>1. TypeOK'
  BY DEF IInv, TypeOK, ProviderInv, Openers
<1>2. ProviderInv'
  BY DEF IInv, TypeOK, ProviderInv, Openers
<1>3. ProxyInv'
  BY DEF IInv, TypeOK, ProviderInv, ProxyInv, ProtocolIsCurrent, Openers
<1>4. ServiceIsAccountedFor'
  BY DEF IInv, TypeOK, ProviderInv, ProxyInv, ProtocolIsCurrent, ServiceIsAccountedFor, Openers
<1> QED
  BY <1>1, <1>2, <1>3, <1>4 DEF IInv

\* Every step preserves the invariant.
LEMMA NextIInv == IInv /\ [Next]_vars => IInv'
<1> SUFFICES ASSUME IInv, [Next]_vars PROVE IInv'
  OBVIOUS
<1>1. CASE Listen
  BY <1>1, ListenIInv
<1>2. CASE HandleChannelCreated
  BY <1>2, CreatedIInv
<1>3. CASE \E o \in Openers : ChannelOpened(o)
  BY <1>3, OpenedIInv
<1>4. CASE MainChannelClosed
  BY <1>4, ClosedIInv
<1>5. CASE \E c \in Calls : Call(c) \/ Answered(c)
  BY <1>5, CallIInv
<1>6. CASE UNCHANGED vars
  BY <1>6 DEF vars, provider, proxy, IInv, TypeOK, ProviderInv, ProxyInv, ProtocolIsCurrent, ServiceIsAccountedFor
<1> QED
  BY <1>1, <1>2, <1>3, <1>4, <1>5, <1>6 DEF Next

\* The inductive invariant holds always.
LEMMA IInvAlways == Spec => []IInv
  BY InitIInv, NextIInv, PTL DEF Spec

\* rpcDeferred of the proxy factory is never the protocol of a channel that is closed,
\* whatever main channels come and go.
THEOREM ProtocolIsCurrentAlways == Spec => [](TypeOK /\ ProtocolIsCurrent)
<1>1. IInv => TypeOK /\ ProtocolIsCurrent
  BY DEF IInv, ProxyInv
<1> QED
  BY <1>1, IInvAlways, PTL

\* A call waits for an answer over a closed channel only if a listener of
\* onDidCloseConnection made it: waitForConnection and the rejections of the protocol
\* leave no other behind.
THEOREM NoCallIsStrandedEver == Spec => []NoCallIsStranded
<1>1. IInv => NoCallIsStranded
  BY DEF IInv, ProxyInv, ProtocolIsCurrent, NoCallIsStranded
<1> QED
  BY <1>1, IInvAlways, PTL

\* handleChannelCreated leaves no service behind: on a main channel that is ready it is
\* open, about to be opened, or was lost with its very first open().
THEOREM ServiceIsAccountedForAlways == Spec => []ServiceIsAccountedFor
<1>1. IInv => ServiceIsAccountedFor
  BY DEF IInv
<1> QED
  BY <1>1, IInvAlways, PTL
=============================================================================
