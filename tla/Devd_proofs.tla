---------------------------- MODULE Devd_proofs ----------------------------
(***************************************************************************)
(* Proofs about the devd client: its resources agree between callbacks and  *)
(* it implements the retried link, fairness included.                       *)
(***************************************************************************)
EXTENDS Devd, TLAPS

(* ResourcesAgree is inductive together with the types: a reconnect finds   *)
(* no descriptor open because a disconnected client holds none.             *)
IInv == TypeOK /\ ResourcesAgree

(* A new client holds the descriptor of its connection, or nothing.         *)
LEMMA InitIInv == Init => IInv
<1> SUFFICES ASSUME Init PROVE IInv
  OBVIOUS
<1>1. openFds = {mFd} \ {NoFd} /\ mFd \in openFds \cup {NoFd} /\ openFds \in SUBSET Fd
  BY DevdAssumption DEF DevdAssumption, Init
<1>2. inbox \in Seq(Event)
  BY DEF Init
<1>3. TypeOK
  BY <1>1, <1>2 DEF Init, TypeOK
<1>4. ResourcesAgree
  BY <1>1, DevdAssumption DEF DevdAssumption, Init, ResourcesAgree
<1> QED
  BY <1>3, <1>4 DEF IInv

(* A lost connection releases the descriptor and starts the timer.          *)
LEMMA LostConnection ==
  ASSUME IInv, onDisconnected, UNCHANGED devdUp
  PROVE  IInv'
<1>1. openFds' = {} /\ mFd' = NoFd /\ mNotifier' = "null" /\ mConnected' = FALSE
      /\ mReconnectTimer' = "active" /\ peerOpen' = FALSE /\ inbox' = <<>>
  BY DEF IInv, ResourcesAgree, onDisconnected, ReleaseConnection, scheduleReconnect
<1>2. TypeOK'
  <2>1. inbox' \in Seq(Event) /\ openFds' \in SUBSET Fd /\ devdUp' \in BOOLEAN
    BY <1>1 DEF IInv, TypeOK
  <2> QED
    BY <1>1, <2>1 DEF TypeOK
<1>3. ResourcesAgree'
  BY <1>1 DEF ResourcesAgree
<1> QED
  BY <1>2, <1>3 DEF IInv

(* A reconnect that succeeds opens the only descriptor.                     *)
LEMMA Reconnected ==
  ASSUME IInv, attemptReconnect
  PROVE  IInv'
<1>1. mReconnectTimer = "active" /\ ~mConnected /\ mFd = NoFd /\ mNotifier = "null" /\ openFds = {}
  BY DEF IInv, ResourcesAgree, TypeOK, attemptReconnect
<1>2. CASE ConnectSucceeds
  <2>1. PICK fd \in Fd : mFd' = fd /\ openFds' = {fd}
    BY <1>1, <1>2 DEF ConnectSucceeds
  <2>2. openFds' = {mFd'} \ {NoFd} /\ mFd' \in openFds' /\ mFd' # NoFd
    BY <2>1, DevdAssumption DEF DevdAssumption
  <2>3. mNotifier' = "enabled" /\ mConnected' = TRUE /\ mReconnectTimer' = "stopped"
        /\ peerOpen' = TRUE /\ inbox' = <<>> /\ devdUp' = devdUp
    BY <1>2 DEF ConnectSucceeds, attemptReconnect
  <2>4. TypeOK'
    BY <2>1, <2>2, <2>3 DEF IInv, TypeOK
  <2>5. ResourcesAgree'
    BY <2>2, <2>3 DEF ResourcesAgree
  <2> QED
    BY <2>4, <2>5 DEF IInv
<1>3. CASE SocketFails \/ ConnectFails
  <2>1. UNCHANGED vars
    BY <1>1, <1>3 DEF SocketFails, ConnectFails, attemptReconnect, vars
  <2> QED
    BY <2>1 DEF IInv, TypeOK, ResourcesAgree, vars
<1> QED
  BY <1>1, <1>2, <1>3 DEF attemptReconnect, connectToDevd

(* Every step of the client and of devd keeps the invariant.                *)
LEMMA NextIInv == IInv /\ [Next]_vars => IInv'
<1> SUFFICES ASSUME IInv, [Next]_vars PROVE IInv'
  OBVIOUS
<1>1. CASE attemptReconnect
  BY <1>1, Reconnected
<1>2. CASE ReceiveEof \/ ReceiveError
  BY <1>2, LostConnection DEF ReceiveEof, ReceiveError
<1>3. ASSUME NEW e \in Event, ReceiveEvent(e) PROVE IInv'
  <2>1. inbox' \in Seq(Event)
    BY <1>3 DEF ReceiveEvent, IInv, TypeOK
  <2>2. UNCHANGED <<mFd, mNotifier, mConnected, mReconnectTimer, openFds, devdUp, peerOpen>>
    BY <1>3 DEF ReceiveEvent, Activated
  <2> QED
    BY <2>1, <2>2 DEF IInv, TypeOK, ResourcesAgree
<1>4. ASSUME NEW e \in Event, Publish(e) PROVE IInv'
  <2>1. inbox \in Seq(Event) /\ peerOpen \in BOOLEAN
    BY DEF IInv, TypeOK
  <2>2. inbox' \in Seq(Event)
    <3>1. Append(inbox, e) \in Seq(Event)
      BY <2>1
    <3> QED
      BY <1>4, <2>1, <3>1, Zenon DEF Publish
  <2>3. peerOpen' \in BOOLEAN
    BY <1>4, <2>1, Zenon DEF Publish
  <2>4. UNCHANGED client /\ devdUp' = devdUp
    BY <1>4 DEF Publish
  <2> QED
    BY <2>2, <2>3, <2>4 DEF client, IInv, TypeOK, ResourcesAgree
<1>5. CASE DevdStarts \/ DevdStops
  <2>1. UNCHANGED client /\ inbox' = inbox
    BY <1>5 DEF DevdStarts, DevdStops
  <2>2. devdUp' \in BOOLEAN /\ peerOpen' \in BOOLEAN
    BY <1>5 DEF DevdStarts, DevdStops, IInv, TypeOK
  <2> QED
    BY <2>1, <2>2 DEF client, IInv, TypeOK, ResourcesAgree
<1>6. CASE UNCHANGED vars
  BY <1>6 DEF vars, IInv, TypeOK, ResourcesAgree
<1> QED
  BY <1>1, <1>2, <1>3, <1>4, <1>5, <1>6 DEF Next, Client, Daemon

(* Every variable keeps its type, and mFd is never a closed descriptor.     *)
THEOREM TypeCorrect == Spec => []TypeOK
<1>1. IInv => TypeOK
  BY DEF IInv
<1> QED BY InitIInv, NextIInv, <1>1, PTL DEF Spec

(* Between callbacks the descriptor, the notifier, the connected property   *)
(* and the timer agree, and no descriptor leaks (onDisconnected, cleanup,   *)
(* connectToDevd).                                                          *)
THEOREM ResourcesStayInAgreement == Spec => []ResourcesAgree
<1>1. IInv => ResourcesAgree
  BY DEF IInv
<1> QED BY InitIInv, NextIInv, <1>1, PTL DEF Spec

-----------------------------------------------------------------------------
(* A new client is a link that is up or idle.                               *)
LEMMA InitLink == Init => Link!Init
  BY DEF Init, Link!Init, Link!Phase

(* Every step is a step of the link, or stutters on it.                     *)
LEMMA StepLink == IInv /\ [Next]_vars => [Link!Next]_Link!vars
<1> SUFFICES ASSUME IInv, [Next]_vars PROVE [Link!Next]_Link!vars
  OBVIOUS
<1> USE DEF IInv, TypeOK, ResourcesAgree, Link!Next, Link!vars
<1>1. CASE attemptReconnect
  BY <1>1 DEF attemptReconnect, connectToDevd, SocketFails, ConnectFails, ConnectSucceeds,
              Link!Establish, Link!Retriable
<1>2. CASE ReceiveEof \/ ReceiveError
  <2>1. mConnected
    BY <1>2 DEF ReceiveEof, ReceiveError, Activated
  <2>2. ~mConnected' /\ mReconnectTimer' = "active" /\ devdUp' = devdUp
    BY <1>2 DEF ReceiveEof, ReceiveError, onDisconnected, ReleaseConnection, scheduleReconnect
  <2> QED BY <2>1, <2>2 DEF Link!Lose
<1>3. ASSUME NEW e \in Event, ReceiveEvent(e) PROVE UNCHANGED Link!vars
  BY <1>3 DEF ReceiveEvent
<1>4. ASSUME NEW e \in Event, Publish(e) PROVE UNCHANGED Link!vars
  BY <1>4 DEF Publish, client
<1>5. CASE DevdStarts \/ DevdStops
  <2>1. UNCHANGED <<mConnected, mReconnectTimer>>
    BY <1>5 DEF DevdStarts, DevdStops, client
  <2>2. devdUp' = ~devdUp
    BY <1>5, Zenon DEF DevdStarts, DevdStops
  <2> QED
    BY <2>1, <2>2, Zenon DEF Link!DaemonChanges
<1>6. CASE UNCHANGED vars
  BY <1>6 DEF vars
<1> QED
  BY <1>1, <1>2, <1>3, <1>4, <1>5, <1>6 DEF Next, Client, Daemon

\* A client that was ever connected is connected or retries: every callback of
\* devd.cpp is a step of the retried link or leaves it alone.
THEOREM LinkImplemented == Spec => Link!Spec
  BY InitIInv, NextIInv, InitLink, StepLink, PTL DEF Spec, Link!Spec

-----------------------------------------------------------------------------
(* Liveness.  The provers cannot look into ENABLED.  What the theorems need  *)
(* to know of it is a hypothesis: the timer of a client that has a free     *)
(* descriptor can be served with success while devd listens.  That there is *)
(* one is proved: no lost connection and no failed attempt leaks it.        *)

RetryReady ==
  mReconnectTimer = "active" /\ devdUp /\ openFds # Fd => ENABLED <<attemptReconnect /\ mConnected'>>_vars

(* A retry that succeeds establishes the link.                              *)
LEMMA RetryEstablishes ==
  IInv /\ <<attemptReconnect /\ mConnected'>>_vars => <<Link!Establish>>_Link!vars
  BY DEF IInv, TypeOK, ResourcesAgree, attemptReconnect, connectToDevd, SocketFails, ConnectFails,
         ConnectSucceeds, Link!Establish, Link!Retriable, Link!vars

\* The client is a link that is retried until it is up, even if devd is only
\* there from time to time: connectToDevd leaves the timer running unless it
\* succeeded and no callback but onDisconnected touches it, so FairSpec serves
\* it with success if devd is there again and again.
THEOREM FairLinkImplemented == FairSpec /\ []RetryReady => ImplementsLink
<1>1. Spec => []IInv
  BY InitIInv, NextIInv, PTL DEF Spec
<1>2. IInv /\ RetryReady /\ Link!Retriable => ENABLED <<attemptReconnect /\ mConnected'>>_vars
  BY DevdAssumption DEF RetryReady, IInv, ResourcesAgree, Link!Retriable
<1>3. FairSpec /\ []RetryReady => Link!Retried
  BY <1>1, <1>2, RetryEstablishes, PTL DEF FairSpec, Link!Retried
<1> QED
  BY <1>3, LinkImplemented, PTL DEF FairSpec, ImplementsLink, Link!FairSpec

(* A link that is being retried and reachable stays so until it is up.      *)
LEMMA RetriableKeeps ==
  Link!Retriable /\ [Link!Next]_Link!vars => \/ Link!Retriable' \/ ~devdUp'
                                             \/ <<Link!Establish>>_Link!vars
  BY DEF Link!Retriable, Link!Next, Link!Lose, Link!Establish, Link!DaemonChanges, Link!vars

\* A client that lost its connection is connected again, or devd goes away,
\* however often attempts fail: the link promises it.
THEOREM ConnectsAgain == FairSpec /\ []RetryReady => Reconnects
<1>1. Spec => []IInv
  BY InitIInv, NextIInv, PTL DEF Spec
<1>2. IInv /\ mReconnectTimer = "active" /\ devdUp => Link!Retriable
  BY DEF IInv, ResourcesAgree, Link!Retriable
<1>3. IInv' /\ <<Link!Establish>>_Link!vars => mConnected'
  BY DEF IInv, TypeOK, Link!Establish, Link!Retriable
<1> QED
  BY <1>1, <1>2, <1>3, RetriableKeeps, FairLinkImplemented, PTL
     DEF FairSpec, Reconnects, ImplementsLink, Link!FairSpec, Link!Spec, Link!Retried
=============================================================================
