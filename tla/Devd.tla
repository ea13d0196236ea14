-------------------------------- MODULE Devd --------------------------------
(***************************************************************************)
(* The devd client (plugin/src/devd): one SOCK_SEQPACKET connection to     *)
(* /var/run/devd.seqpacket.pipe, read by a QSocketNotifier, and a          *)
(* repeating timer that reconnects once a connection was lost.  Every      *)
(* action of the client is one callback of the Qt event loop, which runs   *)
(* to completion.  The daemon's end of the socket is the environment.      *)
(***************************************************************************)
EXTENDS Naturals, Sequences, FiniteSets

CONSTANTS
  Event,     \* what a datagram says
  Fd,        \* descriptors of the process
  NoFd,      \* the value -1 of mFd
  MaxInbox   \* datagrams the socket buffer holds before devd drops the client

ASSUME DevdAssumption == NoFd \notin Fd /\ Fd # {} /\ MaxInbox \in Nat

VARIABLES
  mFd,              \* descriptor of the connection, or NoFd
  mNotifier,        \* read notifier: "null", "enabled" or "disabled"
  mConnected,       \* the connected property
  mReconnectTimer,  \* "null" until first needed, then "stopped" or "active"
  openFds,          \* kernel: descriptors this client holds open
  devdUp,           \* kernel: devd listens on its pipe
  peerOpen,         \* kernel: devd still holds its end of our connection
  inbox             \* kernel: datagrams queued on our connection

client == <<mFd, mNotifier, mConnected, mReconnectTimer, openFds>>
vars == <<mFd, mNotifier, mConnected, mReconnectTimer, openFds, devdUp, peerOpen, inbox>>

-----------------------------------------------------------------------------
(* connectToDevd: socket() and connect() may each fail; a descriptor whose  *)
(* connect() failed is closed again.                                        *)

SocketFails ==
  UNCHANGED <<mFd, mNotifier, mConnected, openFds, peerOpen, inbox>>

ConnectFails_LeaksFd ==  \* mutant: no close(fd) before the return
  /\ \E fd \in Fd \ openFds : openFds' = openFds \cup {fd}
  /\ UNCHANGED <<mFd, mNotifier, mConnected, peerOpen, inbox>>

ConnectFails ==
  /\ openFds # Fd
  /\ UNCHANGED <<mFd, mNotifier, mConnected, openFds, peerOpen, inbox>>

ConnectSucceeds ==
  /\ devdUp
  /\ \E fd \in Fd \ openFds :
       /\ mFd' = fd
       /\ openFds' = openFds \cup {fd}
  /\ mNotifier' = "enabled"
  /\ mConnected' = TRUE
  /\ peerOpen' = TRUE
  /\ inbox' = <<>>

connectToDevd ==
  \/ mConnected /\ UNCHANGED <<mFd, mNotifier, mConnected, openFds, peerOpen, inbox>>
  \/ ~mConnected /\ (SocketFails \/ ConnectFails \/ ConnectSucceeds)

attemptReconnect_SingleShot ==  \* mutant: the timer is not repeating
  /\ mReconnectTimer = "active"
  /\ connectToDevd
  /\ mReconnectTimer' = "stopped"
  /\ UNCHANGED devdUp

attemptReconnect ==
  /\ mReconnectTimer = "active"
  /\ connectToDevd
  /\ mReconnectTimer' = IF mConnected' THEN "stopped" ELSE mReconnectTimer
  /\ UNCHANGED devdUp

-----------------------------------------------------------------------------
(* cleanup deletes the notifier, closes the descriptor, clears mConnected  *)
(* and stops the timer; scheduleReconnect then creates or restarts it.      *)

StopTimer(timer) == IF timer = "null" THEN "null" ELSE "stopped"

scheduleReconnect(timer) == "active"

ReleaseConnection_KeepsFd ==  \* mutant: mFd is not reset after close()
  /\ mNotifier' = "null"
  /\ openFds' = openFds \ {mFd}
  /\ mConnected' = FALSE
  /\ peerOpen' = FALSE
  /\ inbox' = <<>>
  /\ UNCHANGED mFd

ReleaseConnection ==
  /\ mNotifier' = "null"
  /\ mFd' = NoFd
  /\ openFds' = openFds \ {mFd}
  /\ mConnected' = FALSE
  /\ peerOpen' = FALSE
  /\ inbox' = <<>>

onDisconnected_CleanupLast ==  \* mutant: scheduleReconnect before cleanup
  /\ ReleaseConnection
  /\ mReconnectTimer' = StopTimer(scheduleReconnect(mReconnectTimer))

onDisconnected ==
  /\ ReleaseConnection
  /\ mReconnectTimer' = scheduleReconnect(StopTimer(mReconnectTimer))

(* onSocketActivated: one recv() per activation.  The notifier is disabled *)
(* during the read and enabled again at the end, if it still exists; a      *)
(* spurious activation (EAGAIN) changes nothing and is a stuttering step.   *)

Activated == mNotifier = "enabled" /\ mFd \in openFds

ReceiveEvent(e) ==
  /\ Activated
  /\ inbox # <<>> /\ e = Head(inbox)
  /\ inbox' = Tail(inbox)
  /\ mNotifier' = "enabled"
  /\ UNCHANGED <<mFd, mConnected, mReconnectTimer, openFds, devdUp, peerOpen>>

ReceiveEof ==
  /\ Activated
  /\ inbox = <<>> /\ ~peerOpen
  /\ onDisconnected
  /\ UNCHANGED devdUp

ReceiveError ==
  /\ Activated
  /\ onDisconnected
  /\ UNCHANGED devdUp

-----------------------------------------------------------------------------
(* The daemon.  Datagrams published while nobody is connected are lost; a   *)
(* client whose socket buffer is full is dropped.                           *)

Listening == mConnected /\ peerOpen

Publish(e) ==
  /\ devdUp
  /\ \/ ~Listening /\ UNCHANGED <<inbox, peerOpen>>
     \/ Listening /\ Len(inbox) < MaxInbox /\ inbox' = Append(inbox, e) /\ UNCHANGED peerOpen
     \/ Listening /\ Len(inbox) = MaxInbox /\ peerOpen' = FALSE /\ UNCHANGED inbox
  /\ UNCHANGED <<client, devdUp>>

DevdStarts ==
  /\ ~devdUp /\ devdUp' = TRUE
  /\ UNCHANGED <<client, peerOpen, inbox>>

DevdStops ==
  /\ devdUp /\ devdUp' = FALSE
  /\ peerOpen' = FALSE
  /\ UNCHANGED <<client, inbox>>

-----------------------------------------------------------------------------
(* The constructor calls connectToDevd once, whatever the outcome.          *)

Init ==
  /\ mReconnectTimer = "null"
  /\ devdUp \in BOOLEAN
  /\ inbox = <<>>
  /\ \/ /\ mFd = NoFd /\ mNotifier = "null" /\ mConnected = FALSE
        /\ openFds = {} /\ peerOpen = FALSE
     \/ /\ devdUp /\ mFd \in Fd /\ mNotifier = "enabled" /\ mConnected = TRUE
        /\ openFds = {mFd} /\ peerOpen = TRUE

Client == attemptReconnect \/ ReceiveEof \/ ReceiveError \/ \E e \in Event : ReceiveEvent(e)

Daemon == DevdStarts \/ DevdStops \/ \E e \in Event : Publish(e)

Next == Client \/ Daemon

Spec == Init /\ [][Next]_vars

(* The event loop serves a readable socket and an expired timer.  A retry   *)
(* that is made again and again while devd listens is not refused for ever. *)
FairSpec ==
  /\ Spec
  /\ WF_vars(ReceiveEof)
  /\ \A e \in Event : WF_vars(ReceiveEvent(e))
  /\ SF_vars(attemptReconnect /\ mConnected')

-----------------------------------------------------------------------------
(* Properties *)

\* Every variable has the type its member has in devd.hpp, and mFd is never a
\* descriptor that was closed.
TypeOK ==
  /\ mFd \in openFds \cup {NoFd}
  /\ mNotifier \in {"null", "enabled", "disabled"}
  /\ mConnected \in BOOLEAN
  /\ mReconnectTimer \in {"null", "stopped", "active"}
  /\ openFds \in SUBSET Fd
  /\ devdUp \in BOOLEAN
  /\ peerOpen \in BOOLEAN
  /\ inbox \in Seq(Event)

\* Between callbacks the descriptor, the notifier, the connected property and
\* the timer tell one story: a connected client listens and does not retry, a
\* disconnected one holds no descriptor and no notifier, and no descriptor
\* leaks over any sequence of losses and failed reconnects.
ResourcesAgree ==
  /\ mConnected  => mFd # NoFd /\ mNotifier = "enabled" /\ mReconnectTimer # "active"
  /\ ~mConnected => mFd = NoFd /\ mNotifier = "null"    /\ mReconnectTimer # "stopped"
  /\ openFds = {mFd} \ {NoFd}

\* The client is a link that is retried once lost (RetryLink.tla): a client
\* that was ever connected is connected or has its timer running, and where
\* devd listens again and again, the client is connected again and again.
Link == INSTANCE RetryLink WITH
  phase     <- IF mConnected THEN "up"
               ELSE IF mReconnectTimer = "active" THEN "retrying" ELSE "idle",
  reachable <- devdUp

ImplementsLink == Link!FairSpec

\* A connection that is lost comes back whenever devd listens for long enough:
\* either devd keeps going away or the client is connected again and again.
Reconnects == (mReconnectTimer = "active") ~> (mConnected \/ ~devdUp)
=============================================================================
