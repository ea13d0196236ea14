---------------------------- MODULE NullspaceIpc ----------------------------
(***************************************************************************)
(* The client of the nullspace window manager (plugin/src/nullspace): one  *)
(* local socket that carries commands, answers and events as lines of      *)
(* text, a single-shot timer that reconnects it, and the spaces the bar    *)
(* shows.  The manager is the environment; a line travels as two halves,   *)
(* which a read may separate and a loss may cut.                           *)
(***************************************************************************)
EXTENDS Naturals, Sequences

CONSTANTS
  Space,    \* indices of the spaces
  MaxWire,  \* bound: halves of lines on the way to the client
  MaxSent   \* bound: requests on the way to the manager

ASSUME NullspaceAssumption == {0, 1} \subseteq Space

VARIABLES
  env,              \* NULLSPACE_INSTANCE_SIGNATURE is set
  mSocket,          \* state of the socket
  mConnected,       \* the available property
  mReconnectTimer,  \* the single-shot timer is armed
  mReadBuffer,      \* halves read and not yet a line
  mCurrentSpace,    \* the currentSpace property
  activeSpaces,     \* spaces whose active flag is set
  urgentSpaces,     \* spaces whose urgent flag is set
  wmUp,             \* manager: accepts connections
  peerOpen,         \* manager: holds its end of the socket
  sent,             \* requests on the way to the manager
  subscribed,       \* manager: has read SUBSCRIBE on this connection
  owed,             \* manager: what it has to report
  wire,             \* halves of lines on the way to the client
  current,          \* manager: the space that is shown
  urgent            \* manager: the urgent spaces

link == <<env, mSocket, mConnected, mReconnectTimer, wmUp, peerOpen>>
shown == <<mCurrentSpace, activeSpaces, urgentSpaces>>
manager == <<current, urgent>>
vars == <<link, shown, mReadBuffer, sent, subscribed, owed, wire, manager>>

Topic == {<<"current_space", 0>>} \cup {<<"space_urgent", s>> : s \in Space}

Line == [topic : {"current_space", "space_urgent"}, space : Space, on : BOOLEAN]

Half == [part : {"head", "tail"}, line : Line]

Request == [op : {"SUBSCRIBE", "SWITCH_SPACE"}, space : Space]

-----------------------------------------------------------------------------
(* The link: as in MangoIpc.tla, but the state of the socket is looked at   *)
(* before the signature.                                                    *)

onConnected_KeepsBuffer ==  \* mutant: no mReadBuffer.clear()
  /\ mSocket' = "connected" /\ mConnected' = TRUE /\ peerOpen' = TRUE
  /\ sent' = <<[op |-> "SUBSCRIBE", space |-> 0]>>
  /\ subscribed' = FALSE /\ owed' = {} /\ wire' = <<>>
  /\ UNCHANGED mReadBuffer

onConnected ==
  /\ mSocket' = "connected" /\ mConnected' = TRUE /\ peerOpen' = TRUE
  /\ mReadBuffer' = <<>>
  /\ sent' = <<[op |-> "SUBSCRIBE", space |-> 0]>>
  /\ subscribed' = FALSE /\ owed' = {} /\ wire' = <<>>

onErrorOccurred ==
  /\ mSocket' = "unconnected" /\ mConnected' = FALSE /\ mReconnectTimer' = TRUE
  /\ peerOpen' = FALSE /\ sent' = <<>> /\ subscribed' = FALSE /\ owed' = {} /\ wire' = <<>>
  /\ UNCHANGED mReadBuffer

Accepted == wmUp /\ onConnected /\ mReconnectTimer' = FALSE

BacklogFull ==
  /\ wmUp /\ mSocket' = "connecting" /\ mReconnectTimer' = FALSE
  /\ UNCHANGED <<mConnected, peerOpen, mReadBuffer, sent, subscribed, owed, wire>>

connectSocket ==
  \/ /\ mSocket # "unconnected" /\ mReconnectTimer' = FALSE
     /\ UNCHANGED <<mSocket, mConnected, peerOpen, mReadBuffer, sent, subscribed, owed, wire>>
  \/ /\ mSocket = "unconnected" /\ ~env /\ mReconnectTimer' = TRUE
     /\ UNCHANGED <<mSocket, mConnected, peerOpen, mReadBuffer, sent, subscribed, owed, wire>>
  \/ /\ mSocket = "unconnected" /\ env
     /\ Accepted \/ BacklogFull \/ onErrorOccurred

tryReconnect ==
  /\ mReconnectTimer
  /\ connectSocket
  /\ UNCHANGED <<env, wmUp, shown, manager>>

ConnectingEnds ==
  /\ mSocket = "connecting"
  /\ Accepted \/ onErrorOccurred
  /\ UNCHANGED <<env, wmUp, shown, manager>>

onDisconnected_NoTimer ==  \* mutant: the timer is left to onErrorOccurred
  /\ mSocket = "connected" /\ ~peerOpen /\ wire = <<>>
  /\ mSocket' = "unconnected" /\ mConnected' = FALSE
  /\ UNCHANGED <<mReconnectTimer, env, wmUp, peerOpen, shown, mReadBuffer, sent, subscribed, owed, wire, manager>>

\* What the manager sent before it closed is read first.
onDisconnected ==
  /\ mSocket = "connected" /\ ~peerOpen /\ wire = <<>>
  /\ mSocket' = "unconnected" /\ mConnected' = FALSE /\ mReconnectTimer' = TRUE
  /\ UNCHANGED <<env, wmUp, peerOpen, shown, mReadBuffer, sent, subscribed, owed, wire, manager>>

SocketFails ==
  /\ mSocket = "connected"
  /\ onErrorOccurred
  /\ UNCHANGED <<env, wmUp, shown, manager>>

-----------------------------------------------------------------------------
(* Events.  processLine answers only to the lines of an event; the lines    *)
(* that acknowledge a request change nothing.                               *)

setActiveSpace_KeepsOld(s) ==  \* mutant: the flags of the other spaces stay
  IF s = mCurrentSpace THEN UNCHANGED <<mCurrentSpace, activeSpaces>>
  ELSE mCurrentSpace' = s /\ activeSpaces' = activeSpaces \cup {s}

setActiveSpace(s) ==
  IF s = mCurrentSpace THEN UNCHANGED <<mCurrentSpace, activeSpaces>>
  ELSE mCurrentSpace' = s /\ activeSpaces' = {s}

onEventReceived(l) ==
  \/ /\ l.topic = "current_space"
     /\ setActiveSpace(l.space)
     /\ UNCHANGED urgentSpaces
  \/ /\ l.topic = "space_urgent"
     /\ urgentSpaces' = IF l.on THEN urgentSpaces \cup {l.space} ELSE urgentSpaces \ {l.space}
     /\ UNCHANGED <<mCurrentSpace, activeSpaces>>

\* A tail completes the line only with the head before it; anything else is
\* a line the client cannot make sense of.
onReadyRead ==
  /\ mSocket = "connected" /\ wire # <<>>
  /\ wire' = Tail(wire)
  /\ UNCHANGED <<link, sent, subscribed, owed, manager>>
  /\ LET half == Head(wire) IN
       IF half.part = "head"
       THEN mReadBuffer' = Append(mReadBuffer, half) /\ UNCHANGED shown
       ELSE /\ mReadBuffer' = <<>>
            /\ IF mReadBuffer = <<[half EXCEPT !.part = "head"]>>
               THEN onEventReceived(half.line)
               ELSE UNCHANGED shown

switchSpace(s) ==
  /\ Len(sent) < MaxSent
  /\ sent' = IF mConnected /\ peerOpen
             THEN Append(sent, [op |-> "SWITCH_SPACE", space |-> s]) ELSE sent
  /\ UNCHANGED <<link, shown, mReadBuffer, subscribed, owed, wire, manager>>

-----------------------------------------------------------------------------
(* The manager.  A subscriber is told everything at first, then what        *)
(* changes; the line says how things stand when it is written.              *)

ReadsRequest ==
  /\ peerOpen /\ sent # <<>> /\ sent' = Tail(sent)
  /\ LET r == Head(sent) IN
       \/ /\ r.op = "SUBSCRIBE"
          /\ subscribed' = TRUE /\ owed' = Topic
          /\ UNCHANGED current
       \/ /\ r.op = "SWITCH_SPACE"
          /\ current' = r.space
          /\ owed' = IF subscribed THEN owed \cup {<<"current_space", 0>>} ELSE owed
          /\ UNCHANGED subscribed
  /\ UNCHANGED <<link, shown, mReadBuffer, wire, urgent>>

LineAbout(t) ==
  IF t[1] = "current_space" THEN [topic |-> t[1], space |-> current, on |-> TRUE]
  ELSE [topic |-> t[1], space |-> t[2], on |-> t[2] \in urgent]

Reports(t) ==
  /\ peerOpen /\ t \in owed /\ Len(wire) + 2 <= MaxWire
  /\ owed' = owed \ {t}
  /\ wire' = wire \o <<[part |-> "head", line |-> LineAbout(t)],
                       [part |-> "tail", line |-> LineAbout(t)]>>
  /\ UNCHANGED <<link, shown, mReadBuffer, sent, subscribed, manager>>

UserSwitches(s) ==
  /\ current' = s
  /\ owed' = IF subscribed THEN owed \cup {<<"current_space", 0>>} ELSE owed
  /\ UNCHANGED <<link, shown, mReadBuffer, sent, subscribed, wire, urgent>>

Urgency(s) ==
  /\ urgent' = IF s \in urgent THEN urgent \ {s} ELSE urgent \cup {s}
  /\ owed' = IF subscribed THEN owed \cup {<<"space_urgent", s>>} ELSE owed
  /\ UNCHANGED <<link, shown, mReadBuffer, sent, subscribed, wire, current>>

\* The manager closes the socket, stopping or not; its last line may be cut.
Closes ==
  /\ peerOpen /\ peerOpen' = FALSE
  /\ wmUp' \in {wmUp, FALSE}
  /\ sent' = <<>> /\ subscribed' = FALSE /\ owed' = {}
  /\ wire' \in {wire} \cup {SubSeq(wire, 1, Len(wire) - 1) : i \in {1} \cap 1..Len(wire)}
  /\ UNCHANGED <<env, mSocket, mConnected, mReconnectTimer, shown, mReadBuffer, manager>>

ManagerToggles ==
  /\ ~peerOpen /\ wmUp' = ~wmUp
  /\ UNCHANGED <<env, mSocket, mConnected, mReconnectTimer, peerOpen, shown, mReadBuffer, sent,
                 subscribed, owed, wire, manager>>

-----------------------------------------------------------------------------
(* The constructor marks space 1 active, while the current space is 0.      *)

ManagerInit == current \in Space /\ urgent = {}

Blank ==
  /\ mReadBuffer = <<>> /\ mCurrentSpace = 0 /\ activeSpaces = {1} /\ urgentSpaces = {}
  /\ subscribed = FALSE /\ owed = {} /\ wire = <<>>

Init ==
  /\ env \in BOOLEAN /\ wmUp \in BOOLEAN
  /\ Blank /\ ManagerInit
  /\ \/ /\ env /\ wmUp /\ mSocket = "connected" /\ mConnected = TRUE /\ mReconnectTimer = FALSE
        /\ peerOpen = TRUE /\ sent = <<[op |-> "SUBSCRIBE", space |-> 0]>>
     \/ /\ env /\ wmUp /\ mSocket = "connecting" /\ mConnected = FALSE /\ mReconnectTimer = FALSE
        /\ peerOpen = FALSE /\ sent = <<>>
     \/ /\ mSocket = "unconnected" /\ mConnected = FALSE /\ mReconnectTimer = TRUE
        /\ peerOpen = FALSE /\ sent = <<>>

Client ==
  \/ tryReconnect \/ ConnectingEnds \/ onDisconnected \/ SocketFails \/ onReadyRead
  \/ \E s \in Space : switchSpace(s)

Manager ==
  \/ ReadsRequest \/ Closes \/ ManagerToggles
  \/ \E t \in Topic : Reports(t)
  \/ \E s \in Space : UserSwitches(s) \/ Urgency(s)

Next == Client \/ Manager

Spec == Init /\ [][Next]_vars

(* As in MangoIpc.tla.                                                      *)
FairSpec ==
  /\ Spec
  /\ WF_vars(onDisconnected)
  /\ WF_vars(onReadyRead)
  /\ WF_vars(ConnectingEnds)
  /\ SF_vars(tryReconnect /\ mConnected')

-----------------------------------------------------------------------------
(* Properties *)

\* Every variable has the type of its member in ipc.hpp, qml.hpp and space.hpp.
TypeOK ==
  /\ env \in BOOLEAN /\ mConnected \in BOOLEAN /\ mReconnectTimer \in BOOLEAN
  /\ mSocket \in {"unconnected", "connecting", "connected"}
  /\ wmUp \in BOOLEAN /\ peerOpen \in BOOLEAN /\ subscribed \in BOOLEAN
  /\ mReadBuffer \in Seq(Half) /\ wire \in Seq(Half)
  /\ mCurrentSpace \in Space /\ activeSpaces \in SUBSET Space /\ urgentSpaces \in SUBSET Space
  /\ sent \in Seq(Request) /\ owed \in SUBSET Topic
  /\ current \in Space /\ urgent \in SUBSET Space

\* As in MangoIpc.tla: the client is connected, trying, or has armed its timer.
OneWayForward ==
  /\ mConnected = (mSocket = "connected")
  /\ mReconnectTimer = (mSocket = "unconnected")
  /\ peerOpen => mConnected /\ wmUp

\* The client is a link that is retried until it is up (RetryLink.tla): no
\* handler of the socket leaves it without its timer or an attempt, and where
\* the manager is reachable again and again, so is the client connected.
Link == INSTANCE RetryLink WITH
  phase     <- IF mConnected THEN "up"
               ELSE IF mReconnectTimer \/ mSocket = "connecting" THEN "retrying" ELSE "idle",
  reachable <- env /\ wmUp

ImplementsLink == Link!FairSpec

\* A manager that stays reachable is found again, however the link was lost.
Reconnects == ~mConnected ~> (mConnected \/ ~env \/ ~wmUp)

\* No line is ever put together from pieces of two connections: what is
\* buffered and what is under way are whole lines, except for a last head
\* once the manager has closed (ipc.cpp:105, 136-145).
WellFramed ==
  mSocket = "connected" =>
    LET bytes == mReadBuffer \o wire IN
      /\ \A i \in 1..Len(bytes) : bytes[i].part = IF i % 2 = 1 THEN "head" ELSE "tail"
      /\ \A i \in 1..Len(bytes) - 1 : i % 2 = 1 => bytes[i].line = bytes[i + 1].line

\* Once everything is read, the bar shows the manager's space and urgent
\* flags, over cut lines and reconnections.  The exception is the code's: the
\* space marked at the start stays marked while the manager shows space 0
\* (qml.cpp:49 and 229).
SpacesAgree ==
  mConnected /\ peerOpen /\ subscribed /\ owed = {} /\ wire = <<>> =>
    /\ mCurrentSpace = current
    /\ urgentSpaces = urgent
    /\ activeSpaces = {current} \/ (current = 0 /\ activeSpaces = {1})
=============================================================================
