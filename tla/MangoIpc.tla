------------------------------ MODULE MangoIpc ------------------------------
(***************************************************************************)
(* The client of the mango window manager (plugin/src/mango): one local    *)
(* socket that watches the monitors, a single-shot timer that reconnects   *)
(* it, the outputs shown by the bar, and commands that each travel on a    *)
(* socket of their own.  The window manager and the screens are the        *)
(* environment.  The number of tags is fixed, as it is in the manager:     *)
(* every output is created with all of them.                               *)
(***************************************************************************)
EXTENDS Naturals, Sequences, FiniteSets, Bags

CONSTANTS
  Output,     \* names of outputs
  Tag,        \* tags of an output
  UrgentTag,  \* bound: tags on which a window may ask for attention
  MaxWire,    \* bound: messages between the manager and the client
  MaxFlight,  \* bound: messages and commands between them together
  MaxScreens  \* bound: screen events Qt has not delivered

ASSUME MangoAssumption == Tag # {} /\ IsFiniteSet(Tag) /\ UrgentTag \subseteq Tag

VARIABLES
  env,              \* MANGO_INSTANCE_SIGNATURE is set
  mSocket,          \* state of the watching socket
  mConnected,       \* the available property
  mReconnectTimer,  \* the single-shot timer is armed
  mOutputs,         \* outputs the bar shows
  active,           \* the active flags of their tags
  told,             \* history: outputs whose flags come from a message
  screenQ,          \* Qt: screen events not delivered yet
  wmUp,             \* manager: accepts connections
  peerOpen,         \* manager: holds its end of the watching socket
  asked,            \* "watch" sent and not read yet
  wire,             \* messages on the way to the client
  monitors,         \* manager: its outputs
  tagset,           \* manager: viewed tags of each output
  urgent,           \* manager: urgent tags of each output
  cmds,             \* commands on sockets of their own, in no order
  goal              \* history: tags to be viewed, of an output asked on fresh flags

link == <<env, mSocket, mConnected, mReconnectTimer, wmUp, peerOpen, asked>>
shown == <<mOutputs, active, told, screenQ>>
manager == <<monitors, tagset, urgent>>
vars == <<link, shown, wire, manager, cmds, goal>>

Message == UNION {[S -> [tags : SUBSET Tag, urgent : SUBSET Tag]] : S \in SUBSET Output}

-----------------------------------------------------------------------------
(* The link.  connectToServer on a local socket answers at once, unless     *)
(* the manager's backlog is full, when Qt tries again later.                *)

onSocketConnected_NoWatch ==  \* mutant: nothing is watched
  /\ mSocket' = "connected" /\ mConnected' = TRUE
  /\ peerOpen' = TRUE /\ asked' = FALSE /\ wire' = <<>>

onSocketConnected ==
  /\ mSocket' = "connected" /\ mConnected' = TRUE
  /\ peerOpen' = TRUE /\ asked' = TRUE /\ wire' = <<>>

onSocketErrorOccurred_NoTimer ==  \* mutant: errors are left to onSocketDisconnected
  /\ mSocket' = "unconnected" /\ mConnected' = FALSE
  /\ peerOpen' = FALSE /\ asked' = FALSE /\ wire' = <<>>
  /\ UNCHANGED mReconnectTimer

onSocketErrorOccurred ==
  /\ mSocket' = "unconnected" /\ mConnected' = FALSE /\ mReconnectTimer' = TRUE
  /\ peerOpen' = FALSE /\ asked' = FALSE /\ wire' = <<>>

Accepted == wmUp /\ onSocketConnected /\ mReconnectTimer' = FALSE

BacklogFull ==
  /\ wmUp /\ mSocket' = "connecting" /\ mReconnectTimer' = FALSE
  /\ UNCHANGED <<mConnected, peerOpen, asked, wire>>

\* The timer that called connectSocket has expired: it is armed again only if
\* the signature is missing or the attempt fails.
connectSocket ==
  \/ /\ ~env /\ mReconnectTimer' = TRUE
     /\ UNCHANGED <<mSocket, mConnected, peerOpen, asked, wire>>
  \/ /\ env /\ mSocket # "unconnected" /\ mReconnectTimer' = FALSE
     /\ UNCHANGED <<mSocket, mConnected, peerOpen, asked, wire>>
  \/ /\ env /\ mSocket = "unconnected"
     /\ Accepted \/ BacklogFull \/ onSocketErrorOccurred

reconnect ==
  /\ mReconnectTimer
  /\ connectSocket
  /\ UNCHANGED <<env, wmUp, shown, manager, cmds, goal>>

ConnectingEnds ==
  /\ mSocket = "connecting"
  /\ Accepted \/ onSocketErrorOccurred
  /\ UNCHANGED <<env, wmUp, shown, manager, cmds, goal>>

onSocketDisconnected_NoTimer ==  \* mutant: a peer that closes is not waited for
  /\ mSocket = "connected" /\ ~peerOpen /\ wire = <<>>
  /\ mSocket' = "unconnected" /\ mConnected' = FALSE /\ UNCHANGED mReconnectTimer
  /\ asked' = FALSE
  /\ UNCHANGED <<env, wmUp, peerOpen, wire, shown, manager, cmds, goal>>

\* A peer that closes is an ignored error, then a disconnection, once what it
\* sent has been read; another error runs both handlers and drops the data.
onSocketDisconnected ==
  /\ mSocket = "connected" /\ ~peerOpen /\ wire = <<>>
  /\ mSocket' = "unconnected" /\ mConnected' = FALSE /\ mReconnectTimer' = TRUE
  /\ asked' = FALSE
  /\ UNCHANGED <<env, wmUp, peerOpen, wire, shown, manager, cmds, goal>>

SocketFails ==
  /\ mSocket = "connected"
  /\ onSocketErrorOccurred
  /\ UNCHANGED <<env, wmUp, shown, manager, cmds, goal>>

-----------------------------------------------------------------------------
(* Screens and messages.                                                    *)

onScreenAdded ==
  /\ screenQ # <<>> /\ Head(screenQ).op = "added"
  /\ LET o == Head(screenQ).output IN
       IF o \in mOutputs THEN UNCHANGED <<mOutputs, active, told>>
       ELSE /\ mOutputs' = mOutputs \cup {o}
            /\ active' = [active EXCEPT ![o] = {}]
            /\ told' = told \ {o}
  /\ screenQ' = Tail(screenQ)
  /\ UNCHANGED <<link, wire, manager, cmds, goal>>

\* An output that is gone has no flags.
onScreenRemoved ==
  /\ screenQ # <<>> /\ Head(screenQ).op = "removed"
  /\ LET o == Head(screenQ).output IN
       /\ mOutputs' = mOutputs \ {o} /\ told' = told \ {o}
       /\ active' = [active EXCEPT ![o] = {}]
  /\ screenQ' = Tail(screenQ)
  /\ UNCHANGED <<link, wire, manager, cmds, goal>>

\* A tag is in one state only, and urgent comes first (output.cpp:178).
TagActive(m) == m.tags \ m.urgent

onSocketReadyRead ==
  /\ mSocket = "connected" /\ wire # <<>>
  /\ LET msg   == Head(wire)
         heard == DOMAIN msg \cap mOutputs IN
       /\ active' = [o \in Output |-> IF o \in heard THEN TagActive(msg[o]) ELSE active[o]]
       /\ told' = told \cup heard
  /\ wire' = Tail(wire)
  /\ UNCHANGED <<link, mOutputs, screenQ, manager, cmds, goal>>

-----------------------------------------------------------------------------
(* Commands.  Each connects on its own, and is lost without a word when the *)
(* manager is gone or its socket fails.                                     *)

Room(n) == Len(wire) + BagCardinality(cmds) + n <= MaxFlight

sendCommand(cs) ==
  cmds' = IF mConnected /\ wmUp THEN cmds (+) SetToBag(cs) ELSE cmds

setTagsView(o, t) ==
  /\ o \in mOutputs
  /\ Room(1)
  /\ sendCommand({[op |-> "view", tag |-> t]})
  /\ goal' = {}
  /\ UNCHANGED <<link, shown, wire, manager>>

Fresh(o) ==
  /\ mConnected /\ peerOpen /\ wmUp /\ ~asked /\ wire = <<>> /\ cmds = EmptyBag
  /\ o \in told /\ monitors = {o} /\ urgent[o] \cap tagset[o] = {}

toggles_All(o) == {[op |-> "toggleview", tag |-> t] : t \in Tag}  \* mutant: not compared with have

toggles(o) == {[op |-> "toggleview", tag |-> t] : t \in Tag \ active[o]}

setTagsAll(o) ==
  /\ o \in mOutputs
  /\ Room(Cardinality(toggles(o)))
  /\ sendCommand(toggles(o))
  /\ goal' = IF Fresh(o) THEN {o} \X Tag ELSE {}
  /\ UNCHANGED <<link, shown, wire, manager>>

CommandFails(c) ==
  /\ BagIn(c, cmds) /\ cmds' = cmds (-) SetToBag({c})
  /\ goal' = {g \in goal : g[2] # c.tag}
  /\ UNCHANGED <<link, shown, wire, manager>>

-----------------------------------------------------------------------------
(* The manager.  It reports an output to the watcher whenever it changes.   *)

Watched == peerOpen /\ mSocket = "connected" /\ ~asked

Report(S) == [o \in S |-> [tags |-> tagset'[o], urgent |-> urgent'[o]]]

Tell(S) ==
  IF Watched
  THEN /\ Len(wire) < MaxWire /\ Len(wire) + BagCardinality(cmds') < MaxFlight
       /\ wire' = Append(wire, Report(S))
  ELSE UNCHANGED wire

ReadsWatch ==
  /\ peerOpen /\ asked /\ Len(wire) < MaxWire /\ Room(1)
  /\ asked' = FALSE
  /\ UNCHANGED <<env, mSocket, mConnected, mReconnectTimer, wmUp, peerOpen, shown, manager, cmds, goal>>
  /\ wire' = Append(wire, Report(monitors))

Viewed(c, old) ==
  IF c.op = "view" THEN {c.tag}
  ELSE IF c.tag \notin old THEN old \cup {c.tag}
  ELSE IF old = {c.tag} THEN old ELSE old \ {c.tag}

\* A dispatch names no output: it acts on the focused one, whichever was meant.
Executes(c, o) ==
  /\ BagIn(c, cmds) /\ cmds' = cmds (-) SetToBag({c})
  /\ o \in monitors
  /\ tagset' = [tagset EXCEPT ![o] = Viewed(c, @)]
  /\ UNCHANGED <<link, shown, monitors, urgent, goal>>
  /\ Tell({o})

NoOutputLeft(c) ==
  /\ BagIn(c, cmds) /\ cmds' = cmds (-) SetToBag({c})
  /\ monitors = {}
  /\ UNCHANGED <<link, shown, wire, manager, goal>>

\* The user's own keys and other programs, which spoil a pending goal.
ManagerChanges(o, ts, us) ==
  /\ o \in monitors
  /\ tagset' = [tagset EXCEPT ![o] = ts]
  /\ urgent' = [urgent EXCEPT ![o] = us]
  /\ goal' = {}
  /\ UNCHANGED <<link, shown, monitors, cmds>>
  /\ Tell({o})

Plugged(o) ==
  /\ o \notin monitors /\ Len(screenQ) < MaxScreens
  /\ monitors' = monitors \cup {o}
  /\ screenQ' = Append(screenQ, [op |-> "added", output |-> o])
  /\ \E t \in Tag : tagset' = [tagset EXCEPT ![o] = {t}]
  /\ urgent' = [urgent EXCEPT ![o] = {}]
  /\ goal' = {}
  /\ UNCHANGED <<link, mOutputs, active, told, cmds>>
  /\ Tell({o})

Unplugged(o) ==
  /\ o \in monitors /\ Len(screenQ) < MaxScreens
  /\ monitors' = monitors \ {o}
  /\ screenQ' = Append(screenQ, [op |-> "removed", output |-> o])
  /\ tagset' = [tagset EXCEPT ![o] = {}] /\ urgent' = [urgent EXCEPT ![o] = {}]
  /\ goal' = {}
  /\ UNCHANGED <<link, mOutputs, active, told, wire, cmds>>

\* The manager stops accepting, or closes the watching socket only.
ManagerStops ==
  /\ wmUp /\ wmUp' = FALSE
  /\ peerOpen' = FALSE /\ asked' = FALSE
  /\ cmds' = EmptyBag /\ goal' = {}
  /\ UNCHANGED <<env, mSocket, mConnected, mReconnectTimer, shown, wire, manager>>

ManagerDrops ==
  /\ wmUp /\ peerOpen /\ peerOpen' = FALSE /\ asked' = FALSE
  /\ UNCHANGED <<env, mSocket, mConnected, mReconnectTimer, wmUp, shown, wire, manager, cmds, goal>>

ManagerStarts ==
  /\ ~wmUp /\ wmUp' = TRUE
  /\ UNCHANGED <<env, mSocket, mConnected, mReconnectTimer, peerOpen, asked, shown, wire, manager, cmds, goal>>

-----------------------------------------------------------------------------
(* The constructor makes an output per screen and connects.                 *)

Blank ==
  /\ active = [o \in Output |-> {}]
  /\ told = {} /\ screenQ = <<>> /\ wire = <<>> /\ cmds = EmptyBag /\ goal = {}

\* Where there is no monitor there is no tagset.
ManagerInit ==
  /\ monitors \in SUBSET Output
  /\ tagset \in [Output -> {{}} \cup {{t} : t \in Tag}]
  /\ \A o \in Output : tagset[o] # {} <=> o \in monitors
  /\ urgent = [o \in Output |-> {}]

Init ==
  /\ env \in BOOLEAN /\ wmUp \in BOOLEAN
  /\ Blank /\ ManagerInit
  /\ mOutputs = monitors
  /\ \/ /\ env /\ wmUp /\ mSocket = "connected" /\ mConnected = TRUE /\ mReconnectTimer = FALSE
        /\ peerOpen = TRUE /\ asked = TRUE
     \/ /\ env /\ wmUp /\ mSocket = "connecting" /\ mConnected = FALSE /\ mReconnectTimer = FALSE
        /\ peerOpen = FALSE /\ asked = FALSE
     \/ /\ mSocket = "unconnected" /\ mConnected = FALSE /\ mReconnectTimer = TRUE
        /\ peerOpen = FALSE /\ asked = FALSE

Client ==
  \/ reconnect \/ ConnectingEnds \/ onSocketDisconnected \/ SocketFails
  \/ onScreenAdded \/ onScreenRemoved \/ onSocketReadyRead
  \/ \E o \in Output : setTagsAll(o) \/ \E t \in Tag : setTagsView(o, t)
  \/ \E c \in BagToSet(cmds) : CommandFails(c)

Manager ==
  \/ ReadsWatch \/ ManagerStops \/ ManagerDrops \/ ManagerStarts
  \/ \E c \in BagToSet(cmds) : NoOutputLeft(c) \/ \E o \in Output : Executes(c, o)
  \/ \E o \in Output :
       \/ Plugged(o) \/ Unplugged(o)
       \/ \E ts \in (SUBSET Tag) \ {{}}, us \in SUBSET UrgentTag : ManagerChanges(o, ts, us)

Next == Client \/ Manager

Spec == Init /\ [][Next]_vars

(* The event loop serves an expired timer, the end of an attempt and a      *)
(* readable socket.  A manager that keeps listening does not refuse every   *)
(* attempt.                                                                 *)
FairSpec ==
  /\ Spec
  /\ WF_vars(onSocketDisconnected)
  /\ WF_vars(onSocketReadyRead)
  /\ WF_vars(ConnectingEnds)
  /\ SF_vars(reconnect /\ mConnected')

-----------------------------------------------------------------------------
(* Properties *)

\* Every variable has the type of its member in manager.hpp and output.hpp.
TypeOK ==
  /\ env \in BOOLEAN /\ mConnected \in BOOLEAN /\ mReconnectTimer \in BOOLEAN
  /\ mSocket \in {"unconnected", "connecting", "connected"}
  /\ wmUp \in BOOLEAN /\ peerOpen \in BOOLEAN /\ asked \in BOOLEAN
  /\ mOutputs \in SUBSET Output /\ told \in SUBSET mOutputs
  /\ active \in [Output -> SUBSET Tag]
  /\ screenQ \in Seq([op : {"added", "removed"}, output : Output])
  /\ wire \in Seq(Message)
  /\ monitors \in SUBSET Output
  /\ tagset \in [Output -> SUBSET Tag] /\ urgent \in [Output -> SUBSET Tag]
  /\ goal \in SUBSET (Output \X Tag)

\* Whatever path a loss takes through the two handlers, the client has exactly
\* one way forward: it is connected, an attempt is pending, or the timer is
\* armed (manager.cpp:107-150).
OneWayForward ==
  /\ mConnected = (mSocket = "connected")
  /\ mReconnectTimer = (mSocket = "unconnected")
  /\ peerOpen => mConnected /\ wmUp
  /\ asked => peerOpen

\* The client is a link that is retried until it is up (RetryLink.tla): no
\* handler of the socket leaves it without its timer or an attempt, and where
\* the manager is reachable again and again, so is the client connected.
Link == INSTANCE RetryLink WITH
  phase     <- IF mConnected THEN "up"
               ELSE IF mReconnectTimer \/ mSocket = "connecting" THEN "retrying" ELSE "idle",
  reachable <- env /\ wmUp

ImplementsLink == Link!FairSpec

\* A manager that stays reachable is found again, however the link was lost.
Reconnects == ~mConnected ~> (mConnected \/ ~env \/ ~wmUp)

\* Once everything the manager sent is read, an output that was ever reported
\* on shows the manager's tags, over reconnections, hotplug and commands.
TagsAgree ==
  mConnected /\ peerOpen /\ ~asked /\ wire = <<>> =>
    \A o \in told \cap monitors :
      screenQ = <<>> => active[o] = tagset[o] \ urgent[o]

\* "View every tag" (setTags(-1)) toggles the tags that are not active, each
\* on its own connection: when it was computed from flags that were fresh and
\* nobody interfered, every tag is viewed once the toggles are done, in
\* whatever order the manager takes them, but for those whose own socket failed,
\* which nobody sends again and which take no other tag away.
ViewAllReaches ==
  cmds = EmptyBag => \A g \in goal : g[2] \in tagset[g[1]]
=============================================================================
