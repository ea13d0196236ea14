-------------------------- MODULE MangoIpc_proofs --------------------------
(***************************************************************************)
(* Proofs about the mango client: whatever handlers a lost socket runs, it  *)
(* keeps one way forward and implements the retried link; what it shows is  *)
(* what the manager has, once told; "view every tag" views them all; and a  *)
(* manager that stays reachable is found again.                             *)
(***************************************************************************)
EXTENDS MangoIpc, SequenceTheorems, TLAPS

(* The part of the types the link needs.                                    *)
LinkType ==
  /\ env \in BOOLEAN /\ mConnected \in BOOLEAN /\ mReconnectTimer \in BOOLEAN
  /\ mSocket \in {"unconnected", "connecting", "connected"}
  /\ wmUp \in BOOLEAN /\ peerOpen \in BOOLEAN /\ asked \in BOOLEAN

(* A socket is only tried with a signature, which makes a manager that      *)
(* accepts reachable.                                                       *)
Signed == mSocket # "unconnected" => env

(* OneWayForward is inductive with the types: when the timer expires, the   *)
(* socket is unconnected.  Signed is what the refinement needs of it.       *)
IInv == LinkType /\ OneWayForward /\ Signed

LEMMA InitIInv == Init => IInv
  BY DEF Init, IInv, LinkType, OneWayForward, Signed

(* The three outcomes of an attempt: at once, later, or refused.            *)
LEMMA AttemptIInv ==
  ASSUME IInv, UNCHANGED <<env, wmUp>>,
         Accepted \/ onSocketErrorOccurred \/ (BacklogFull /\ mSocket = "unconnected"),
         env
  PROVE  IInv'
<1>1. CASE Accepted
  BY <1>1 DEF IInv, LinkType, OneWayForward, Signed, Accepted, onSocketConnected
<1>2. CASE onSocketErrorOccurred
  BY <1>2 DEF IInv, LinkType, OneWayForward, Signed, onSocketErrorOccurred
<1>3. CASE BacklogFull /\ mSocket = "unconnected"
  BY <1>3 DEF IInv, LinkType, OneWayForward, Signed, BacklogFull
<1> QED BY <1>1, <1>2, <1>3

(* The steps that do not touch the link.                                    *)
LEMMA LinkUntouched ==
  ASSUME IInv, UNCHANGED link
  PROVE  IInv'
  BY DEF link, IInv, LinkType, OneWayForward, Signed

LEMMA NextIInv == IInv /\ [Next]_vars => IInv'
<1> SUFFICES ASSUME IInv, [Next]_vars PROVE IInv'
  OBVIOUS
<1>1. CASE reconnect
  <2>1. mSocket = "unconnected" /\ mConnected = FALSE /\ peerOpen = FALSE /\ asked = FALSE
    BY <1>1 DEF reconnect, IInv, LinkType, OneWayForward, Signed
  <2>2. UNCHANGED <<env, wmUp>>
    BY <1>1 DEF reconnect
  <2>3. CASE ~env
    <3>1. mReconnectTimer' = TRUE /\ UNCHANGED <<mSocket, mConnected, peerOpen, asked>>
      BY <1>1, <2>1, <2>3 DEF reconnect, connectSocket
    <3> QED BY <2>1, <2>2, <3>1 DEF IInv, LinkType, OneWayForward, Signed
  <2>4. CASE env
    BY <1>1, <2>1, <2>2, <2>4, AttemptIInv DEF reconnect, connectSocket
  <2> QED BY <2>3, <2>4 DEF IInv, LinkType
<1>2. CASE ConnectingEnds
  <2>1. UNCHANGED <<env, wmUp>> /\ (Accepted \/ onSocketErrorOccurred) /\ env
    BY <1>2 DEF ConnectingEnds, IInv, Signed
  <2> QED BY <2>1, AttemptIInv
<1>3. CASE onSocketDisconnected
  BY <1>3 DEF IInv, LinkType, OneWayForward, Signed, onSocketDisconnected
<1>4. CASE SocketFails
  <2>1. UNCHANGED <<env, wmUp>> /\ onSocketErrorOccurred /\ env
    BY <1>4 DEF SocketFails, IInv, Signed
  <2> QED BY <2>1, AttemptIInv
<1>5. CASE onScreenAdded \/ onScreenRemoved \/ onSocketReadyRead
  <2>1. UNCHANGED link
    BY <1>5 DEF onScreenAdded, onScreenRemoved, onSocketReadyRead
  <2> QED BY <2>1, LinkUntouched
<1>6. ASSUME NEW o \in Output, setTagsAll(o) \/ \E t \in Tag : setTagsView(o, t)
      PROVE  IInv'
  <2>1. UNCHANGED link
    BY <1>6 DEF setTagsAll, setTagsView
  <2> QED BY <2>1, LinkUntouched
<1>7. CASE ReadsWatch
  BY <1>7 DEF IInv, LinkType, OneWayForward, Signed, ReadsWatch
<1>8. CASE ManagerStops \/ ManagerDrops \/ ManagerStarts
  BY <1>8 DEF IInv, LinkType, OneWayForward, Signed, ManagerStops, ManagerDrops, ManagerStarts
<1>9. ASSUME NEW c \in BagToSet(cmds),
             CommandFails(c) \/ NoOutputLeft(c) \/ \E o \in Output : Executes(c, o)
      PROVE  IInv'
  <2>1. UNCHANGED link
    BY <1>9 DEF CommandFails, NoOutputLeft, Executes
  <2> QED BY <2>1, LinkUntouched
<1>10. ASSUME NEW o \in Output,
              \/ Plugged(o) \/ Unplugged(o)
              \/ \E ts \in (SUBSET Tag) \ {{}}, us \in SUBSET UrgentTag : ManagerChanges(o, ts, us)
       PROVE  IInv'
  <2>1. UNCHANGED link
    BY <1>10 DEF Plugged, Unplugged, ManagerChanges
  <2> QED BY <2>1, LinkUntouched
<1>11. CASE UNCHANGED vars
  <2>1. UNCHANGED link
    BY <1>11 DEF vars
  <2> QED BY <2>1, LinkUntouched
<1> QED
  BY <1>1, <1>2, <1>3, <1>4, <1>5, <1>6, <1>7, <1>8, <1>9, <1>10, <1>11 DEF Next, Client, Manager

(* Between callbacks the client is connected, attempting, or has armed its  *)
(* timer, and exactly one of these (onSocketConnected, onSocketDisconnected, *)
(* onSocketErrorOccurred, connectSocket).                                   *)
THEOREM OneWayForwardHolds == Spec => []OneWayForward
<1>1. IInv => OneWayForward
  BY DEF IInv
<1> QED BY InitIInv, NextIInv, <1>1, PTL DEF Spec

-----------------------------------------------------------------------------
LEMMA InitLink == Init => Link!Init
  BY DEF Init, Link!Init, Link!Phase

(* A step that leaves the socket, the timer, the signature and the manager  *)
(* alone is a stutter of the link.                                          *)
LEMMA LinkStutters ==
  ASSUME UNCHANGED <<env, mSocket, mConnected, mReconnectTimer, wmUp>>
  PROVE  UNCHANGED Link!vars
  BY DEF Link!vars

(* Every step of the client or the manager is a step of the link, or leaves *)
(* it alone.                                                                *)
LEMMA StepLink == IInv /\ [Next]_vars => [Link!Next]_Link!vars
<1> SUFFICES ASSUME IInv, [Next]_vars PROVE [Link!Next]_Link!vars
  OBVIOUS
<1> USE DEF IInv, LinkType, OneWayForward, Link!Next, Link!vars
<1>1. CASE reconnect
  <2>1. mSocket = "unconnected" /\ mConnected = FALSE /\ mReconnectTimer = TRUE /\ UNCHANGED <<env, wmUp>>
    BY <1>1 DEF reconnect
  <2>2. CASE ~env
    BY <1>1, <2>1, <2>2 DEF reconnect, connectSocket
  <2>3. CASE env /\ Accepted
    BY <2>1, <2>3 DEF Accepted, onSocketConnected, Link!Establish, Link!Retriable
  <2>4. CASE env /\ BacklogFull
    BY <2>1, <2>4 DEF BacklogFull
  <2>5. CASE env /\ onSocketErrorOccurred
    BY <2>1, <2>5 DEF onSocketErrorOccurred
  <2> QED BY <1>1, <2>1, <2>2, <2>3, <2>4, <2>5 DEF reconnect, connectSocket
<1>2. CASE ConnectingEnds
  <2>1. mSocket = "connecting" /\ ~mConnected /\ env /\ UNCHANGED <<env, wmUp>>
    BY <1>2 DEF ConnectingEnds, Signed
  <2>2. CASE Accepted
    BY <2>1, <2>2 DEF Accepted, onSocketConnected, Link!Establish, Link!Retriable
  <2>3. CASE onSocketErrorOccurred
    BY <2>1, <2>3 DEF onSocketErrorOccurred
  <2> QED BY <1>2, <2>2, <2>3 DEF ConnectingEnds
<1>3. CASE onSocketDisconnected
  BY <1>3 DEF onSocketDisconnected, Link!Lose
<1>4. CASE SocketFails
  BY <1>4 DEF SocketFails, onSocketErrorOccurred, Link!Lose
<1>5. CASE onScreenAdded \/ onScreenRemoved \/ onSocketReadyRead
  BY <1>5, LinkStutters DEF onScreenAdded, onScreenRemoved, onSocketReadyRead, link
<1>6. ASSUME NEW o \in Output, setTagsAll(o) \/ \E t \in Tag : setTagsView(o, t)
      PROVE  UNCHANGED Link!vars
  BY <1>6, LinkStutters DEF setTagsAll, setTagsView, link
<1>7. CASE ReadsWatch \/ ManagerDrops
  BY <1>7, LinkStutters DEF ReadsWatch, ManagerDrops
<1>8. CASE ManagerStops \/ ManagerStarts
  <2>1. UNCHANGED <<env, mSocket, mConnected, mReconnectTimer>> /\ wmUp' = ~wmUp
    BY <1>8 DEF ManagerStops, ManagerStarts
  <2>2. CASE env
    BY <2>1, <2>2 DEF Link!DaemonChanges
  <2>3. CASE ~env
    BY <2>1, <2>3
  <2> QED BY <2>2, <2>3
<1>9. ASSUME NEW c \in BagToSet(cmds),
             CommandFails(c) \/ NoOutputLeft(c) \/ \E o \in Output : Executes(c, o)
      PROVE  UNCHANGED Link!vars
  BY <1>9, LinkStutters DEF CommandFails, NoOutputLeft, Executes, link
<1>10. ASSUME NEW o \in Output,
              \/ Plugged(o) \/ Unplugged(o)
              \/ \E ts \in (SUBSET Tag) \ {{}}, us \in SUBSET UrgentTag : ManagerChanges(o, ts, us)
       PROVE  UNCHANGED Link!vars
  BY <1>10, LinkStutters DEF Plugged, Unplugged, ManagerChanges, link
<1>11. CASE UNCHANGED vars
  BY <1>11, LinkStutters DEF vars, link
<1> QED
  BY <1>1, <1>2, <1>3, <1>4, <1>5, <1>6, <1>7, <1>8, <1>9, <1>10, <1>11 DEF Next, Client, Manager

(* The client is a link that is retried until it is up: the handlers of     *)
(* manager.cpp implement RetryLink's specification.                         *)
THEOREM LinkImplemented == Spec => Link!Spec
  BY InitIInv, NextIInv, InitLink, StepLink, PTL DEF Spec, Link!Spec
-----------------------------------------------------------------------------
(* Types, which also need to know what is asked of the manager.             *)

Command == [op : {"view", "toggleview"}, tag : Tag]

TInv == TypeOK /\ DOMAIN cmds \subseteq Command

LEMMA BagAdd ==
  ASSUME NEW b, NEW S
  PROVE  DOMAIN (b (+) SetToBag(S)) = DOMAIN b \cup S
  BY DEF (+), SetToBag

LEMMA BagTakeDomain ==
  ASSUME NEW b, NEW c
  PROVE  DOMAIN (b (-) SetToBag({c})) \subseteq DOMAIN b
  BY DEF (-), SetToBag

LEMMA BagEmpty == DOMAIN EmptyBag = {}
  BY DEF EmptyBag, SetToBag

(* What the manager reports is a message that says how things stand now.    *)
LEMMA ReportOK ==
  ASSUME tagset' \in [Output -> SUBSET Tag], urgent' \in [Output -> SUBSET Tag],
         NEW S \in SUBSET Output
  PROVE  /\ Report(S) \in Message
         /\ DOMAIN Report(S) = S
         /\ \A o \in S : Report(S)[o] = [tags |-> tagset'[o], urgent |-> urgent'[o]]
<1>1. Report(S) \in [S -> [tags : SUBSET Tag, urgent : SUBSET Tag]]
  BY DEF Report
<1>2. Report(S) \in Message
  BY <1>1 DEF Message
<1> QED BY <1>2 DEF Report

LEMMA TellOK ==
  ASSUME tagset' \in [Output -> SUBSET Tag], urgent' \in [Output -> SUBSET Tag],
         wire \in Seq(Message), NEW S \in SUBSET Output, Tell(S)
  PROVE  wire' \in Seq(Message)
<1>1. Report(S) \in Message
  BY ReportOK
<1> QED BY <1>1 DEF Tell

LEMMA MessageOK ==
  ASSUME NEW m \in Message
  PROVE  /\ DOMAIN m \subseteq Output
         /\ \A o \in DOMAIN m : m[o] \in [tags : SUBSET Tag, urgent : SUBSET Tag]
  BY DEF Message

LEMMA InitTInv == Init => TInv
<1> SUFFICES ASSUME Init PROVE TInv
  OBVIOUS
<1>1. tagset \in [Output -> SUBSET Tag] /\ urgent \in [Output -> SUBSET Tag] /\ monitors \in SUBSET Output
  BY DEF Init, ManagerInit
<1>2. active \in [Output -> SUBSET Tag] /\ DOMAIN cmds = {}
  BY BagEmpty DEF Init, Blank
<1>3. screenQ \in Seq([op : {"added", "removed"}, output : Output]) /\ wire \in Seq(Message)
  BY DEF Init, Blank
<1> QED BY <1>1, <1>2, <1>3 DEF Init, Blank, TInv, TypeOK

(* The steps of the link leave the outputs and the manager alone, and the   *)
(* wire is emptied or kept.                                                 *)
LEMMA LinkTInv ==
  ASSUME TInv, IInv', UNCHANGED <<shown, manager>>, cmds' \in {cmds, EmptyBag}, goal' \in {goal, {}},
         wire' \in {wire, <<>>}
  PROVE  TInv'
<1>1. wire \in Seq(Message) /\ << >> \in Seq(Message)
  BY EmptySeq DEF TInv, TypeOK
<1>2. wire' \in Seq(Message)
  BY <1>1, Zenon
<1>3. DOMAIN cmds' \subseteq Command
  BY BagEmpty DEF TInv
<1> QED BY <1>2, <1>3 DEF TInv, TypeOK, shown, manager, IInv, LinkType

LEMMA CommandsTInv ==
  ASSUME TInv, UNCHANGED <<link, shown, wire, manager>>, NEW S \in SUBSET Command, sendCommand(S),
         goal' \in SUBSET (Output \X Tag)
  PROVE  TInv'
<1>1. DOMAIN cmds' \subseteq Command
  BY BagAdd DEF TInv, sendCommand
<1> QED BY <1>1 DEF TInv, TypeOK, link, shown, manager

LEMMA NextTInv == TInv /\ IInv /\ IInv' /\ [Next]_vars => TInv'
<1> SUFFICES ASSUME TInv, IInv, IInv', [Next]_vars PROVE TInv'
  OBVIOUS
<1> USE DEF IInv, LinkType
<1>1. CASE reconnect \/ ConnectingEnds \/ SocketFails
  <2>1. wire' \in {wire, <<>>} /\ UNCHANGED <<shown, manager, cmds, goal>>
    BY <1>1 DEF reconnect, connectSocket, ConnectingEnds, SocketFails, Accepted, BacklogFull,
                onSocketConnected, onSocketErrorOccurred
  <2> QED BY <2>1, LinkTInv
<1>2. CASE onSocketDisconnected \/ ManagerStops \/ ManagerDrops \/ ManagerStarts
  <2>1. wire' = wire /\ cmds' \in {cmds, EmptyBag} /\ goal' \in {goal, {}} /\ UNCHANGED <<shown, manager>>
    BY <1>2 DEF onSocketDisconnected, ManagerStops, ManagerDrops, ManagerStarts
  <2> QED BY <2>1, LinkTInv
<1>3. CASE onScreenAdded
  <2> DEFINE o == Head(screenQ).output
  <2>1. screenQ # <<>> /\ screenQ \in Seq([op : {"added", "removed"}, output : Output])
    BY <1>3 DEF onScreenAdded, TInv, TypeOK
  <2>2. Head(screenQ) \in [op : {"added", "removed"}, output : Output]
        /\ Tail(screenQ) \in Seq([op : {"added", "removed"}, output : Output])
    BY <2>1, HeadTailProperties
  <2>3. o \in Output /\ screenQ' \in Seq([op : {"added", "removed"}, output : Output])
    BY <1>3, <2>2 DEF onScreenAdded
  <2>4. CASE o \in mOutputs
    BY <1>3, <2>3, <2>4 DEF onScreenAdded, TInv, TypeOK, link, manager
  <2>5. CASE o \notin mOutputs
    <3>1. mOutputs' = mOutputs \cup {o} /\ active' = [active EXCEPT ![o] = {}] /\ told' = told \ {o}
      BY <1>3, <2>5 DEF onScreenAdded
    <3>2. active' \in [Output -> SUBSET Tag]
      BY <3>1, <2>3 DEF TInv, TypeOK
    <3> QED BY <1>3, <2>3, <3>1, <3>2 DEF onScreenAdded, TInv, TypeOK, link, manager
  <2> QED BY <2>4, <2>5
<1>4. CASE onScreenRemoved
  <2>1. screenQ # <<>> /\ screenQ \in Seq([op : {"added", "removed"}, output : Output])
    BY <1>4 DEF onScreenRemoved, TInv, TypeOK
  <2>2. Tail(screenQ) \in Seq([op : {"added", "removed"}, output : Output])
    BY <2>1, HeadTailProperties
  <2>3. active' \in [Output -> SUBSET Tag]
    BY <1>4 DEF onScreenRemoved, TInv, TypeOK
  <2> QED BY <1>4, <2>2, <2>3 DEF onScreenRemoved, TInv, TypeOK, link, manager
<1>5. CASE onSocketReadyRead
  <2> DEFINE m == Head(wire)
  <2>1. m \in Message /\ Tail(wire) \in Seq(Message)
    BY <1>5, HeadTailProperties DEF onSocketReadyRead, TInv, TypeOK
  <2>2. \A o \in DOMAIN m : m[o] \in [tags : SUBSET Tag, urgent : SUBSET Tag]
    BY <2>1, MessageOK
  <2>3. active' = [o \in Output |-> IF o \in DOMAIN m \cap mOutputs THEN TagActive(m[o]) ELSE active[o]]
        /\ told' = told \cup (DOMAIN m \cap mOutputs)
    BY <1>5 DEF onSocketReadyRead
  <2>4. active' \in [Output -> SUBSET Tag]
    BY <2>2, <2>3 DEF TagActive, TInv, TypeOK
  <2> QED BY <1>5, <2>1, <2>3, <2>4 DEF onSocketReadyRead, TInv, TypeOK, link, manager
<1>6. ASSUME NEW o \in Output, setTagsAll(o) PROVE TInv'
  <2>1. toggles(o) \in SUBSET Command
    BY DEF toggles, Command
  <2>2. goal' \in SUBSET (Output \X Tag)
    BY <1>6 DEF setTagsAll
  <2> QED BY <1>6, <2>1, <2>2, CommandsTInv DEF setTagsAll
<1>7. ASSUME NEW o \in Output, NEW t \in Tag, setTagsView(o, t) PROVE TInv'
  <2>1. {[op |-> "view", tag |-> t]} \in SUBSET Command
    BY DEF Command
  <2> QED BY <1>7, <2>1, CommandsTInv DEF setTagsView
<1>8. CASE ReadsWatch
  <2>1. Report(monitors) \in Message
    BY <1>8, ReportOK DEF ReadsWatch, manager, TInv, TypeOK
  <2>2. wire' \in Seq(Message)
    BY <1>8, <2>1 DEF ReadsWatch, TInv, TypeOK
  <2> QED BY <1>8, <2>2 DEF ReadsWatch, TInv, TypeOK, shown, manager
<1>9. ASSUME NEW c \in BagToSet(cmds), CommandFails(c) \/ NoOutputLeft(c) PROVE TInv'
  <2>1. DOMAIN cmds' \subseteq Command
    BY <1>9, BagTakeDomain DEF CommandFails, NoOutputLeft, TInv
  <2>2. goal' \subseteq goal /\ UNCHANGED <<link, shown, wire, manager>>
    BY <1>9 DEF CommandFails, NoOutputLeft
  <2> QED BY <2>1, <2>2 DEF TInv, TypeOK, link, shown, manager
<1>10. ASSUME NEW c \in BagToSet(cmds), NEW o \in Output, Executes(c, o) PROVE TInv'
  <2>1. DOMAIN cmds' \subseteq Command
    BY <1>10, BagTakeDomain DEF Executes, TInv
  <2>2. c.tag \in Tag
    BY DEF TInv, Command, BagToSet
  <2>3. Viewed(c, tagset[o]) \in SUBSET Tag
    BY <2>2 DEF Viewed, TInv, TypeOK
  <2>4. tagset' \in [Output -> SUBSET Tag] /\ urgent' \in [Output -> SUBSET Tag]
    BY <1>10, <2>3 DEF Executes, TInv, TypeOK
  <2>5. wire' \in Seq(Message)
    BY <1>10, <2>4, TellOK DEF Executes, TInv, TypeOK
  <2> QED BY <1>10, <2>1, <2>4, <2>5 DEF Executes, TInv, TypeOK, link, shown
<1>11. ASSUME NEW o \in Output, NEW ts \in (SUBSET Tag) \ {{}}, NEW us \in SUBSET UrgentTag,
              ManagerChanges(o, ts, us)
       PROVE  TInv'
  <2>1. tagset' \in [Output -> SUBSET Tag] /\ urgent' \in [Output -> SUBSET Tag]
    BY <1>11, MangoAssumption DEF ManagerChanges, TInv, TypeOK
  <2>2. wire' \in Seq(Message)
    BY <1>11, <2>1, TellOK DEF ManagerChanges, TInv, TypeOK
  <2> QED BY <1>11, <2>1, <2>2 DEF ManagerChanges, TInv, TypeOK, link, shown
<1>12. ASSUME NEW o \in Output, Plugged(o) PROVE TInv'
  <2>1. tagset' \in [Output -> SUBSET Tag] /\ urgent' \in [Output -> SUBSET Tag]
    BY <1>12 DEF Plugged, TInv, TypeOK
  <2>2. wire' \in Seq(Message)
    BY <1>12, <2>1, TellOK DEF Plugged, TInv, TypeOK
  <2>3. [op |-> "added", output |-> o] \in [op : {"added", "removed"}, output : Output]
    OBVIOUS
  <2>4. screenQ' \in Seq([op : {"added", "removed"}, output : Output])
    BY <1>12, <2>3 DEF Plugged, TInv, TypeOK
  <2> QED BY <1>12, <2>1, <2>2, <2>4 DEF Plugged, TInv, TypeOK, link
<1>13. ASSUME NEW o \in Output, Unplugged(o) PROVE TInv'
  <2>1. [op |-> "removed", output |-> o] \in [op : {"added", "removed"}, output : Output]
    OBVIOUS
  <2>2. screenQ' \in Seq([op : {"added", "removed"}, output : Output])
    BY <1>13, <2>1 DEF Unplugged, TInv, TypeOK
  <2>3. tagset' \in [Output -> SUBSET Tag] /\ urgent' \in [Output -> SUBSET Tag]
    BY <1>13 DEF Unplugged, TInv, TypeOK
  <2> QED BY <1>13, <2>2, <2>3 DEF Unplugged, TInv, TypeOK, link
<1>14. CASE UNCHANGED vars
  BY <1>14 DEF vars, TInv, TypeOK, link, shown, manager
<1> QED
  BY <1>1, <1>2, <1>3, <1>4, <1>5, <1>6, <1>7, <1>8, <1>9, <1>10, <1>11, <1>12, <1>13, <1>14
     DEF Next, Client, Manager

(* Every variable keeps its type, for any outputs and tags.                 *)
THEOREM TypeCorrect == Spec => []TypeOK
<1>1. TInv => TypeOK
  BY DEF TInv
<1> QED BY InitIInv, NextIInv, InitTInv, NextTInv, <1>1, PTL DEF Spec
-----------------------------------------------------------------------------
(* What the bar shows.  TagsAgree speaks of a wire that is empty.  In       *)
(* general the last message about an output tells the truth, or there is    *)
(* none and what was taken from the one before it still is the truth.       *)

Truth(o) == [tags |-> tagset[o], urgent |-> urgent[o]]

TruthComes(o) ==
  \E i \in 1..Len(wire) :
    /\ o \in DOMAIN wire[i] /\ wire[i][o] = Truth(o)
    /\ \A j \in i+1..Len(wire) : o \notin DOMAIN wire[j]

TruthShown(o) ==
  /\ \A i \in 1..Len(wire) : o \notin DOMAIN wire[i]
  /\ o \in told => active[o] = tagset[o] \ urgent[o]

Track == peerOpen /\ ~asked => \A o \in monitors : TruthComes(o) \/ TruthShown(o)

(* A new message that tells the truth about an output.                      *)
LEMMA Told ==
  ASSUME NEW m \in Message, wire \in Seq(Message), wire' = Append(wire, m),
         NEW o \in DOMAIN m, m[o] = Truth(o)'
  PROVE  TruthComes(o)'
<1> DEFINE n == Len(wire) + 1
<1>1. Len(wire') = n /\ wire'[n] = m /\ n \in 1..n
  BY DEF n
<1>2. \A j \in n+1..n : FALSE
  BY <1>1
<1> HIDE DEF n
<1>3. o \in DOMAIN wire'[n] /\ wire'[n][o] = Truth(o)'
  BY <1>1
<1> QED BY <1>1, <1>2, <1>3 DEF TruthComes

(* A new message about other outputs.                                       *)
LEMMA NotTold ==
  ASSUME NEW m \in Message, wire \in Seq(Message), wire' = Append(wire, m),
         NEW o, o \notin DOMAIN m, Truth(o)' = Truth(o), UNCHANGED <<active, told>>,
         tagset'[o] \ urgent'[o] = tagset[o] \ urgent[o],
         TruthComes(o) \/ TruthShown(o)
  PROVE  (TruthComes(o) \/ TruthShown(o))'
<1>1. /\ Len(wire') = Len(wire) + 1 /\ Len(wire) \in Nat
      /\ wire'[Len(wire) + 1] = m
      /\ \A i \in 1..Len(wire) : wire'[i] = wire[i]
  OBVIOUS
<1>2. CASE TruthComes(o)
  <2>1. PICK i \in 1..Len(wire) :
          /\ o \in DOMAIN wire[i] /\ wire[i][o] = Truth(o)
          /\ \A j \in i+1..Len(wire) : o \notin DOMAIN wire[j]
    BY <1>2 DEF TruthComes
  <2>2. i \in 1..Len(wire') /\ o \in DOMAIN wire'[i] /\ wire'[i][o] = Truth(o)'
    BY <1>1, <2>1
  <2>3. ASSUME NEW j \in i+1..Len(wire') PROVE o \notin DOMAIN wire'[j]
    <3>1. CASE j = Len(wire) + 1
      BY <1>1, <3>1
    <3>2. CASE j # Len(wire) + 1
      <4>1. j \in i+1..Len(wire) /\ j \in 1..Len(wire)
        BY <1>1, <3>2
      <4> QED BY <1>1, <2>1, <4>1
    <3> QED BY <3>1, <3>2
  <2>4. TruthComes(o)'
    BY <2>2, <2>3 DEF TruthComes
  <2> QED BY <2>4
<1>3. CASE TruthShown(o)
  <2>1. ASSUME NEW i \in 1..Len(wire') PROVE o \notin DOMAIN wire'[i]
    <3>1. i = Len(wire) + 1 \/ i \in 1..Len(wire)
      BY <1>1
    <3> QED BY <1>1, <1>3, <3>1 DEF TruthShown
  <2>2. o \in told' => active'[o] = tagset'[o] \ urgent'[o]
    BY <1>3 DEF TruthShown
  <2>3. TruthShown(o)'
    BY <2>1, <2>2 DEF TruthShown
  <2> QED BY <2>3
<1> QED BY <1>2, <1>3

(* Nothing new: what is shown of an output changes only when it is added.   *)
LEMMA TruthKept ==
  ASSUME NEW o, wire' = wire, Truth(o)' = Truth(o),
         tagset'[o] \ urgent'[o] = tagset[o] \ urgent[o],
         o \in told' => o \in told /\ active'[o] = active[o],
         TruthComes(o) \/ TruthShown(o)
  PROVE  (TruthComes(o) \/ TruthShown(o))'
<1>1. CASE TruthComes(o)
  <2>1. TruthComes(o)'
    BY <1>1 DEF TruthComes
  <2> QED BY <2>1
<1>2. CASE TruthShown(o)
  <2>1. TruthShown(o)'
    BY <1>2 DEF TruthShown
  <2> QED BY <2>1
<1> QED BY <1>1, <1>2

LEMMA InitTrack == Init => Track
  BY DEF Init, Track

(* A lost or closed socket, or one on which "watch" was just sent, promises *)
(* nothing.                                                                 *)
LEMMA LinkTrack == ~peerOpen' \/ asked' => Track'
  BY DEF Track

LEMMA CalmTrack ==
  ASSUME Track, UNCHANGED <<wire, manager>>, peerOpen' => peerOpen, asked' = asked,
         \A o \in told' : o \in told /\ active'[o] = active[o]
  PROVE  Track'
<1> SUFFICES ASSUME peerOpen', ~asked', NEW o \in monitors' PROVE (TruthComes(o) \/ TruthShown(o))'
  BY DEF Track
<1>1. TruthComes(o) \/ TruthShown(o)
  BY DEF Track, manager
<1>2. Truth(o)' = Truth(o) /\ tagset'[o] \ urgent'[o] = tagset[o] \ urgent[o]
  BY DEF Truth, manager
<1> QED BY <1>1, <1>2, TruthKept

(* The manager changes what it shows on one output, and tells.              *)
LEMMA TellTrack ==
  ASSUME TInv, Track, IInv, UNCHANGED <<link, mOutputs, active, told>>,
         tagset' \in [Output -> SUBSET Tag], urgent' \in [Output -> SUBSET Tag],
         NEW p \in Output, monitors' \subseteq monitors \cup {p}, Tell({p}),
         \A o \in Output \ {p} : tagset'[o] = tagset[o] /\ urgent'[o] = urgent[o]
  PROVE  Track'
<1> SUFFICES ASSUME peerOpen', ~asked', NEW o \in monitors' PROVE (TruthComes(o) \/ TruthShown(o))'
  BY DEF Track
<1> DEFINE m == Report({p})
<1>1. /\ m \in Message /\ DOMAIN m = {p}
      /\ m[p] = [tags |-> tagset'[p], urgent |-> urgent'[p]]
  BY ReportOK
<1>2. peerOpen /\ ~asked /\ Watched
  BY DEF link, Watched, IInv, OneWayForward, LinkType
<1>3. wire' = Append(wire, m) /\ wire \in Seq(Message)
  BY <1>2 DEF Tell, TInv, TypeOK
<1> HIDE DEF m
<1>4. CASE o = p
  <2>1. m[o] = Truth(o)' /\ o \in DOMAIN m
    BY <1>1, <1>4 DEF Truth
  <2>2. TruthComes(o)'
    BY <1>1, <1>3, <2>1, Told
  <2> QED BY <2>2
<1>5. CASE o # p
  <2>1. o \in Output \ {p} /\ o \in monitors /\ o \notin DOMAIN m
    BY <1>1, <1>5 DEF TInv, TypeOK
  <2>2. Truth(o)' = Truth(o) /\ tagset'[o] \ urgent'[o] = tagset[o] \ urgent[o]
    BY <2>1 DEF Truth
  <2>3. TruthComes(o) \/ TruthShown(o)
    BY <1>2, <2>1 DEF Track
  <2> QED BY <1>1, <1>3, <2>1, <2>2, <2>3, NotTold
<1> QED BY <1>4, <1>5

(* A message is read: if it was the last about an output, its tags are now  *)
(* shown.                                                                   *)
LEMMA ReadTrack ==
  ASSUME TInv, Track, onSocketReadyRead
  PROVE  Track'
<1> SUFFICES ASSUME peerOpen', ~asked', NEW o \in monitors' PROVE (TruthComes(o) \/ TruthShown(o))'
  BY DEF Track
<1> DEFINE m == Head(wire)
<1>1. wire # << >> /\ wire \in Seq(Message) /\ wire' = Tail(wire) /\ UNCHANGED <<link, mOutputs, manager>>
  BY DEF onSocketReadyRead, TInv, TypeOK
<1>2. /\ Len(wire) \in Nat \ {0} /\ Len(wire') = Len(wire) - 1 /\ m = wire[1]
      /\ \A i \in 1..Len(wire') : i + 1 \in 1..Len(wire) /\ wire'[i] = wire[i + 1]
  BY <1>1, HeadTailProperties, EmptySeq
<1>3. TruthComes(o) \/ TruthShown(o)
  BY <1>1 DEF Track, link, manager
<1>4. o \in Output
  BY <1>1 DEF manager, TInv, TypeOK
<1>5. /\ active'[o] = IF o \in DOMAIN m \cap mOutputs THEN TagActive(m[o]) ELSE active[o]
      /\ told' = told \cup (DOMAIN m \cap mOutputs)
  BY <1>4 DEF onSocketReadyRead
<1>6. Truth(o)' = Truth(o) /\ tagset'[o] \ urgent'[o] = tagset[o] \ urgent[o]
  BY <1>1 DEF Truth, manager
<1> HIDE DEF m
<1>7. CASE TruthComes(o)
  <2>1. PICK i \in 1..Len(wire) :
          /\ o \in DOMAIN wire[i] /\ wire[i][o] = Truth(o)
          /\ \A j \in i+1..Len(wire) : o \notin DOMAIN wire[j]
    BY <1>7 DEF TruthComes
  <2>2. CASE i = 1
    <3>1. ASSUME NEW j \in 1..Len(wire') PROVE o \notin DOMAIN wire'[j]
      <4>1. j + 1 \in i+1..Len(wire)
        BY <1>2, <2>2
      <4> QED BY <1>2, <2>1, <4>1
    <3>2. o \in DOMAIN m /\ m[o] = [tags |-> tagset[o], urgent |-> urgent[o]]
      BY <1>2, <2>1, <2>2 DEF Truth
    <3>3. told \subseteq mOutputs
      BY DEF TInv, TypeOK
    <3>4. o \in told' => active'[o] = tagset[o] \ urgent[o]
      BY <1>5, <3>2, <3>3 DEF TagActive
    <3>5. TruthShown(o)'
      BY <1>6, <3>1, <3>4 DEF TruthShown
    <3> QED BY <3>5
  <2>3. CASE i # 1
    <3> DEFINE k == i - 1
    <3>1. k \in 1..Len(wire') /\ k + 1 = i
      BY <1>2, <2>1, <2>3
    <3> HIDE DEF k
    <3>2. o \in DOMAIN wire'[k] /\ wire'[k][o] = Truth(o)'
      BY <1>2, <1>6, <2>1, <3>1
    <3>3. ASSUME NEW j \in k+1..Len(wire') PROVE o \notin DOMAIN wire'[j]
      <4>1. j \in 1..Len(wire') /\ j + 1 \in i+1..Len(wire)
        BY <1>2, <3>1
      <4> QED BY <1>2, <2>1, <4>1
    <3>4. TruthComes(o)'
      BY <3>1, <3>2, <3>3 DEF TruthComes
    <3> QED BY <3>4
  <2> QED BY <2>2, <2>3
<1>8. CASE TruthShown(o)
  <2>1. o \notin DOMAIN m
    BY <1>2, <1>8 DEF TruthShown
  <2>2. \A i \in 1..Len(wire') : o \notin DOMAIN wire'[i]
    BY <1>2, <1>8 DEF TruthShown
  <2>3. o \in told' => active'[o] = tagset[o] \ urgent[o]
    BY <1>5, <1>8, <2>1 DEF TruthShown
  <2>4. TruthShown(o)'
    BY <1>6, <2>2, <2>3 DEF TruthShown
  <2> QED BY <2>4
<1> QED BY <1>3, <1>7, <1>8

LEMMA NextTrack == TInv /\ IInv /\ IInv' /\ TInv' /\ Track /\ [Next]_vars => Track'
<1> SUFFICES ASSUME TInv, IInv, IInv', TInv', Track, [Next]_vars PROVE Track'
  OBVIOUS
<1>1. CASE reconnect
  <2>1. ~peerOpen /\ mSocket = "unconnected"
    BY <1>1 DEF reconnect, IInv, OneWayForward, LinkType
  <2>2. ~peerOpen' \/ asked'
    BY <1>1, <2>1 DEF reconnect, connectSocket, Accepted, onSocketConnected, BacklogFull, onSocketErrorOccurred
  <2> QED BY <2>2, LinkTrack
<1>2. CASE ConnectingEnds \/ SocketFails
  <2>1. ~peerOpen' \/ asked'
    BY <1>2 DEF ConnectingEnds, SocketFails, Accepted, onSocketConnected, onSocketErrorOccurred
  <2> QED BY <2>1, LinkTrack
<1>3. CASE onSocketDisconnected \/ ManagerStops \/ ManagerDrops
  <2>1. ~peerOpen'
    BY <1>3 DEF onSocketDisconnected, ManagerStops, ManagerDrops
  <2> QED BY <2>1, LinkTrack
<1>4. CASE ManagerStarts
  BY <1>4, CalmTrack DEF ManagerStarts, shown
<1>5. CASE onScreenAdded
  <2> DEFINE p == Head(screenQ).output
  <2>1. UNCHANGED <<wire, manager, peerOpen, asked>>
    BY <1>5 DEF onScreenAdded, link
  <2>2. CASE p \in mOutputs
    BY <1>5, <2>1, <2>2, CalmTrack DEF onScreenAdded
  <2>3. CASE p \notin mOutputs
    <3>1. active' = [active EXCEPT ![p] = {}] /\ told' = told \ {p}
      BY <1>5, <2>3 DEF onScreenAdded
    <3>2. \A o \in told' : o \in told /\ active'[o] = active[o]
      BY <3>1 DEF TInv, TypeOK
    <3> QED BY <2>1, <3>2, CalmTrack
  <2> QED BY <2>2, <2>3
<1>6. CASE onScreenRemoved
  <2>1. UNCHANGED <<wire, manager, peerOpen, asked>>
    BY <1>6 DEF onScreenRemoved, link
  <2>2. \A o \in told' : o \in told /\ active'[o] = active[o]
    BY <1>6 DEF onScreenRemoved, TInv, TypeOK
  <2> QED BY <2>1, <2>2, CalmTrack
<1>7. CASE onSocketReadyRead
  BY <1>7, ReadTrack
<1>8. ASSUME NEW o \in Output, setTagsAll(o) \/ \E t \in Tag : setTagsView(o, t)
      PROVE  Track'
  <2>1. UNCHANGED <<link, shown, wire, manager>>
    BY <1>8 DEF setTagsAll, setTagsView
  <2> QED BY <2>1, CalmTrack DEF link, shown
<1>9. CASE ReadsWatch
  <2> SUFFICES ASSUME NEW o \in monitors' PROVE TruthComes(o)'
    BY DEF Track
  <2> DEFINE m == Report(monitors)
  <2>1. UNCHANGED <<monitors, tagset, urgent>> /\ wire' = Append(wire, m) /\ wire \in Seq(Message)
    BY <1>9 DEF ReadsWatch, manager, TInv, TypeOK
  <2>2. /\ m \in Message /\ DOMAIN m = monitors
        /\ m[o] = [tags |-> tagset'[o], urgent |-> urgent'[o]]
    BY <2>1, ReportOK DEF TInv, TypeOK
  <2> HIDE DEF m
  <2>3. o \in DOMAIN m /\ m[o] = Truth(o)'
    BY <2>1, <2>2 DEF Truth
  <2> QED BY <2>1, <2>2, <2>3, Told
<1>10. ASSUME NEW c \in BagToSet(cmds), CommandFails(c) \/ NoOutputLeft(c) PROVE Track'
  BY <1>10, CalmTrack DEF CommandFails, NoOutputLeft, link, shown
<1>11. ASSUME NEW c \in BagToSet(cmds), NEW o \in Output, Executes(c, o) PROVE Track'
  <2>1. /\ UNCHANGED <<link, mOutputs, active, told, monitors, urgent>> /\ Tell({o})
        /\ tagset' = [tagset EXCEPT ![o] = Viewed(c, tagset[o])]
    BY <1>11 DEF Executes, shown
  <2>2. \A q \in Output \ {o} : tagset'[q] = tagset[q] /\ urgent'[q] = urgent[q]
    BY <2>1 DEF TInv, TypeOK
  <2>3. tagset' \in [Output -> SUBSET Tag] /\ urgent' \in [Output -> SUBSET Tag]
    BY DEF TInv, TypeOK
  <2> QED BY <2>1, <2>2, <2>3, TellTrack
<1>12. ASSUME NEW o \in Output, NEW ts \in (SUBSET Tag) \ {{}}, NEW us \in SUBSET UrgentTag,
              ManagerChanges(o, ts, us)
       PROVE  Track'
  <2>1. /\ UNCHANGED <<link, mOutputs, active, told, monitors>> /\ Tell({o})
        /\ tagset' = [tagset EXCEPT ![o] = ts] /\ urgent' = [urgent EXCEPT ![o] = us]
    BY <1>12 DEF ManagerChanges, shown
  <2>2. \A q \in Output \ {o} : tagset'[q] = tagset[q] /\ urgent'[q] = urgent[q]
    BY <2>1 DEF TInv, TypeOK
  <2>3. tagset' \in [Output -> SUBSET Tag] /\ urgent' \in [Output -> SUBSET Tag]
    BY DEF TInv, TypeOK
  <2> QED BY <2>1, <2>2, <2>3, TellTrack
<1>13. ASSUME NEW o \in Output, Plugged(o) PROVE Track'
  <2>1. /\ UNCHANGED <<link, mOutputs, active, told>> /\ Tell({o})
        /\ monitors' = monitors \cup {o} /\ urgent' = [urgent EXCEPT ![o] = {}]
        /\ \E t \in Tag : tagset' = [tagset EXCEPT ![o] = {t}]
    BY <1>13 DEF Plugged
  <2>2. \A q \in Output \ {o} : tagset'[q] = tagset[q] /\ urgent'[q] = urgent[q]
    BY <2>1 DEF TInv, TypeOK
  <2>3. tagset' \in [Output -> SUBSET Tag] /\ urgent' \in [Output -> SUBSET Tag]
    BY DEF TInv, TypeOK
  <2> QED BY <2>1, <2>2, <2>3, TellTrack
<1>14. ASSUME NEW o \in Output, Unplugged(o) PROVE Track'
  <2> SUFFICES ASSUME peerOpen', ~asked', NEW q \in monitors' PROVE (TruthComes(q) \/ TruthShown(q))'
    BY DEF Track
  <2>1. UNCHANGED <<link, active, told, wire>> /\ q \in monitors \ {o}
    BY <1>14 DEF Unplugged
  <2>2. TruthComes(q) \/ TruthShown(q)
    BY <2>1 DEF Track, link
  <2>3. Truth(q)' = Truth(q) /\ tagset'[q] \ urgent'[q] = tagset[q] \ urgent[q]
    BY <1>14, <2>1 DEF Unplugged, Truth, TInv, TypeOK
  <2> QED BY <2>1, <2>2, <2>3, TruthKept
<1>15. CASE UNCHANGED vars
  BY <1>15, CalmTrack DEF vars, link, shown
<1> QED
  BY <1>1, <1>2, <1>3, <1>4, <1>5, <1>6, <1>7, <1>8, <1>9, <1>10, <1>11, <1>12, <1>13, <1>14, <1>15
     DEF Next, Client, Manager

LEMMA TrackAgrees == TInv /\ Track => TagsAgree
<1> SUFFICES ASSUME TInv, Track, peerOpen, ~asked, wire = << >>, NEW o \in told \cap monitors
             PROVE  active[o] = tagset[o] \ urgent[o]
  BY DEF TagsAgree
<1>1. Len(wire) = 0
  BY EmptySeq
<1>2. ~TruthComes(o)
  BY <1>1 DEF TruthComes
<1> QED BY <1>2 DEF Track, TruthShown

(* Once everything the manager sent is read, an output that was ever        *)
(* reported on shows the manager's tags (onSocketReadyRead, applyTags,      *)
(* onScreenAdded), for any outputs, hotplug and reconnections.              *)
THEOREM ShownTagsAgree == Spec => []TagsAgree
  BY InitIInv, NextIInv, InitTInv, NextTInv, InitTrack, NextTrack, TrackAgrees, PTL DEF Spec
-----------------------------------------------------------------------------
(* "View every tag".  While a goal is pending, only toggles of tags that    *)
(* are not viewed are on their way, each once, and a tag asked for is viewed *)
(* or its toggle is among them.                                             *)

Toggle(t) == [op |-> "toggleview", tag |-> t]

Needed(o) == {Toggle(t) : t \in Tag \ tagset[o]}

Pending(o) ==
  /\ monitors = {o}
  /\ DOMAIN cmds \subseteq Needed(o)
  /\ \A c \in DOMAIN cmds : cmds[c] = 1

GoalInv ==
  \A g \in goal :
    /\ Pending(g[1])
    /\ g[2] \in tagset[g[1]] \/ Toggle(g[2]) \in DOMAIN cmds

LEMMA BagOfNew ==
  ASSUME NEW S
  PROVE  /\ DOMAIN (EmptyBag (+) SetToBag(S)) = S
         /\ \A c \in S : (EmptyBag (+) SetToBag(S))[c] = 1
  BY DEF (+), SetToBag, EmptyBag

LEMMA BagTake ==
  ASSUME NEW b, NEW c \in DOMAIN b, \A e \in DOMAIN b : b[e] = 1
  PROVE  /\ DOMAIN (b (-) SetToBag({c})) = DOMAIN b \ {c}
         /\ \A e \in DOMAIN b \ {c} : (b (-) SetToBag({c}))[e] = 1
  BY DEF (-), SetToBag

LEMMA InitGoal == Init => GoalInv
  BY DEF Init, Blank, GoalInv

LEMMA CalmGoal ==
  ASSUME GoalInv, UNCHANGED <<monitors, tagset, cmds>>, goal' \subseteq goal
  PROVE  GoalInv'
  BY DEF GoalInv, Pending, Needed

(* The toggles are computed from flags that are the manager's.              *)
LEMMA FreshGoal ==
  ASSUME TInv, Track, NEW o \in Output, setTagsAll(o)
  PROVE  GoalInv'
<1>1. CASE ~Fresh(o)
  <2>1. goal' = {}
    BY <1>1 DEF setTagsAll
  <2> QED BY <2>1 DEF GoalInv
<1>2. CASE Fresh(o)
  <2>1. /\ mConnected /\ peerOpen /\ wmUp /\ ~asked /\ wire = << >> /\ cmds = EmptyBag
        /\ o \in told /\ monitors = {o} /\ urgent[o] \cap tagset[o] = {}
    BY <1>2 DEF Fresh
  <2>2. /\ goal' = {o} \X Tag /\ UNCHANGED <<monitors, tagset>>
        /\ cmds' = EmptyBag (+) SetToBag(toggles(o))
    BY <1>2, <2>1 DEF setTagsAll, sendCommand, manager
  <2>3. ~TruthComes(o)
    <3>1. Len(wire) = 0
      BY <2>1, EmptySeq
    <3> QED BY <3>1 DEF TruthComes
  <2>4. active[o] = tagset[o]
    BY <2>1, <2>3 DEF Track, TruthShown
  <2>5. toggles(o) = Needed(o)'
    BY <2>2, <2>4 DEF toggles, Needed, Toggle
  <2>6. DOMAIN cmds' = Needed(o)' /\ \A c \in DOMAIN cmds' : cmds'[c] = 1
    BY <2>2, <2>5, BagOfNew
  <2>7. Pending(o)'
    BY <2>1, <2>2, <2>6 DEF Pending
  <2>8. ASSUME NEW t \in Tag PROVE t \in tagset'[o] \/ Toggle(t) \in DOMAIN cmds'
    BY <2>6 DEF Needed
  <2> QED BY <2>2, <2>7, <2>8 DEF GoalInv
<1> QED BY <1>1, <1>2

(* What is on its way is the toggle of a tag that is not viewed, and is     *)
(* there once: taken or failed, it is gone and the others are left.         *)
LEMMA ToggleLeaves ==
  ASSUME NEW q, Pending(q), NEW c \in BagToSet(cmds), cmds' = cmds (-) SetToBag({c})
  PROVE  /\ \E t \in Tag \ tagset[q] : c = Toggle(t)
         /\ DOMAIN cmds' = DOMAIN cmds \ {c}
         /\ \A e \in DOMAIN cmds' : cmds'[e] = 1
<1>1. c \in DOMAIN cmds /\ DOMAIN cmds \subseteq Needed(q) /\ \A e \in DOMAIN cmds : cmds[e] = 1
  BY DEF Pending, BagToSet
<1>2. /\ DOMAIN (cmds (-) SetToBag({c})) = DOMAIN cmds \ {c}
      /\ \A e \in DOMAIN cmds \ {c} : (cmds (-) SetToBag({c}))[e] = 1
  BY <1>1, BagTake
<1>3. \E t \in Tag \ tagset[q] : c = Toggle(t)
  BY <1>1 DEF Needed
<1>4. DOMAIN cmds' = DOMAIN cmds \ {c} /\ \A e \in DOMAIN cmds' : cmds'[e] = 1
  BY <1>2, Zenon
<1> QED BY <1>3, <1>4

(* Taking one toggle views its tag and leaves the others to be taken.       *)
LEMMA ToggleGoal ==
  ASSUME TInv, GoalInv, NEW c \in BagToSet(cmds), NEW o \in Output, Executes(c, o)
  PROVE  GoalInv'
<1> SUFFICES ASSUME NEW g \in goal
             PROVE  Pending(g[1])' /\ (g[2] \in tagset'[g[1]] \/ Toggle(g[2]) \in DOMAIN cmds')
  <2>1. goal' = goal
    BY DEF Executes
  <2> QED BY <2>1 DEF GoalInv
<1> DEFINE q == g[1]
<1>1. Pending(q) /\ (g[2] \in tagset[q] \/ Toggle(g[2]) \in DOMAIN cmds)
  BY DEF GoalInv
<1>2. /\ o = q /\ q \in Output /\ cmds' = cmds (-) SetToBag({c}) /\ monitors' = monitors
      /\ tagset' = [tagset EXCEPT ![o] = Viewed(c, tagset[o])]
  BY <1>1 DEF Executes, Pending
<1> HIDE DEF q
<1>3. /\ DOMAIN cmds' = DOMAIN cmds \ {c}
      /\ \A e \in DOMAIN cmds' : cmds'[e] = 1
  BY <1>1, <1>2, ToggleLeaves
<1>4. PICK t \in Tag \ tagset[q] : c = Toggle(t)
  BY <1>1, <1>2, ToggleLeaves
<1>5. tagset'[q] = tagset[q] \cup {t}
  <2>1. Viewed(c, tagset[q]) = tagset[q] \cup {t}
    BY <1>4 DEF Viewed, Toggle
  <2> QED BY <1>2, <2>1 DEF TInv, TypeOK
<1>6. Needed(q)' = Needed(q) \ {c}
  BY <1>4, <1>5 DEF Needed, Toggle
<1>7. Pending(q)'
  BY <1>1, <1>2, <1>3, <1>6 DEF Pending
<1>8. g[2] \in tagset'[q] \/ Toggle(g[2]) \in DOMAIN cmds'
  BY <1>1, <1>3, <1>4, <1>5 DEF Toggle
<1> QED BY <1>7, <1>8 DEF q

(* A toggle whose socket fails is lost with the tag it was for; the others  *)
(* stay on their way.                                                       *)
LEMMA FailedGoal ==
  ASSUME GoalInv, NEW c \in BagToSet(cmds), CommandFails(c)
  PROVE  GoalInv'
<1> SUFFICES ASSUME NEW g \in goal, g[2] # c.tag
             PROVE  Pending(g[1])' /\ (g[2] \in tagset'[g[1]] \/ Toggle(g[2]) \in DOMAIN cmds')
  <2>1. goal' = {g \in goal : g[2] # c.tag}
    BY DEF CommandFails
  <2> QED BY <2>1 DEF GoalInv
<1>1. Pending(g[1]) /\ (g[2] \in tagset[g[1]] \/ Toggle(g[2]) \in DOMAIN cmds)
  BY DEF GoalInv
<1>2. cmds' = cmds (-) SetToBag({c}) /\ UNCHANGED <<monitors, tagset>>
  BY DEF CommandFails, manager
<1>3. /\ DOMAIN cmds' = DOMAIN cmds \ {c}
      /\ \A e \in DOMAIN cmds' : cmds'[e] = 1
  BY <1>1, <1>2, ToggleLeaves
<1>4. Pending(g[1])'
  BY <1>1, <1>2, <1>3 DEF Pending, Needed
<1>5. Toggle(g[2]) # c
  BY DEF Toggle
<1> QED BY <1>1, <1>2, <1>3, <1>4, <1>5

LEMMA NextGoal == TInv /\ Track /\ GoalInv /\ [Next]_vars => GoalInv'
<1> SUFFICES ASSUME TInv, Track, GoalInv, [Next]_vars PROVE GoalInv'
  OBVIOUS
<1>1. CASE reconnect \/ ConnectingEnds \/ onSocketDisconnected \/ SocketFails \/ onScreenAdded
             \/ onScreenRemoved \/ onSocketReadyRead \/ ReadsWatch \/ ManagerDrops \/ ManagerStarts
  <2>1. UNCHANGED <<manager, cmds, goal>>
    BY <1>1 DEF reconnect, ConnectingEnds, onSocketDisconnected, SocketFails, onScreenAdded,
                onScreenRemoved, onSocketReadyRead, ReadsWatch, ManagerDrops, ManagerStarts
  <2> QED BY <2>1, CalmGoal DEF manager
<1>2. ASSUME NEW o \in Output, setTagsAll(o) PROVE GoalInv'
  BY <1>2, FreshGoal
<1>3. CASE \/ ManagerStops
           \/ \E o \in Output :
                \/ Plugged(o) \/ Unplugged(o)
                \/ \E t \in Tag : setTagsView(o, t)
                \/ \E ts \in (SUBSET Tag) \ {{}}, us \in SUBSET UrgentTag : ManagerChanges(o, ts, us)
  <2>1. goal' = {}
    BY <1>3 DEF ManagerStops, Plugged, Unplugged, setTagsView, ManagerChanges
  <2> QED BY <2>1 DEF GoalInv
<1>4. ASSUME NEW c \in BagToSet(cmds), NoOutputLeft(c) PROVE GoalInv'
  <2>1. monitors = {} /\ goal' = goal
    BY <1>4 DEF NoOutputLeft
  <2> QED BY <2>1 DEF GoalInv, Pending
<1>5. ASSUME NEW c \in BagToSet(cmds), NEW o \in Output, Executes(c, o) PROVE GoalInv'
  BY <1>5, ToggleGoal
<1>6. ASSUME NEW c \in BagToSet(cmds), CommandFails(c) PROVE GoalInv'
  BY <1>6, FailedGoal
<1>7. CASE UNCHANGED vars
  BY <1>7, CalmGoal DEF vars, manager
<1> QED BY <1>1, <1>2, <1>3, <1>4, <1>5, <1>6, <1>7 DEF Next, Client, Manager

LEMMA GoalReached == GoalInv => ViewAllReaches
  BY BagEmpty DEF GoalInv, ViewAllReaches

(* setTags(-1), computed from fresh flags and left alone, ends with every    *)
(* tag viewed whose toggle did not fail on its own socket, in whatever order *)
(* the manager takes the others (output.cpp's setTags, manager.cpp's         *)
(* sendCommand), for any number of outputs and tags.                         *)
THEOREM EveryTagReached == Spec => []ViewAllReaches
  BY InitIInv, NextIInv, InitTInv, NextTInv, InitTrack, NextTrack, InitGoal, NextGoal, GoalReached, PTL
     DEF Spec
-----------------------------------------------------------------------------
(* Liveness.  The provers cannot look into ENABLED.  What the theorems need  *)
(* to know of it is a hypothesis: an expired timer can be served with        *)
(* success while the manager is reachable, and an attempt can end.          *)

Idling == mReconnectTimer /\ mSocket = "unconnected"

TimerTurn == Idling /\ env /\ wmUp

LinkReady ==
  /\ TimerTurn => ENABLED <<reconnect /\ mConnected'>>_vars
  /\ mSocket = "connecting" => ENABLED <<ConnectingEnds>>_vars

(* A client that is not connected is waiting for its timer or attempting.   *)
LEMMA OneWay ==
  IInv => /\ Link!Retriable => ~mConnected /\ env /\ wmUp
          /\ ~mConnected => Idling \/ mSocket = "connecting"
          /\ Idling \/ mSocket = "connecting" => ~mConnected
          /\ ~mConnected /\ env /\ wmUp => Link!Retriable
  BY DEF IInv, LinkType, OneWayForward, Idling, Link!Retriable

(* A step that connects establishes the link.                               *)
LEMMA ConnectingEstablishes ==
  ASSUME IInv, IInv', [Next]_vars, ~mConnected, mConnected'
  PROVE  <<Link!Establish>>_Link!vars
<1>1. [Link!Next]_Link!vars
  BY StepLink
<1> QED
  BY <1>1 DEF IInv, LinkType, OneWayForward, Link!Next, Link!Establish, Link!Lose, Link!DaemonChanges, Link!vars

(* An attempt that ends succeeds or arms the timer.                         *)
LEMMA AttemptEnds == IInv' /\ ConnectingEnds => mConnected' \/ Idling'
  BY DEF ConnectingEnds, Accepted, onSocketConnected, onSocketErrorOccurred, IInv, OneWayForward, Idling

(* An attempt that is left pending was made with a signature.               *)
LEMMA NextStartsAttempt ==
  ASSUME IInv, [Next]_vars, mSocket = "unconnected", ~(env /\ wmUp)
  PROVE  mSocket' # "connecting"
<1>1. CASE reconnect
  BY <1>1 DEF reconnect, connectSocket, Accepted, BacklogFull, onSocketConnected, onSocketErrorOccurred
<1>2. CASE ConnectingEnds \/ onSocketDisconnected \/ SocketFails
  BY <1>2 DEF ConnectingEnds, onSocketDisconnected, SocketFails
<1>3. CASE onScreenAdded \/ onScreenRemoved \/ onSocketReadyRead \/ UNCHANGED vars
  BY <1>3 DEF onScreenAdded, onScreenRemoved, onSocketReadyRead, vars, link
<1>4. ASSUME NEW o \in Output, setTagsAll(o) \/ \E t \in Tag : setTagsView(o, t) PROVE mSocket' = mSocket
  BY <1>4 DEF setTagsAll, setTagsView, link
<1>5. CASE ReadsWatch \/ ManagerStops \/ ManagerDrops \/ ManagerStarts
  BY <1>5 DEF ReadsWatch, ManagerStops, ManagerDrops, ManagerStarts
<1>6. ASSUME NEW c \in BagToSet(cmds),
             CommandFails(c) \/ NoOutputLeft(c) \/ \E o \in Output : Executes(c, o)
      PROVE  mSocket' = mSocket
  BY <1>6 DEF CommandFails, NoOutputLeft, Executes, link
<1>7. ASSUME NEW o \in Output,
              \/ Plugged(o) \/ Unplugged(o)
              \/ \E ts \in (SUBSET Tag) \ {{}}, us \in SUBSET UrgentTag : ManagerChanges(o, ts, us)
      PROVE  mSocket' = mSocket
  BY <1>7 DEF Plugged, Unplugged, ManagerChanges, link
<1> QED
  BY <1>1, <1>2, <1>3, <1>4, <1>5, <1>6, <1>7 DEF Next, Client, Manager

(* Only a manager that is reachable takes a client out of its waiting.      *)
LEMMA IdlingKeeps == IInv /\ Idling /\ [Next]_vars => Idling' \/ TimerTurn \/ mConnected'
<1> SUFFICES ASSUME IInv, Idling, [Next]_vars, ~mConnected', ~(env /\ wmUp)
             PROVE  Idling'
  BY DEF TimerTurn
<1>1. IInv'
  BY NextIInv
<1>2. mSocket' # "connecting"
  BY NextStartsAttempt DEF Idling
<1> QED
  BY <1>1, <1>2, OneWay DEF IInv, LinkType, OneWayForward, Idling

\* The client is a link that is retried until it is up, even if the manager is
\* only reachable from time to time: an attempt that hangs ends and arms the
\* timer, a client that waits is not moved before the manager is reachable, so
\* the timer expires then, again and again, and FairSpec lets an attempt succeed.
THEOREM FairLinkImplemented == FairSpec /\ []LinkReady => ImplementsLink
<1>1. Spec => []IInv
  BY InitIInv, NextIInv, PTL DEF Spec
<1>2. IInv => /\ Link!Retriable => ~mConnected /\ env /\ wmUp
              /\ ~mConnected => Idling \/ mSocket = "connecting"
              /\ Idling \/ mSocket = "connecting" => ~mConnected
  BY OneWay
<1>3. IInv /\ IInv' /\ [Next]_vars /\ ~mConnected => ~mConnected' \/ <<Link!Establish>>_Link!vars
  BY ConnectingEstablishes
<1>4. IInv' /\ <<ConnectingEnds>>_vars => mConnected' \/ Idling'
  BY AttemptEnds
<1>5. IInv /\ Idling /\ [Next]_vars => Idling' \/ TimerTurn \/ mConnected'
  BY IdlingKeeps
<1>6. LinkReady => /\ TimerTurn => ENABLED <<reconnect /\ mConnected'>>_vars
                   /\ mSocket = "connecting" => ENABLED <<ConnectingEnds>>_vars
  BY DEF LinkReady
<1>7. <<reconnect /\ mConnected'>>_vars => mConnected'
  OBVIOUS
<1>8. Idling /\ env /\ wmUp => TimerTurn
  BY DEF TimerTurn
<1>9. FairSpec /\ []LinkReady => Link!Retried
  BY <1>1, <1>2, <1>3, <1>4, <1>5, <1>6, <1>7, <1>8, PTL DEF FairSpec, Spec, Link!Retried
<1> QED
  BY <1>9, LinkImplemented, PTL DEF FairSpec, ImplementsLink, Link!FairSpec

\* A manager that stays reachable is found again, however the link was lost
\* and however often attempts hang or fail: the link promises it.
THEOREM ManagerFoundAgain == FairSpec /\ []LinkReady => Reconnects
<1>1. Spec => []IInv
  BY InitIInv, NextIInv, PTL DEF Spec
<1>2. IInv /\ ~mConnected => Link!Retriable \/ ~env \/ ~wmUp
  BY OneWay
<1>3. Link!Retriable /\ [Link!Next]_Link!vars =>
        Link!Retriable' \/ ~env' \/ ~wmUp' \/ <<Link!Establish>>_Link!vars
  BY DEF Link!Retriable, Link!Next, Link!Lose, Link!Establish, Link!DaemonChanges, Link!vars
<1>4. IInv' /\ <<Link!Establish>>_Link!vars => mConnected'
  BY DEF IInv, LinkType, OneWayForward, Link!Establish
<1> QED
  BY <1>1, <1>2, <1>3, <1>4, FairLinkImplemented, PTL
     DEF FairSpec, Reconnects, ImplementsLink, Link!FairSpec, Link!Spec, Link!Retried
=============================================================================
