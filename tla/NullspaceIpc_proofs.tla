------------------------ MODULE NullspaceIpc_proofs ------------------------
(***************************************************************************)
(* Proofs about the nullspace client: it keeps one way forward and          *)
(* implements the retried link, never joins pieces of two connections, and  *)
(* shows what the manager reports; a manager that stays is found again.     *)
(***************************************************************************)
EXTENDS NullspaceIpc, SequenceTheorems, TLAPS

(* The part of the types the link needs.                                    *)
LinkType ==
  /\ env \in BOOLEAN /\ mConnected \in BOOLEAN /\ mReconnectTimer \in BOOLEAN
  /\ mSocket \in {"unconnected", "connecting", "connected"}
  /\ wmUp \in BOOLEAN /\ peerOpen \in BOOLEAN

(* A socket is only tried with a signature.                                 *)
Signed == mSocket # "unconnected" => env

(* The manager speaks to a peer that is there, and knows its requests.      *)
Silent == ~peerOpen => subscribed = FALSE /\ owed = {} /\ sent = <<>>

IInv == LinkType /\ OneWayForward /\ Signed /\ Silent

LEMMA InitIInv == Init => IInv
  BY DEF Init, Blank, IInv, LinkType, OneWayForward, Signed, Silent

(* The three outcomes of an attempt: at once, later, or refused.            *)
LEMMA AttemptIInv ==
  ASSUME IInv, env, UNCHANGED <<env, wmUp>>,
         Accepted \/ onErrorOccurred \/ (BacklogFull /\ mSocket = "unconnected")
  PROVE  IInv'
<1> USE DEF IInv, LinkType, OneWayForward, Signed, Silent
<1>1. CASE Accepted
  BY <1>1 DEF Accepted, onConnected
<1>2. CASE onErrorOccurred
  BY <1>2 DEF onErrorOccurred
<1>3. CASE BacklogFull /\ mSocket = "unconnected"
  BY <1>3 DEF BacklogFull
<1> QED BY <1>1, <1>2, <1>3

LEMMA NextIInv == IInv /\ [Next]_vars => IInv'
<1> SUFFICES ASSUME IInv, [Next]_vars PROVE IInv'
  OBVIOUS
<1>1. CASE tryReconnect
  <2>1. mSocket = "unconnected" /\ mConnected = FALSE /\ peerOpen = FALSE /\ mReconnectTimer = TRUE
    BY <1>1 DEF tryReconnect, IInv, LinkType, OneWayForward
  <2>2. UNCHANGED <<env, wmUp>>
    BY <1>1 DEF tryReconnect
  <2>3. CASE ~env
    <3>1. UNCHANGED <<mReconnectTimer, mSocket, mConnected, peerOpen, sent, subscribed, owed>>
      BY <1>1, <2>1, <2>3 DEF tryReconnect, connectSocket
    <3> QED BY <2>2, <3>1 DEF IInv, LinkType, OneWayForward, Signed, Silent
  <2>4. CASE env
    BY <1>1, <2>1, <2>2, <2>4, AttemptIInv DEF tryReconnect, connectSocket
  <2> QED BY <2>3, <2>4
<1>2. CASE ConnectingEnds
  <2>1. UNCHANGED <<env, wmUp>> /\ (Accepted \/ onErrorOccurred) /\ env
    BY <1>2 DEF ConnectingEnds, IInv, Signed
  <2> QED BY <2>1, AttemptIInv
<1>3. CASE onDisconnected
  BY <1>3 DEF IInv, LinkType, OneWayForward, Signed, Silent, onDisconnected
<1>4. CASE SocketFails
  <2>1. UNCHANGED <<env, wmUp>> /\ onErrorOccurred /\ env
    BY <1>4 DEF SocketFails, IInv, Signed
  <2> QED BY <2>1, AttemptIInv
<1>5. CASE onReadyRead
  <2>1. UNCHANGED <<link, sent, subscribed, owed>>
    BY <1>5 DEF onReadyRead
  <2> QED BY <2>1 DEF link, IInv, LinkType, OneWayForward, Signed, Silent
<1>6. ASSUME NEW s \in Space, switchSpace(s) PROVE IInv'
  <2>1. UNCHANGED <<link, subscribed, owed>> /\ (~peerOpen => sent' = sent)
    BY <1>6 DEF switchSpace
  <2> QED BY <2>1 DEF link, IInv, LinkType, OneWayForward, Signed, Silent
<1>7. CASE ReadsRequest
  <2>1. UNCHANGED link /\ peerOpen
    BY <1>7 DEF ReadsRequest
  <2> QED BY <2>1 DEF link, IInv, LinkType, OneWayForward, Signed, Silent
<1>8. ASSUME NEW t \in Topic, Reports(t) PROVE IInv'
  <2>1. UNCHANGED link /\ peerOpen
    BY <1>8 DEF Reports
  <2> QED BY <2>1 DEF link, IInv, LinkType, OneWayForward, Signed, Silent
<1>9. ASSUME NEW s \in Space, UserSwitches(s) \/ Urgency(s) PROVE IInv'
  <2>1. UNCHANGED <<link, sent, subscribed>> /\ (~subscribed => owed' = owed)
    BY <1>9 DEF UserSwitches, Urgency
  <2> QED BY <2>1 DEF link, IInv, LinkType, OneWayForward, Signed, Silent
<1>10. CASE Closes
  BY <1>10 DEF Closes, IInv, LinkType, OneWayForward, Signed, Silent
<1>11. CASE ManagerToggles
  BY <1>11 DEF ManagerToggles, IInv, LinkType, OneWayForward, Signed, Silent
<1>12. CASE UNCHANGED vars
  BY <1>12 DEF vars, link, IInv, LinkType, OneWayForward, Signed, Silent
<1> QED
  BY <1>1, <1>2, <1>3, <1>4, <1>5, <1>6, <1>7, <1>8, <1>9, <1>10, <1>11, <1>12
  DEF Next, Client, Manager

(* Between callbacks the client is connected, attempting, or has armed its  *)
(* timer, and exactly one of these (ipc.cpp:86-134).                        *)
THEOREM OneWayForwardHolds == Spec => []OneWayForward
<1>1. IInv => OneWayForward
  BY DEF IInv
<1> QED BY InitIInv, NextIInv, <1>1, PTL DEF Spec

-----------------------------------------------------------------------------
LEMMA InitLink == Init => Link!Init
  BY DEF Init, Link!Init, Link!Phase

(* A step that leaves the link alone is a stutter of it.                    *)
LEMMA LinkStutters ==
  ASSUME UNCHANGED <<env, mSocket, mConnected, mReconnectTimer, wmUp>>
  PROVE  UNCHANGED Link!vars
  BY DEF Link!vars

(* Only the manager makes itself reachable or not.                          *)
LEMMA ManagerStep ==
  ASSUME IInv, UNCHANGED <<env, mSocket, mConnected, mReconnectTimer>>,
         wmUp' \in {wmUp, ~wmUp}
  PROVE  [Link!Next]_Link!vars
<1> USE DEF IInv, LinkType, Link!Next, Link!vars
<1>1. CASE wmUp' = wmUp \/ ~env
  BY <1>1
<1>2. CASE wmUp' = ~wmUp /\ env
  BY <1>2 DEF Link!DaemonChanges
<1> QED BY <1>1, <1>2

LEMMA StepLink == IInv /\ [Next]_vars => [Link!Next]_Link!vars
<1> SUFFICES ASSUME IInv, [Next]_vars PROVE [Link!Next]_Link!vars
  OBVIOUS
<1> USE DEF IInv, LinkType, OneWayForward, Link!Next, Link!vars
<1>1. CASE tryReconnect
  <2>1. mSocket = "unconnected" /\ mConnected = FALSE /\ mReconnectTimer = TRUE /\ UNCHANGED <<env, wmUp>>
    BY <1>1 DEF tryReconnect
  <2>2. CASE ~env
    BY <1>1, <2>1, <2>2 DEF tryReconnect, connectSocket
  <2>3. CASE env /\ Accepted
    BY <2>1, <2>3 DEF Accepted, onConnected, Link!Establish, Link!Retriable
  <2>4. CASE env /\ BacklogFull
    BY <2>1, <2>4 DEF BacklogFull
  <2>5. CASE env /\ onErrorOccurred
    BY <2>1, <2>5 DEF onErrorOccurred
  <2> QED BY <1>1, <2>1, <2>2, <2>3, <2>4, <2>5 DEF tryReconnect, connectSocket
<1>2. CASE ConnectingEnds
  <2>1. mSocket = "connecting" /\ ~mConnected /\ env /\ UNCHANGED <<env, wmUp>>
    BY <1>2 DEF ConnectingEnds, Signed
  <2>2. CASE Accepted
    BY <2>1, <2>2 DEF Accepted, onConnected, Link!Establish, Link!Retriable
  <2>3. CASE onErrorOccurred
    BY <2>1, <2>3 DEF onErrorOccurred
  <2> QED BY <1>2, <2>2, <2>3 DEF ConnectingEnds
<1>3. CASE onDisconnected
  BY <1>3 DEF onDisconnected, Link!Lose
<1>4. CASE SocketFails
  BY <1>4 DEF SocketFails, onErrorOccurred, Link!Lose
<1>5. CASE onReadyRead \/ ReadsRequest
  BY <1>5, LinkStutters DEF onReadyRead, ReadsRequest, link
<1>6. ASSUME NEW s \in Space, switchSpace(s) \/ UserSwitches(s) \/ Urgency(s)
      PROVE  UNCHANGED Link!vars
  BY <1>6, LinkStutters DEF switchSpace, UserSwitches, Urgency, link
<1>7. ASSUME NEW t \in Topic, Reports(t) PROVE UNCHANGED Link!vars
  BY <1>7, LinkStutters DEF Reports, link
<1>8. CASE Closes \/ ManagerToggles
  <2>1. UNCHANGED <<env, mSocket, mConnected, mReconnectTimer>> /\ wmUp' \in {wmUp, ~wmUp}
    BY <1>8 DEF Closes, ManagerToggles
  <2> QED BY <2>1, ManagerStep
<1>9. CASE UNCHANGED vars
  BY <1>9, LinkStutters DEF vars, link
<1> QED
  BY <1>1, <1>2, <1>3, <1>4, <1>5, <1>6, <1>7, <1>8, <1>9 DEF Next, Client, Manager

(* The client is a link that is retried until it is up: the handlers of     *)
(* ipc.cpp implement RetryLink's specification.                             *)
THEOREM LinkImplemented == Spec => Link!Spec
  BY InitIInv, NextIInv, InitLink, StepLink, PTL DEF Spec, Link!Spec

-----------------------------------------------------------------------------
(* Framing.  What is buffered and what is under way, in order; while the    *)
(* manager is there these are whole lines.                                  *)
Bytes == mReadBuffer \o wire

Framed(b) ==
  /\ \A i \in 1..Len(b) : b[i].part = IF i % 2 = 1 THEN "head" ELSE "tail"
  /\ \A i \in 1..Len(b) - 1 : i % 2 = 1 => b[i].line = b[i + 1].line

FrameInv ==
  /\ mReadBuffer \in Seq(Half) /\ wire \in Seq(Half)
  /\ mSocket = "connected" => Framed(Bytes)
  /\ peerOpen => Len(Bytes) % 2 = 0

LEMMA FramedEmpty == Framed(<<>>)
  BY DEF Framed

LEMMA BytesAssociate ==
  ASSUME NEW a \in Seq(Half), NEW b \in Seq(Half), NEW c \in Seq(Half)
  PROVE  (a \o b) \o c = a \o (b \o c)
  BY ConcatAssociative

LEMMA Parity ==
  ASSUME NEW i \in Nat, NEW n \in Nat, n % 2 = 0
  PROVE  (i + n) % 2 = i % 2 /\ (n + 1) % 2 = 1 /\ (n + 2) % 2 = 0
  OBVIOUS

(* A line is added behind whole lines.                                      *)
LEMMA FramedAppend ==
  ASSUME NEW b \in Seq(Half), Framed(b), NEW c \in Seq(Half),
         NEW n \in Nat, n = Len(b), n % 2 = 0, Len(c) = n + 2,
         \A i \in 1..n : c[i] = b[i],
         c[n + 1].part = "head", c[n + 2].part = "tail", c[n + 1].line = c[n + 2].line
  PROVE  Framed(c) /\ Len(c) % 2 = 0
<1>1. (n + 1) % 2 = 1 /\ (n + 2) % 2 = 0
  BY Parity
<1>2. ASSUME NEW i \in 1..Len(c) PROVE c[i].part = IF i % 2 = 1 THEN "head" ELSE "tail"
  <2>1. i \in 1..n \/ i = n + 1 \/ i = n + 2
    OBVIOUS
  <2>2. CASE i \in 1..n
    BY <2>2 DEF Framed
  <2>3. CASE i = n + 1
    BY <1>1, <2>3
  <2>4. CASE i = n + 2
    <3>1. i % 2 # 1
      BY <1>1, <2>4
    <3> QED BY <3>1, <2>4
  <2> QED BY <2>1, <2>2, <2>3, <2>4
<1>3. ASSUME NEW i \in 1..Len(c) - 1, i % 2 = 1 PROVE c[i].line = c[i + 1].line
  <2>1. i \in 1..n - 1 \/ i = n + 1
    BY <1>3
  <2>2. CASE i \in 1..n - 1
    BY <1>3, <2>2 DEF Framed
  <2>3. CASE i = n + 1
    <3>1. i + 1 = n + 2
      BY <2>3
    <3> QED BY <2>3, <3>1
  <2> QED BY <2>1, <2>2, <2>3
<1> QED BY <1>1, <1>2, <1>3 DEF Framed

(* The first pieces, in even number, are taken away.                        *)
LEMMA FramedSuffix ==
  ASSUME NEW b \in Seq(Half), Framed(b), NEW c \in Seq(Half),
         NEW n \in Nat, n % 2 = 0, Len(b) = Len(c) + n,
         \A i \in 1..Len(c) : c[i] = b[i + n]
  PROVE  Framed(c) /\ Len(c) % 2 = Len(b) % 2
<1>1. Len(c) \in Nat
  OBVIOUS
<1>2. ASSUME NEW i \in 1..Len(c) PROVE i + n \in 1..Len(b) /\ (i + n) % 2 = i % 2
  <2>1. i + n \in 1..Len(b)
    BY <1>1
  <2>2. i \in Nat
    BY <1>1
  <2>3. (i + n) % 2 = i % 2
    BY <2>2, Parity
  <2> QED BY <2>1, <2>3
<1>3. \A i \in 1..Len(c) : c[i].part = IF i % 2 = 1 THEN "head" ELSE "tail"
  BY <1>2 DEF Framed
<1>4. ASSUME NEW i \in 1..Len(c) - 1, i % 2 = 1 PROVE c[i].line = c[i + 1].line
  <2>1. i \in 1..Len(c) /\ i + 1 \in 1..Len(c) /\ i \in Nat
    BY <1>1
  <2>2. (i + n) % 2 = 1
    BY <1>2, <1>4, <2>1
  <2>3. i + n \in 1..Len(b) - 1 /\ (i + n) + 1 = (i + 1) + n
    BY <1>1
  <2>4. b[i + n].line = b[(i + n) + 1].line
    BY <2>2, <2>3 DEF Framed
  <2> QED BY <2>1, <2>3, <2>4
<1>5. Len(c) % 2 = Len(b) % 2
  <2> DEFINE m == Len(c)
  <2>1. m \in Nat
    BY <1>1
  <2>3. Len(b) = m + n
    OBVIOUS
  <2> HIDE DEF m
  <2>2. (m + n) % 2 = m % 2
    BY <2>1, Parity
  <2>4. Len(b) % 2 = m % 2
    BY <2>2, <2>3
  <2> QED BY <2>4 DEF m
<1> QED BY <1>3, <1>4, <1>5 DEF Framed

(* The last pieces are cut off.                                             *)
LEMMA FramedPrefix ==
  ASSUME NEW b \in Seq(Half), Framed(b), NEW c \in Seq(Half), Len(c) <= Len(b),
         \A i \in 1..Len(c) : c[i] = b[i]
  PROVE  Framed(c)
<1>1. Len(b) \in Nat /\ Len(c) \in Nat
  OBVIOUS
<1>2. \A i \in 1..Len(c) : c[i].part = IF i % 2 = 1 THEN "head" ELSE "tail"
  BY <1>1 DEF Framed
<1>3. ASSUME NEW i \in 1..Len(c) - 1, i % 2 = 1 PROVE c[i].line = c[i + 1].line
  <2>1. i \in 1..Len(b) - 1 /\ i \in 1..Len(c) /\ i + 1 \in 1..Len(c)
    BY <1>1
  <2>2. b[i].line = b[i + 1].line
    BY <1>3, <2>1 DEF Framed
  <2> QED BY <2>1, <2>2
<1> QED BY <1>2, <1>3 DEF Framed

(* What is read goes to the buffer, or completes what it holds.             *)
LEMMA ReadFrames ==
  ASSUME FrameInv, onReadyRead PROVE FrameInv'
<1>1. mSocket = "connected" /\ wire # <<>> /\ wire' = Tail(wire) /\ Framed(Bytes)
      /\ UNCHANGED <<mSocket, peerOpen>>
  BY DEF onReadyRead, link, FrameInv
<1>2. Bytes \in Seq(Half) /\ Head(wire) \in Half /\ Len(Bytes) = Len(mReadBuffer) + Len(wire)
  BY <1>1 DEF Bytes, FrameInv
<1>3. CASE Head(wire).part = "head"
  <2>1. mReadBuffer' = Append(mReadBuffer, Head(wire))
    BY <1>3 DEF onReadyRead
  <2>2. mReadBuffer' \in Seq(Half) /\ wire' \in Seq(Half)
    BY <1>1, <1>2, <2>1 DEF FrameInv
  <2>3. Bytes' = Bytes
    BY <1>1, <2>1 DEF Bytes, FrameInv
  <2> QED BY <1>1, <2>2, <2>3 DEF FrameInv
<1>4. CASE Head(wire).part # "head"
  <2> DEFINE n == Len(mReadBuffer) + 1
  <2>1. mReadBuffer' = <<>> /\ wire' \in Seq(Half)
    BY <1>1, <1>4 DEF onReadyRead, FrameInv
  <2>2. Bytes' = wire'
    BY <2>1 DEF Bytes
  <2>3. n \in 1..Len(Bytes) /\ Bytes[n] = Head(wire)
    BY <1>1, <1>2 DEF Bytes, FrameInv
  <2>4. n % 2 = 0
    BY <1>1, <1>4, <2>3 DEF Framed
  <2>5. Len(Bytes) = Len(wire') + n /\ \A i \in 1..Len(wire') : wire'[i] = Bytes[i + n]
    BY <1>1, <1>2 DEF Bytes, FrameInv
  <2>6. n \in Nat
    BY DEF FrameInv
  <2> HIDE DEF n
  <2>7. Framed(wire') /\ Len(wire') % 2 = Len(Bytes) % 2
    BY <1>1, <1>2, <2>1, <2>4, <2>5, <2>6, FramedSuffix
  <2> QED BY <1>1, <2>1, <2>2, <2>7 DEF FrameInv
<1> QED BY <1>3, <1>4

LEMMA LineAdded ==
  ASSUME FrameInv, NEW h \in Half, NEW l \in Half,
         wire' = wire \o <<h, l>>, mReadBuffer' = mReadBuffer
  PROVE  LET n == Len(Bytes)
         IN  /\ wire' \in Seq(Half) /\ Bytes \in Seq(Half) /\ Bytes' \in Seq(Half)
             /\ n \in Nat /\ Len(Bytes') = n + 2 /\ \A i \in 1..n : Bytes'[i] = Bytes[i]
             /\ Bytes'[n + 1] = h /\ Bytes'[n + 2] = l
<1>1. <<h, l>> \in Seq(Half) /\ Len(<<h, l>>) = 2 /\ <<h, l>>[1] = h /\ <<h, l>>[2] = l
  OBVIOUS
<1> DEFINE p == <<h, l>>
<1> HIDE DEF p
<1>2. p \in Seq(Half) /\ Len(p) = 2 /\ p[1] = h /\ p[2] = l /\ wire' = wire \o p
  BY <1>1, <1>1 DEF p
<1>3. wire' \in Seq(Half) /\ Bytes \in Seq(Half)
  BY <1>2 DEF Bytes, FrameInv
<1>4. Bytes' = Bytes \o p
  <2>1. Bytes' = mReadBuffer \o (wire \o p)
    BY <1>2 DEF Bytes
  <2>2. mReadBuffer \in Seq(Half) /\ wire \in Seq(Half)
    BY DEF FrameInv
  <2>3. (mReadBuffer \o wire) \o p = mReadBuffer \o (wire \o p)
    BY <1>2, <2>2, BytesAssociate
  <2> QED BY <2>1, <2>3 DEF Bytes
<1> DEFINE n == Len(Bytes)
<1>5. n \in Nat
  BY <1>3
<1>6. Bytes' \in Seq(Half) /\ Len(Bytes') = n + 2 /\ (\A i \in 1..n : Bytes'[i] = Bytes[i])
      /\ Bytes'[n + 1] = h /\ Bytes'[n + 2] = l
  <2> DEFINE c == Bytes'
  <2>1. c \in Seq(Half) /\ Len(c) = n + 2
        /\ \A i \in 1..n + 2 : c[i] = IF i <= n THEN Bytes[i] ELSE p[i - n]
    <3>1. /\ Bytes \o p \in Seq(Half)
          /\ Len(Bytes \o p) = Len(Bytes) + Len(p)
          /\ \A i \in 1..Len(Bytes) + Len(p) :
               (Bytes \o p)[i] = IF i <= Len(Bytes) THEN Bytes[i] ELSE p[i - Len(Bytes)]
      BY <1>2, <1>3, ConcatProperties, Zenon
    <3> QED BY <3>1, <1>2, <1>4, Zenon
  <2> HIDE DEF c, n
  <2>2. n + 1 \in 1..n + 2 /\ n + 2 \in 1..n + 2 /\ ~(n + 1 <= n) /\ ~(n + 2 <= n)
        /\ (n + 1) - n = 1 /\ (n + 2) - n = 2
    BY <1>5
  <2>3. c[n + 1] = h /\ c[n + 2] = l
    BY <1>2, <2>1, <2>2
  <2>4. \A i \in 1..n : c[i] = Bytes[i]
    BY <1>5, <2>1
  <2> QED BY <2>1, <2>3, <2>4 DEF c
<1> QED BY <1>3, <1>5, <1>6

LEMMA ReportFrames ==
  ASSUME FrameInv, NEW t \in Topic, Reports(t), current \in Space PROVE FrameInv'
<1> DEFINE h == [part |-> "head", line |-> LineAbout(t)]
           l == [part |-> "tail", line |-> LineAbout(t)]
           n == Len(Bytes)
<1>1. peerOpen /\ wire' = wire \o <<h, l>> /\ UNCHANGED <<mSocket, peerOpen, mReadBuffer>>
  BY DEF Reports, link
<1>2. LineAbout(t) \in Line
  BY DEF LineAbout, Line, Topic
<1>3. h \in Half /\ l \in Half /\ h.part = "head" /\ l.part = "tail" /\ h.line = l.line
  BY <1>2 DEF Half
<1> HIDE DEF h, l
<1>4. /\ wire' \in Seq(Half) /\ Bytes \in Seq(Half) /\ Bytes' \in Seq(Half)
      /\ n \in Nat /\ Len(Bytes') = n + 2 /\ (\A i \in 1..n : Bytes'[i] = Bytes[i])
      /\ Bytes'[n + 1] = h /\ Bytes'[n + 2] = l
  BY <1>1, <1>3, LineAdded
<1>5. n % 2 = 0
  BY <1>1 DEF FrameInv
<1>6. mSocket = "connected" => Framed(Bytes')
  BY <1>3, <1>4, <1>5, FramedAppend DEF FrameInv
<1>7. Len(Bytes') % 2 = 0
  BY <1>4, <1>5, Parity
<1> QED BY <1>1, <1>4, <1>6, <1>7 DEF FrameInv

(* The manager's last line may be cut.                                      *)
LEMMA CloseFrames ==
  ASSUME FrameInv, Closes PROVE FrameInv'
<1>1. UNCHANGED <<mSocket, mReadBuffer>> /\ ~peerOpen'
  BY DEF Closes
<1>2. CASE wire' = wire
  BY <1>1, <1>2 DEF FrameInv, Bytes
<1>3. CASE wire # <<>> /\ wire' = SubSeq(wire, 1, Len(wire) - 1)
  <2>1. wire' \in Seq(Half) /\ Len(wire') = Len(wire) - 1
        /\ \A i \in 1..Len(wire') : wire'[i] = wire[i]
    <3>1. Len(wire) \in Nat /\ \A i \in 1..Len(wire) - 1 : wire[i] \in Half
      BY DEF FrameInv
    <3>2. Len(wire) > 0
      BY <1>3, EmptySeq DEF FrameInv
    <3> DEFINE k == Len(wire) - 1
    <3>3. k \in Nat /\ 1 \in Int /\ k \in Int /\ k - 1 + 1 = k
      BY <3>1, <3>2
    <3>4. \A i \in 1..k : wire[i] \in Half /\ wire[1 + i - 1] = wire[i]
      BY <3>1
    <3> HIDE DEF k
    <3>5. SubSeq(wire, 1, k) \in Seq(Half) /\ Len(SubSeq(wire, 1, k)) = k
          /\ \A i \in 1..k - 1 + 1 : SubSeq(wire, 1, k)[i] = wire[1 + i - 1]
      BY <3>3, <3>4, SubSeqProperties
    <3>6. wire' = SubSeq(wire, 1, k)
      BY <1>3 DEF k
    <3> QED BY <3>3, <3>4, <3>5, <3>6 DEF k
  <2>2. Bytes \in Seq(Half) /\ Bytes' \in Seq(Half) /\ Len(Bytes') <= Len(Bytes)
        /\ \A i \in 1..Len(Bytes') : Bytes'[i] = Bytes[i]
    BY <1>1, <2>1 DEF FrameInv, Bytes
  <2>3. mSocket = "connected" => Framed(Bytes')
    BY <2>2, FramedPrefix DEF FrameInv
  <2> QED BY <1>1, <2>1, <2>3 DEF FrameInv
<1> QED BY <1>2, <1>3 DEF Closes, FrameInv

(* A new connection starts with nothing; a lost one leaves what it has.     *)
LEMMA AttemptFrames ==
  ASSUME FrameInv, Accepted \/ onErrorOccurred \/ (BacklogFull /\ mSocket = "unconnected") PROVE FrameInv'
<1>1. CASE Accepted
  <2>1. mReadBuffer' = <<>> /\ wire' = <<>> /\ Bytes' = <<>>
    BY <1>1 DEF Accepted, onConnected, Bytes
  <2> QED BY <2>1, FramedEmpty DEF FrameInv
<1>2. CASE onErrorOccurred
  BY <1>2 DEF onErrorOccurred, FrameInv, Bytes
<1>3. CASE BacklogFull /\ mSocket = "unconnected"
  BY <1>3 DEF BacklogFull, FrameInv, Bytes
<1> QED BY <1>1, <1>2, <1>3

LEMMA InitFrames == Init => FrameInv /\ current \in Space
<1> SUFFICES ASSUME Init PROVE FrameInv /\ current \in Space
  OBVIOUS
<1>1. mReadBuffer = <<>> /\ wire = <<>> /\ Bytes = <<>>
  BY DEF Init, Blank, Bytes
<1> QED BY <1>1, FramedEmpty DEF FrameInv, Init, ManagerInit

(* The manager always shows one of its spaces.                              *)
LEMMA NextCurrent ==
  ASSUME current \in Space, sent \in Seq(Request), [Next]_vars
  PROVE  current' \in Space /\ sent' \in Seq(Request)
<1>1. [op |-> "SUBSCRIBE", space |-> 0] \in Request
  BY NullspaceAssumption DEF Request
<1>2. <<[op |-> "SUBSCRIBE", space |-> 0]>> \in Seq(Request) /\ <<>> \in Seq(Request)
  BY <1>1
<1>3. CASE tryReconnect \/ ConnectingEnds \/ SocketFails \/ onDisconnected
  BY <1>2, <1>3 DEF tryReconnect, ConnectingEnds, SocketFails, onDisconnected, connectSocket,
     Accepted, BacklogFull, onErrorOccurred, onConnected, manager
<1>4. CASE onReadyRead
  BY <1>4 DEF onReadyRead, manager
<1>5. ASSUME NEW s \in Space, switchSpace(s) PROVE current' \in Space /\ sent' \in Seq(Request)
  <2>1. [op |-> "SWITCH_SPACE", space |-> s] \in Request
    BY DEF Request
  <2> QED BY <1>5, <2>1 DEF switchSpace, manager
<1>6. CASE ReadsRequest
  <2>1. Head(sent) \in Request /\ Tail(sent) \in Seq(Request)
    BY <1>6 DEF ReadsRequest
  <2>2. Head(sent).space \in Space
    BY <2>1 DEF Request
  <2> QED BY <1>6, <2>1, <2>2 DEF ReadsRequest
<1>7. ASSUME NEW s \in Space, UserSwitches(s) \/ Urgency(s) PROVE current' \in Space /\ sent' \in Seq(Request)
  BY <1>7 DEF UserSwitches, Urgency
<1>8. ASSUME NEW t \in Topic, Reports(t) PROVE current' \in Space /\ sent' \in Seq(Request)
  BY <1>8 DEF Reports, manager
<1>9. CASE Closes \/ ManagerToggles \/ UNCHANGED vars
  BY <1>2, <1>9 DEF Closes, ManagerToggles, vars, manager
<1> QED
  BY <1>3, <1>4, <1>5, <1>6, <1>7, <1>8, <1>9 DEF Next, Client, Manager

FullInv == IInv /\ FrameInv /\ current \in Space /\ sent \in Seq(Request)

LEMMA InitFull == Init => FullInv
<1> SUFFICES ASSUME Init PROVE FullInv
  OBVIOUS
<1>1. [op |-> "SUBSCRIBE", space |-> 0] \in Request
  BY NullspaceAssumption DEF Request
<1>2. <<[op |-> "SUBSCRIBE", space |-> 0]>> \in Seq(Request) /\ <<>> \in Seq(Request)
  BY <1>1
<1>3. sent \in Seq(Request)
  BY <1>2 DEF Init
<1> QED BY <1>3, InitIInv, InitFrames DEF FullInv

LEMMA NextFull == FullInv /\ [Next]_vars => FullInv'
<1> SUFFICES ASSUME FullInv, [Next]_vars PROVE FullInv'
  OBVIOUS
<1>1. IInv' /\ current' \in Space /\ sent' \in Seq(Request)
  BY NextIInv, NextCurrent DEF FullInv
<1>2. FrameInv'
  <2>1. CASE tryReconnect
    <3>1. mSocket = "unconnected"
      BY <2>1 DEF tryReconnect, FullInv, IInv, OneWayForward, LinkType
    <3>2. CASE env
      BY <2>1, <3>1, <3>2, AttemptFrames DEF tryReconnect, connectSocket, FullInv
    <3>3. CASE ~env
      BY <2>1, <3>1, <3>3 DEF tryReconnect, connectSocket, FullInv, FrameInv, Bytes
    <3> QED BY <3>2, <3>3
  <2>2. CASE ConnectingEnds \/ SocketFails
    BY <2>2, AttemptFrames DEF ConnectingEnds, SocketFails, FullInv
  <2>3. CASE onReadyRead
    BY <2>3, ReadFrames DEF FullInv
  <2>4. ASSUME NEW t \in Topic, Reports(t) PROVE FrameInv'
    BY <2>4, ReportFrames DEF FullInv
  <2>5. CASE Closes
    BY <2>5, CloseFrames DEF FullInv
  <2>6. CASE onDisconnected
    BY <2>6 DEF onDisconnected, FullInv, FrameInv, Bytes
  <2>7. ASSUME UNCHANGED <<mSocket, mReadBuffer, wire, peerOpen>> PROVE FrameInv'
    BY <2>7 DEF FullInv, FrameInv, Bytes
  <2>8. ASSUME NEW s \in Space, switchSpace(s) \/ UserSwitches(s) \/ Urgency(s) PROVE FrameInv'
    BY <2>7, <2>8 DEF switchSpace, UserSwitches, Urgency, link
  <2>9. CASE ReadsRequest \/ ManagerToggles \/ UNCHANGED vars
    BY <2>7, <2>9 DEF ReadsRequest, ManagerToggles, vars, link
  <2> QED
    BY <2>1, <2>2, <2>3, <2>4, <2>5, <2>6, <2>8, <2>9 DEF Next, Client, Manager
<1> QED BY <1>1, <1>2 DEF FullInv

(* Pieces of two connections are never joined, wherever a line is cut: the  *)
(* buffer is cleared when a connection is made (ipc.cpp:105).               *)
THEOREM LinesStayWhole == Spec => []WellFramed
<1>1. FullInv => WellFramed
  BY DEF FullInv, FrameInv, Framed, Bytes, WellFramed
<1> QED BY InitFull, NextFull, <1>1, PTL DEF Spec

-----------------------------------------------------------------------------
(* What is shown.  A topic is told of when the manager still has to report  *)
(* it, when the last line about it says how things are, or when there is no *)
(* line about it and the bar shows it already.                              *)
Tells(h, t) == h.part = "tail" /\ h.line.topic = t[1] /\ (t[1] = "space_urgent" => h.line.space = t[2])

Latest(b, t) ==
  \E i \in 1..Len(b) :
    /\ Tells(b[i], t) /\ b[i].line = LineAbout(t)
    /\ \A k \in 1..Len(b) : k > i => ~Tells(b[k], t)

Untold(b, t) == \A i \in 1..Len(b) : ~Tells(b[i], t)

Shown(t) ==
  /\ t[1] = "current_space" => mCurrentSpace = current
  /\ t[1] = "space_urgent" => (t[2] \in urgentSpaces <=> t[2] \in urgent)

Told(t) == t \in owed \/ Latest(Bytes, t) \/ (Untold(Bytes, t) /\ Shown(t))

ShowShape ==
  /\ Len(mReadBuffer) <= 1
  /\ urgentSpaces \in SUBSET Space /\ urgent \in SUBSET Space
  /\ activeSpaces = {mCurrentSpace} \/ (mCurrentSpace = 0 /\ activeSpaces = {1})

ShowInv ==
  /\ ShowShape
  /\ mSocket = "connected" /\ peerOpen /\ subscribed => \A t \in Topic : Told(t)

ShowAll == FullInv /\ ShowInv

LEMMA TopicForm ==
  ASSUME NEW t \in Topic
  PROVE  t = <<"current_space", 0>> \/ (\E s \in Space : t = <<"space_urgent", s>>)
  BY DEF Topic

LEMMA LineForm ==
  ASSUME NEW t \in Topic, current \in Space
  PROVE  /\ LineAbout(t) \in Line /\ LineAbout(t).topic = t[1]
         /\ t[1] = "current_space" => LineAbout(t).space = current
         /\ t[1] = "space_urgent" => /\ LineAbout(t).space = t[2] /\ t[2] \in Space
                                     /\ (LineAbout(t).on <=> t[2] \in urgent)
<1>1. CASE t = <<"current_space", 0>>
  BY <1>1 DEF LineAbout, Line
<1>2. ASSUME NEW s \in Space, t = <<"space_urgent", s>>
      PROVE  /\ LineAbout(t) \in Line /\ LineAbout(t).topic = t[1]
             /\ t[1] # "current_space"
             /\ LineAbout(t).space = t[2] /\ t[2] \in Space
             /\ (LineAbout(t).on <=> t[2] \in urgent)
  <2> DEFINE u == s \in urgent
  <2>1. LineAbout(t) = [topic |-> "space_urgent", space |-> s, on |-> u]
    BY <1>2 DEF LineAbout
  <2>2. u \in BOOLEAN /\ t[1] = "space_urgent" /\ t[2] = s
    BY <1>2
  <2> HIDE DEF u
  <2>3. LineAbout(t) \in Line /\ LineAbout(t).topic = "space_urgent" /\ LineAbout(t).space = s
    BY <2>1, <2>2 DEF Line
  <2>4. LineAbout(t).on = u
    BY <2>1
  <2> QED BY <2>2, <2>3, <2>4 DEF u
<1> QED BY <1>1, <1>2, TopicForm

(* A line at the end says how its topic is, and nothing of the others.      *)
LEMMA ReportTells ==
  ASSUME FrameInv, NEW t \in Topic, Reports(t), current \in Space, NEW u \in Topic, Told(u)
  PROVE  Told(u)'
<1> DEFINE h == [part |-> "head", line |-> LineAbout(t)]
           l == [part |-> "tail", line |-> LineAbout(t)]
           n == Len(Bytes)
<1>1. /\ wire' = wire \o <<h, l>> /\ owed' = owed \ {t}
      /\ UNCHANGED <<mReadBuffer, mCurrentSpace, urgentSpaces, current, urgent>>
  BY DEF Reports, link, shown, manager
<1>2. LineAbout(t) \in Line
  BY LineForm
<1>3. h \in Half /\ l \in Half /\ h.part = "head" /\ l.part = "tail" /\ l.line = LineAbout(t)
  BY <1>2 DEF Half
<1> HIDE DEF h, l
<1>4. Bytes \in Seq(Half) /\ n \in Nat /\ Len(Bytes') = n + 2
      /\ (\A i \in 1..n : Bytes'[i] = Bytes[i]) /\ Bytes'[n + 1] = h /\ Bytes'[n + 2] = l
  BY <1>1, <1>3, LineAdded
<1> DEFINE c == Bytes'
<1>5. \A i \in 1..Len(c) : i \in 1..n \/ i = n + 1 \/ i = n + 2
  BY <1>4
<1>6. LineAbout(u)' = LineAbout(u) /\ Shown(u)' = Shown(u)
  BY <1>1 DEF LineAbout, Shown
<1>7. CASE u = t
  <2>1. Tells(l, u) /\ l.line = LineAbout(u)
    BY <1>3, <1>7, LineForm DEF Tells
  <2>2. n + 2 \in 1..Len(c) /\ \A k \in 1..Len(c) : ~(k > n + 2)
    BY <1>4
  <2>3. Latest(Bytes, u)'
    BY <1>4, <1>6, <2>1, <2>2 DEF Latest
  <2> QED BY <2>3 DEF Told
<1>8. CASE u # t
  <2>1. ~Tells(l, u) /\ ~Tells(h, u)
    <3>1. ~Tells(h, u)
      BY <1>3 DEF Tells
    <3>2. ASSUME Tells(l, u) PROVE FALSE
      <4>1. t[1] = u[1] /\ (u[1] = "space_urgent" => u[2] = LineAbout(t).space)
        BY <1>3, <3>2, LineForm DEF Tells
      <4>2. u[1] = "space_urgent" => u[2] = t[2]
        BY <4>1, LineForm
      <4>3. u = t
        BY <4>1, <4>2, TopicForm
      <4> QED BY <1>8, <4>3
    <3> QED BY <3>1, <3>2
  <2>2. Untold(Bytes, u) => Untold(c, u)
    BY <1>4, <1>5, <2>1 DEF Untold
  <2>3. ASSUME Latest(Bytes, u) PROVE Latest(Bytes, u)'
    <3>1. PICK i \in 1..n : /\ Tells(Bytes[i], u) /\ Bytes[i].line = LineAbout(u)
                            /\ \A k \in 1..n : k > i => ~Tells(Bytes[k], u)
      BY <2>3 DEF Latest
    <3>2. i \in 1..Len(c) /\ c[i] = Bytes[i]
      BY <1>4
    <3>3. \A k \in 1..Len(c) : k > i => ~Tells(c[k], u)
      BY <1>4, <1>5, <2>1, <3>1
    <3> QED BY <1>6, <3>1, <3>2, <3>3 DEF Latest
  <2>4. u \in owed => u \in owed'
    BY <1>1, <1>8
  <2> QED BY <1>6, <2>2, <2>3, <2>4 DEF Told, Untold
<1> QED BY <1>7, <1>8

(* A line that is read is shown, unless a later one says better.            *)
LEMMA ReadTells ==
  ASSUME FrameInv, ShowShape, onReadyRead, NEW u \in Topic, current \in Space
  PROVE  (Told(u) => Told(u)') /\ ShowShape'
<1>1. mSocket = "connected" /\ wire # <<>> /\ wire' = Tail(wire) /\ Framed(Bytes)
      /\ UNCHANGED <<owed, current, urgent>>
  BY DEF onReadyRead, FrameInv, manager
<1> DEFINE half == Head(wire)
           n == Len(mReadBuffer)
<1>2. /\ mReadBuffer \in Seq(Half) /\ wire \in Seq(Half) /\ half \in Half
      /\ Bytes \in Seq(Half) /\ Len(Bytes) = n + Len(wire) /\ n \in {0, 1} /\ Len(wire) > 0
      /\ Bytes[n + 1] = half /\ (n = 1 => Bytes[1] = mReadBuffer[1])
  <2>1. mReadBuffer \in Seq(Half) /\ wire \in Seq(Half) /\ n \in {0, 1}
    <3>1. mReadBuffer \in Seq(Half) /\ wire \in Seq(Half) /\ n <= 1
      BY DEF FrameInv, ShowShape
    <3>2. n \in Nat
      BY <3>1
    <3> HIDE DEF n
    <3> QED BY <3>1, <3>2
  <2>2. Len(wire) \in Nat /\ Len(wire) > 0
    BY <1>1, <2>1, EmptySeq
  <2>3. half \in Half /\ half = wire[1]
    BY <1>1, <2>1, <2>2, HeadTailProperties
  <2> HIDE DEF half
  <2>4. /\ Bytes \in Seq(Half) /\ Len(Bytes) = n + Len(wire)
        /\ \A i \in 1..n + Len(wire) : Bytes[i] = IF i <= n THEN mReadBuffer[i] ELSE wire[i - n]
    BY <2>1, ConcatProperties DEF Bytes
  <2> DEFINE w == Len(wire)
  <2> HIDE DEF n, w
  <2>5. w \in Nat /\ w > 0 /\ n \in {0, 1}
    BY <2>1, <2>2 DEF w
  <2>6. n + 1 \in 1..n + w /\ ~(n + 1 <= n) /\ (n + 1) - n = 1
        /\ (n = 1 => 1 \in 1..n + w /\ 1 <= n)
    BY <2>5
  <2>7. n + 1 \in 1..n + Len(wire) /\ ~(n + 1 <= n) /\ (n + 1) - n = 1
        /\ (n = 1 => 1 \in 1..n + Len(wire) /\ 1 <= n)
    BY <2>6 DEF w
  <2>8. Bytes[n + 1] = half /\ (n = 1 => Bytes[1] = mReadBuffer[1])
    BY <2>3, <2>4, <2>7
  <2> QED BY <2>1, <2>2, <2>3, <2>4, <2>8
<1>3. LineAbout(u)' = LineAbout(u)
  BY <1>1 DEF LineAbout
<1>4. CASE half.part = "head"
  <2>1. mReadBuffer' = Append(mReadBuffer, half) /\ UNCHANGED shown
    BY <1>4 DEF onReadyRead
  <2>2. n + 1 \in 1..Len(Bytes)
    BY <1>2
  <2>3. n # 1
    <3>1. n = 1 => 2 \in 1..Len(Bytes) /\ Bytes[2] = half /\ 2 % 2 = 0
      BY <1>2
    <3> QED BY <1>1, <1>4, <3>1 DEF Framed
  <2>4. Bytes' = Bytes /\ Len(mReadBuffer') = n + 1
    BY <1>1, <1>2, <2>1 DEF Bytes
  <2>5. Told(u) => Told(u)'
    BY <1>1, <1>3, <2>1, <2>4 DEF Told, Latest, Untold, Shown, shown
  <2> QED BY <1>1, <1>2, <2>1, <2>3, <2>4, <2>5 DEF ShowShape, shown
<1>5. CASE half.part # "head"
  <2>1. mReadBuffer' = <<>> /\ (mReadBuffer = <<[half EXCEPT !.part = "head"]>> => onEventReceived(half.line))
    BY <1>5 DEF onReadyRead
  <2>2. n + 1 \in 1..Len(Bytes)
    BY <1>2
  <2>3. n = 1
    BY <1>1, <1>2, <1>5, <2>2 DEF Framed
  <2>4. 1 \in 1..Len(Bytes) - 1 /\ 1 % 2 = 1 /\ 1 \in 1..Len(Bytes)
    BY <1>2, <2>3
  <2>5. Bytes[1].part = "head" /\ Bytes[1].line = half.line /\ half.part = "tail"
    BY <1>1, <1>2, <1>5, <2>3, <2>4 DEF Framed, Half
  <2>6. mReadBuffer = <<[half EXCEPT !.part = "head"]>>
    <3>1. mReadBuffer[1] \in Half /\ mReadBuffer[1].part = "head" /\ mReadBuffer[1].line = half.line
      BY <1>2, <2>3, <2>5
    <3>2. mReadBuffer[1] = [half EXCEPT !.part = "head"]
      BY <1>2, <3>1 DEF Half
    <3> QED BY <1>2, <2>3, <3>2
  <2> DEFINE l == half.line
             b == Bytes
             c == Bytes'
  <2>7. onEventReceived(l) /\ l \in Line
    BY <1>2, <2>1, <2>6 DEF Half
  <2>8. c = Tail(wire) /\ Len(c) = Len(b) - 2 /\ (\A i \in 1..Len(c) : c[i] = b[i + 2]) /\ b[2] = half
    BY <1>1, <1>2, <2>1, <2>3 DEF Bytes
  <2>9. Len(b) \in Nat /\ Len(c) \in Nat
    BY <1>2, <2>8
  <2>10. ShowShape'
    <3>1. urgentSpaces' \in SUBSET Space
      BY <2>7 DEF onEventReceived, Line, ShowShape
    <3>2. activeSpaces' = {mCurrentSpace'} \/ (mCurrentSpace' = 0 /\ activeSpaces' = {1})
      BY <2>7 DEF onEventReceived, setActiveSpace, ShowShape
    <3> QED BY <1>1, <2>1, <3>1, <3>2 DEF ShowShape
  <2>11. ASSUME Tells(half, u), l = LineAbout(u) PROVE Shown(u)'
    <3>1. l.topic = u[1] /\ (u[1] = "current_space" => l.space = current)
          /\ (u[1] = "space_urgent" => l.space = u[2] /\ (l.on <=> u[2] \in urgent))
      BY <2>11, LineForm
    <3> QED BY <1>1, <2>7, <3>1 DEF onEventReceived, setActiveSpace, Shown
  <2>12. ASSUME ~Tells(half, u), Shown(u) PROVE Shown(u)'
    <3>1. l.topic # u[1] \/ (u[1] = "space_urgent" /\ l.space # u[2])
      BY <2>5, <2>12 DEF Tells
    <3> QED BY <1>1, <2>7, <2>12, <3>1 DEF onEventReceived, setActiveSpace, Shown
  <2>13. \A i \in 1..Len(b) : i = 1 \/ i = 2 \/ (i - 2 \in 1..Len(c) /\ c[i - 2] = b[i])
    <3> SUFFICES ASSUME NEW i \in 1..Len(b), i # 1, i # 2 PROVE i - 2 \in 1..Len(c) /\ c[i - 2] = b[i]
      OBVIOUS
    <3> DEFINE m == Len(c)
               k == Len(b)
    <3>1. k \in Nat /\ m \in Nat /\ m = k - 2 /\ i \in 1..k
      BY <2>8, <2>9
    <3> HIDE DEF m, k
    <3>2. i - 2 \in 1..m /\ (i - 2) + 2 = i
      BY <3>1
    <3>3. i - 2 \in 1..Len(c) /\ (i - 2) + 2 = i
      BY <3>2 DEF m
    <3> QED BY <2>8, <3>3
  <2>14. ASSUME Latest(b, u) PROVE Told(u)'
    <3>1. PICK i \in 1..Len(b) : /\ Tells(b[i], u) /\ b[i].line = LineAbout(u)
                                 /\ \A k \in 1..Len(b) : k > i => ~Tells(b[k], u)
      BY <2>14 DEF Latest
    <3>2. i # 1
      BY <2>5, <3>1 DEF Tells
    <3>3. \A k \in 1..Len(c) : k + 2 \in 1..Len(b) /\ c[k] = b[k + 2]
      BY <2>8, <2>9
    <3>4. CASE i = 2
      <4>1. \A k \in 1..Len(c) : ~Tells(c[k], u)
        BY <3>1, <3>3, <3>4
      <4>2. Shown(u)'
        BY <2>8, <2>11, <3>1, <3>4
      <4> QED BY <4>1, <4>2 DEF Told, Untold
    <3>5. CASE i # 2
      <4>1. i - 2 \in 1..Len(c) /\ c[i - 2] = b[i]
        BY <2>13, <3>2, <3>5
      <4>2. \A k \in 1..Len(c) : k > i - 2 => ~Tells(c[k], u)
        BY <3>1, <3>3
      <4>3. Latest(Bytes, u)'
        BY <1>3, <3>1, <4>1, <4>2 DEF Latest
      <4> QED BY <4>3 DEF Told
    <3> QED BY <3>4, <3>5
  <2>15. ASSUME Untold(b, u), Shown(u) PROVE Told(u)'
    <3>1. ~Tells(half, u)
      BY <2>4, <2>8, <2>15, <1>2, <2>3 DEF Untold
    <3>2. \A k \in 1..Len(c) : k + 2 \in 1..Len(b) /\ c[k] = b[k + 2]
      BY <2>8, <2>9
    <3>3. Untold(Bytes, u)'
      BY <2>15, <3>2 DEF Untold
    <3> QED BY <2>12, <2>15, <3>1, <3>3 DEF Told
  <2>16. u \in owed => Told(u)'
    BY <1>1 DEF Told
  <2> QED BY <2>10, <2>14, <2>15, <2>16 DEF Told
<1> QED BY <1>4, <1>5

(* What the manager changes, it owes.                                       *)
LEMMA ChangeTells ==
  ASSUME UNCHANGED <<mReadBuffer, wire, mCurrentSpace, urgentSpaces>>, owed \subseteq owed',
         NEW u \in Topic, Told(u),
         u \in owed' \/ (u[1] = "current_space" /\ current' = current)
                     \/ (u[1] = "space_urgent" /\ (u[2] \in urgent' <=> u[2] \in urgent))
  PROVE  Told(u)'
<1>1. CASE u \in owed'
  BY <1>1 DEF Told
<1>2. CASE u \notin owed'
  <2>1. Bytes' = Bytes /\ Shown(u)' = Shown(u)
    BY <1>2, TopicForm DEF Bytes, Shown
  <2>2. LineAbout(u)' = LineAbout(u)
    <3>1. CASE u = <<"current_space", 0>>
      BY <1>2, <3>1 DEF LineAbout
    <3>2. ASSUME NEW s \in Space, u = <<"space_urgent", s>> PROVE LineAbout(u)' = LineAbout(u)
      <4> DEFINE now == s \in urgent
      <4>1. now' = now /\ u[1] # "current_space"
        <5>1. u[1] = "space_urgent" /\ u[2] = s
          BY <3>2
        <5>2. u[1] # "current_space"
          BY <5>1
        <5>3. s \in urgent' <=> s \in urgent
          BY <1>2, <5>1, <5>2
        <5> QED BY <5>2, <5>3
      <4>2. LineAbout(u) = [topic |-> u[1], space |-> s, on |-> now]
        BY <3>2 DEF LineAbout
      <4>3. LineAbout(u)' = [topic |-> u[1], space |-> s, on |-> now']
        BY <3>2 DEF LineAbout
      <4> HIDE DEF now
      <4> QED BY <4>1, <4>2, <4>3
    <3> QED BY <3>1, <3>2, TopicForm
  <2> QED BY <1>2, <2>1, <2>2 DEF Told, Latest, Untold
<1> QED BY <1>1, <1>2

LEMMA InitShow == Init => ShowInv
<1> SUFFICES ASSUME Init PROVE ShowInv
  OBVIOUS
<1>1. mReadBuffer = <<>> /\ Len(mReadBuffer) <= 1
  BY DEF Init, Blank
<1> QED BY <1>1 DEF Init, Blank, ManagerInit, ShowInv, ShowShape

(* A new connection has no subscription yet, a lost one is not looked at.   *)
LEMMA AttemptShow ==
  ASSUME ShowInv, UNCHANGED <<shown, manager>>,
         Accepted \/ onErrorOccurred \/ (BacklogFull /\ mSocket = "unconnected")
  PROVE  ShowInv'
<1>1. CASE Accepted
  <2>1. mReadBuffer' = <<>> /\ Len(mReadBuffer') <= 1
    BY <1>1 DEF Accepted, onConnected
  <2> QED BY <1>1, <2>1 DEF Accepted, onConnected, ShowInv, ShowShape, shown, manager
<1>2. CASE onErrorOccurred
  BY <1>2 DEF onErrorOccurred, ShowInv, ShowShape, shown, manager
<1>3. CASE BacklogFull /\ mSocket = "unconnected"
  BY <1>3 DEF BacklogFull, ShowInv, ShowShape, shown, manager
<1> QED BY <1>1, <1>2, <1>3

LEMMA NextShow == ShowAll /\ [Next]_vars => ShowAll'
<1> SUFFICES ASSUME ShowAll, [Next]_vars PROVE ShowAll'
  OBVIOUS
<1>1. FullInv'
  BY NextFull DEF ShowAll
<1>2. ShowInv /\ ShowShape /\ FrameInv /\ current \in Space /\ sent \in Seq(Request)
  BY DEF ShowAll, FullInv, ShowInv
<1>3. ShowInv'
  <2>1. CASE tryReconnect
    <3>1. mSocket = "unconnected"
      BY <2>1 DEF tryReconnect, ShowAll, FullInv, IInv, OneWayForward, LinkType
    <3>2. CASE env
      BY <1>2, <2>1, <3>1, <3>2, AttemptShow DEF tryReconnect, connectSocket
    <3>3. CASE ~env
      BY <1>2, <2>1, <3>1, <3>3 DEF tryReconnect, connectSocket, ShowInv, ShowShape, shown, manager
    <3> QED BY <3>2, <3>3
  <2>2. CASE ConnectingEnds \/ SocketFails
    BY <1>2, <2>2, AttemptShow DEF ConnectingEnds, SocketFails
  <2>3. CASE onDisconnected
    BY <1>2, <2>3 DEF onDisconnected, ShowInv, ShowShape, shown, manager
  <2>4. CASE onReadyRead
    <3>1. ShowShape'
      <4>1. <<"current_space", 0>> \in Topic
        BY DEF Topic
      <4> QED BY <1>2, <2>4, <4>1, ReadTells
    <3>2. UNCHANGED <<mSocket, peerOpen, subscribed>>
      BY <2>4 DEF onReadyRead, link
    <3>3. ASSUME mSocket = "connected", peerOpen, subscribed, NEW u \in Topic PROVE Told(u)'
      BY <1>2, <2>4, <3>3, ReadTells DEF ShowInv
    <3> QED BY <3>1, <3>2, <3>3 DEF ShowInv
  <2>5. ASSUME UNCHANGED <<mReadBuffer, wire, shown>>, UNCHANGED <<mSocket, peerOpen>>,
               urgent' \in SUBSET Space, subscribed => owed \subseteq owed',
               subscribed' => subscribed \/ owed' = Topic,
               subscribed' => \A u \in Topic :
                 u \in owed' \/ (u[1] = "current_space" /\ current' = current)
                             \/ (u[1] = "space_urgent" /\ (u[2] \in urgent' <=> u[2] \in urgent))
        PROVE  ShowInv'
    <3>1. ShowShape'
      BY <1>2, <2>5 DEF ShowShape, shown
    <3>2. ASSUME mSocket' = "connected", peerOpen', subscribed', NEW u \in Topic PROVE Told(u)'
      <4>1. CASE u \in owed'
        BY <4>1 DEF Told
      <4>2. CASE u \notin owed'
        <5>1. subscribed /\ Told(u)
          BY <1>2, <2>5, <3>2, <4>2 DEF ShowInv
        <5> QED BY <2>5, <3>2, <5>1, ChangeTells DEF shown
      <4> QED BY <4>1, <4>2
    <3> QED BY <3>1, <3>2 DEF ShowInv
  <2>6. urgent \in SUBSET Space /\ \A u \in Topic : u[1] \in {"current_space", "space_urgent"}
    BY <1>2, TopicForm DEF ShowShape
  <2>7. ASSUME NEW s \in Space, switchSpace(s) PROVE ShowInv'
    BY <2>5, <2>6, <2>7 DEF switchSpace, link, manager
  <2>8. CASE ReadsRequest
    <3>1. Head(sent).op \in {"SUBSCRIBE", "SWITCH_SPACE"}
      <4>1. Head(sent) \in Request
        BY <1>2, <2>8 DEF ReadsRequest
      <4> QED BY <4>1 DEF Request
    <3>2. UNCHANGED <<mReadBuffer, wire, shown, urgent, mSocket, peerOpen>>
      BY <2>8 DEF ReadsRequest, link
    <3>3. CASE Head(sent).op = "SUBSCRIBE"
      <4>1. owed' = Topic
        BY <2>8, <3>3 DEF ReadsRequest
      <4>2. \A u \in Topic : Told(u)'
        BY <4>1 DEF Told
      <4>3. ShowShape'
        BY <1>2, <3>2 DEF ShowShape, shown
      <4> QED BY <4>2, <4>3 DEF ShowInv
    <3>4. CASE Head(sent).op = "SWITCH_SPACE"
      <4>1. subscribed' = subscribed
            /\ owed' = IF subscribed THEN owed \cup {<<"current_space", 0>>} ELSE owed
        BY <2>8, <3>4 DEF ReadsRequest
      <4>2. \A u \in Topic : u[1] = "current_space" => u = <<"current_space", 0>>
        BY TopicForm
      <4> QED BY <2>5, <2>6, <3>2, <4>1, <4>2
    <3> QED BY <3>1, <3>3, <3>4
  <2>9. ASSUME NEW t \in Topic, Reports(t) PROVE ShowInv'
    <3>1. UNCHANGED <<mReadBuffer, shown, manager, mSocket, peerOpen, subscribed>>
      BY <2>9 DEF Reports, link
    <3>2. ShowShape'
      BY <1>2, <3>1 DEF ShowShape, shown, manager
    <3>3. ASSUME mSocket = "connected", peerOpen, subscribed, NEW u \in Topic PROVE Told(u)'
      BY <1>2, <2>9, <3>3, ReportTells DEF ShowInv
    <3> QED BY <3>1, <3>2, <3>3 DEF ShowInv
  <2>10. ASSUME NEW s \in Space, UserSwitches(s) PROVE ShowInv'
    <3>1. \A u \in Topic : u[1] = "current_space" => u = <<"current_space", 0>>
      BY TopicForm
    <3> QED BY <2>5, <2>6, <2>10, <3>1 DEF UserSwitches, link
  <2>11. ASSUME NEW s \in Space, Urgency(s) PROVE ShowInv'
    <3>1. urgent' \in SUBSET Space /\ \A x : x # s => (x \in urgent' <=> x \in urgent)
      BY <2>6, <2>11 DEF Urgency
    <3>2. \A u \in Topic : u[1] = "space_urgent" => u = <<"space_urgent", u[2]>>
      BY TopicForm
    <3>3. UNCHANGED <<mReadBuffer, wire, shown, mSocket, peerOpen, subscribed, current>>
          /\ owed' = IF subscribed THEN owed \cup {<<"space_urgent", s>>} ELSE owed
      BY <2>11 DEF Urgency, link
    <3>4. ASSUME subscribed, NEW u \in Topic
          PROVE  u \in owed' \/ (u[1] = "current_space" /\ current' = current)
                             \/ (u[1] = "space_urgent" /\ (u[2] \in urgent' <=> u[2] \in urgent))
      <4>1. CASE u[1] = "current_space"
        BY <3>3, <4>1
      <4>2. CASE u[1] = "space_urgent" /\ u[2] = s
        BY <3>2, <3>3, <3>4, <4>2
      <4>3. CASE u[1] = "space_urgent" /\ u[2] # s
        BY <3>1, <4>3
      <4> QED BY <2>6, <4>1, <4>2, <4>3
    <3> QED BY <2>5, <3>1, <3>3, <3>4
  <2>12. CASE Closes \/ ManagerToggles
    <3>1. UNCHANGED <<mReadBuffer, shown, manager>>
      BY <2>12 DEF Closes, ManagerToggles
    <3>2. ~peerOpen'
      BY <2>12 DEF Closes, ManagerToggles
    <3>3. ShowShape'
      BY <1>2, <3>1 DEF ShowShape, shown, manager
    <3> QED BY <3>2, <3>3 DEF ShowInv
  <2>13. CASE UNCHANGED vars
    BY <2>5, <2>6, <2>13 DEF vars, link, manager
  <2> QED
    BY <2>1, <2>2, <2>3, <2>4, <2>7, <2>8, <2>9, <2>10, <2>11, <2>12, <2>13 DEF Next, Client, Manager
<1> QED BY <1>1, <1>3 DEF ShowAll

(* Once all that the manager reported is read, the bar shows its space and  *)
(* its urgent flags, over any cut lines and lost connections.               *)
THEOREM ShownAgrees == Spec => []SpacesAgree
<1>1. ShowAll => SpacesAgree
  <2> SUFFICES ASSUME ShowAll, mConnected, peerOpen, subscribed, owed = {}, wire = <<>>
               PROVE  /\ mCurrentSpace = current /\ urgentSpaces = urgent
                      /\ activeSpaces = {current} \/ (current = 0 /\ activeSpaces = {1})
    BY DEF SpacesAgree
  <2>1. mSocket = "connected" /\ ShowShape /\ FrameInv /\ \A t \in Topic : Told(t)
    BY DEF ShowAll, ShowInv, FullInv, IInv, OneWayForward
  <2>2. Bytes = mReadBuffer /\ Len(Bytes) \in {0, 1}
    BY <2>1 DEF Bytes, FrameInv, ShowShape
  <2>3. Len(Bytes) = 0
    <3> DEFINE n == Len(Bytes)
    <3>1. n % 2 = 0
      BY <2>1 DEF FrameInv
    <3>2. n \in {0, 1}
      BY <2>2
    <3> HIDE DEF n
    <3>3. n = 0
      BY <3>1, <3>2
    <3> QED BY <3>3 DEF n
  <2>4. \A t \in Topic : Shown(t)
    BY <2>1, <2>3 DEF Told, Latest
  <2>5. mCurrentSpace = current
    <3> DEFINE u == <<"current_space", 0>>
    <3>1. u \in Topic /\ u[1] = "current_space"
      BY DEF Topic
    <3> HIDE DEF u
    <3> QED BY <2>4, <3>1 DEF Shown
  <2>6. \A s \in Space : s \in urgentSpaces <=> s \in urgent
    <3> SUFFICES ASSUME NEW s \in Space PROVE s \in urgentSpaces <=> s \in urgent
      OBVIOUS
    <3>1. <<"space_urgent", s>> \in Topic
      BY DEF Topic
    <3> QED BY <2>4, <3>1 DEF Shown
  <2>7. urgentSpaces = urgent
    BY <2>1, <2>6 DEF ShowShape
  <2> QED BY <2>1, <2>5, <2>7 DEF ShowShape
<1>2. Init => ShowAll
  BY InitFull, InitShow DEF ShowAll
<1> QED BY <1>1, <1>2, NextShow, PTL DEF Spec

-----------------------------------------------------------------------------
(* The types that no other invariant needed.                                *)
Rest == mCurrentSpace \in Space /\ subscribed \in BOOLEAN /\ owed \in SUBSET Topic

(* A line names a space, so an event shows one that exists.                 *)
LEMMA EventRest ==
  ASSUME Rest, NEW l \in Line, onEventReceived(l)
  PROVE  mCurrentSpace' \in Space
BY DEF Rest, Line, onEventReceived, setActiveSpace

LEMMA NextRest == ASSUME ShowAll, Rest, [Next]_vars PROVE Rest'
<1>1. CASE tryReconnect \/ ConnectingEnds \/ SocketFails \/ onDisconnected
  BY <1>1 DEF Rest, tryReconnect, ConnectingEnds, SocketFails, onDisconnected, connectSocket,
     Accepted, BacklogFull, onErrorOccurred, onConnected, shown
<1>2. CASE onReadyRead
  <2>1. Head(wire).line \in Line
    <3>1. Head(wire) \in Half
      BY <1>2 DEF onReadyRead, ShowAll, FullInv, FrameInv
    <3> QED BY <3>1 DEF Half
  <2>2. UNCHANGED <<subscribed, owed>>
    BY <1>2 DEF onReadyRead
  <2>3. mCurrentSpace' = mCurrentSpace \/ onEventReceived(Head(wire).line)
    BY <1>2 DEF onReadyRead, shown
  <2> QED BY <2>1, <2>2, <2>3, EventRest DEF Rest
<1>3. ASSUME NEW s \in Space, switchSpace(s) \/ UserSwitches(s) \/ Urgency(s) PROVE Rest'
  BY <1>3 DEF Rest, switchSpace, UserSwitches, Urgency, shown, Topic
<1>4. CASE ReadsRequest
  BY <1>4 DEF Rest, ReadsRequest, shown, Topic
<1>5. ASSUME NEW t \in Topic, Reports(t) PROVE Rest'
  BY <1>5 DEF Rest, Reports, shown
<1>6. CASE Closes \/ ManagerToggles \/ UNCHANGED vars
  BY <1>6 DEF Rest, Closes, ManagerToggles, vars, shown
<1> QED
  BY <1>1, <1>2, <1>3, <1>4, <1>5, <1>6 DEF Next, Client, Manager

\* Every variable keeps its type, for any spaces: only spaces of the manager
\* are ever shown, whatever is cut, and only requests of the two kinds and
\* halves of lines are under way.
THEOREM TypeCorrect == Spec => []TypeOK
<1>1. Init => ShowAll /\ Rest
  <2>1. Init => Rest
    BY NullspaceAssumption DEF Init, Blank, Rest
  <2> QED BY <2>1, InitFull, InitShow DEF ShowAll
<1>2. ShowAll /\ Rest /\ [Next]_vars => (ShowAll /\ Rest)'
  BY NextShow, NextRest
<1>3. ShowAll /\ Rest => TypeOK
  <2> SUFFICES ASSUME ShowAll, Rest PROVE TypeOK
    OBVIOUS
  <2>1. activeSpaces \in SUBSET Space
    BY NullspaceAssumption DEF ShowAll, ShowInv, ShowShape, Rest
  <2> QED
    BY <2>1 DEF TypeOK, Rest, ShowAll, ShowInv, ShowShape, FullInv, FrameInv, IInv, LinkType
<1> QED BY <1>1, <1>2, <1>3, PTL DEF Spec
-----------------------------------------------------------------------------
(* Liveness.  The provers cannot look into ENABLED.  What the theorems need  *)
(* to know of it is a hypothesis: an expired timer can be served with        *)
(* success while the manager is reachable, and an attempt can end.          *)

Idling == mReconnectTimer /\ mSocket = "unconnected"

TimerTurn == Idling /\ env /\ wmUp

LinkReady ==
  /\ TimerTurn => ENABLED <<tryReconnect /\ mConnected'>>_vars
  /\ mSocket = "connecting" => ENABLED <<ConnectingEnds>>_vars

(* A client that is not connected is waiting for its timer or attempting.   *)
LEMMA OneWay ==
  IInv => /\ Link!Retriable => ~mConnected /\ env /\ wmUp
          /\ ~mConnected => Idling \/ mSocket = "connecting"
          /\ Idling \/ mSocket = "connecting" => ~mConnected
          /\ ~mConnected /\ env /\ wmUp => Link!Retriable
  BY DEF IInv, LinkType, OneWayForward, Idling, Link!Retriable

(* A step that connects establishes the link.                               *)
LEMMA ConnectingEstablishes ==
  ASSUME IInv, IInv', [Next]_vars, ~mConnected, mConnected'
  PROVE  <<Link!Establish>>_Link!vars
<1>1. [Link!Next]_Link!vars
  BY StepLink
<1> QED
  BY <1>1 DEF IInv, LinkType, OneWayForward, Link!Next, Link!Establish, Link!Lose, Link!DaemonChanges, Link!vars

(* An attempt that ends succeeds or arms the timer.                         *)
LEMMA AttemptEnds == IInv' /\ ConnectingEnds => mConnected' \/ Idling'
  BY DEF ConnectingEnds, Accepted, onConnected, onErrorOccurred, IInv, OneWayForward, Idling

(* An attempt that is left pending was made with a signature.               *)
LEMMA NextStartsAttempt ==
  ASSUME IInv, [Next]_vars, mSocket = "unconnected", ~(env /\ wmUp)
  PROVE  mSocket' # "connecting"
<1>1. CASE tryReconnect
  BY <1>1 DEF tryReconnect, connectSocket, Accepted, BacklogFull, onConnected, onErrorOccurred
<1>2. CASE ConnectingEnds \/ onDisconnected \/ SocketFails
  BY <1>2 DEF ConnectingEnds, onDisconnected, SocketFails
<1>3. CASE onReadyRead \/ UNCHANGED vars
  BY <1>3 DEF onReadyRead, vars, link
<1>4. ASSUME NEW s \in Space, switchSpace(s) \/ UserSwitches(s) \/ Urgency(s) PROVE mSocket' = mSocket
  BY <1>4 DEF switchSpace, UserSwitches, Urgency, link
<1>5. CASE ReadsRequest \/ Closes \/ ManagerToggles
  BY <1>5 DEF ReadsRequest, Closes, ManagerToggles, link
<1>6. ASSUME NEW t \in Topic, Reports(t) PROVE mSocket' = mSocket
  BY <1>6 DEF Reports, link
<1> QED
  BY <1>1, <1>2, <1>3, <1>4, <1>5, <1>6 DEF Next, Client, Manager

(* Only a manager that is reachable takes a client out of its waiting.      *)
LEMMA IdlingKeeps == IInv /\ Idling /\ [Next]_vars => Idling' \/ TimerTurn \/ mConnected'
<1> SUFFICES ASSUME IInv, Idling, [Next]_vars, ~mConnected', ~(env /\ wmUp)
             PROVE  Idling'
  BY DEF TimerTurn
<1>1. IInv'
  BY NextIInv
<1>2. mSocket' # "connecting"
  BY NextStartsAttempt DEF Idling
<1> QED
  BY <1>1, <1>2, OneWay DEF IInv, LinkType, OneWayForward, Idling

\* The client is a link that is retried until it is up, even if the manager is
\* only reachable from time to time: an attempt that hangs ends and arms the
\* timer, a client that waits is not moved before the manager is reachable, so
\* the timer expires then, again and again, and FairSpec lets an attempt succeed.
THEOREM FairLinkImplemented == FairSpec /\ []LinkReady => ImplementsLink
<1>1. Spec => []IInv
  BY InitIInv, NextIInv, PTL DEF Spec
<1>2. IInv => /\ Link!Retriable => ~mConnected /\ env /\ wmUp
              /\ ~mConnected => Idling \/ mSocket = "connecting"
              /\ Idling \/ mSocket = "connecting" => ~mConnected
  BY OneWay
<1>3. IInv /\ IInv' /\ [Next]_vars /\ ~mConnected => ~mConnected' \/ <<Link!Establish>>_Link!vars
  BY ConnectingEstablishes
<1>4. IInv' /\ <<ConnectingEnds>>_vars => mConnected' \/ Idling'
  BY AttemptEnds
<1>5. IInv /\ Idling /\ [Next]_vars => Idling' \/ TimerTurn \/ mConnected'
  BY IdlingKeeps
<1>6. LinkReady => /\ TimerTurn => ENABLED <<tryReconnect /\ mConnected'>>_vars
                   /\ mSocket = "connecting" => ENABLED <<ConnectingEnds>>_vars
  BY DEF LinkReady
<1>7. <<tryReconnect /\ mConnected'>>_vars => mConnected'
  OBVIOUS
<1>8. Idling /\ env /\ wmUp => TimerTurn
  BY DEF TimerTurn
<1>9. FairSpec /\ []LinkReady => Link!Retried
  BY <1>1, <1>2, <1>3, <1>4, <1>5, <1>6, <1>7, <1>8, PTL DEF FairSpec, Spec, Link!Retried
<1> QED
  BY <1>9, LinkImplemented, PTL DEF FairSpec, ImplementsLink, Link!FairSpec

\* A manager that stays reachable is found again, however the link was lost
\* and however often attempts hang or fail: the link promises it.
THEOREM ManagerFoundAgain == FairSpec /\ []LinkReady => Reconnects
<1>1. Spec => []IInv
  BY InitIInv, NextIInv, PTL DEF Spec
<1>2. IInv /\ ~mConnected => Link!Retriable \/ ~env \/ ~wmUp
  BY OneWay
<1>3. Link!Retriable /\ [Link!Next]_Link!vars =>
        Link!Retriable' \/ ~env' \/ ~wmUp' \/ <<Link!Establish>>_Link!vars
  BY DEF Link!Retriable, Link!Next, Link!Lose, Link!Establish, Link!DaemonChanges, Link!vars
<1>4. IInv' /\ <<Link!Establish>>_Link!vars => mConnected'
  BY DEF IInv, LinkType, OneWayForward, Link!Establish
<1> QED
  BY <1>1, <1>2, <1>3, <1>4, FairLinkImplemented, PTL
     DEF FairSpec, Reconnects, ImplementsLink, Link!FairSpec, Link!Spec, Link!Retried
=============================================================================
