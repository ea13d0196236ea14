------------------------- MODULE NetBackend_proofs -------------------------
(***************************************************************************)
(* Proofs about the tracking of interfaces: the backend runs the devd       *)
(* client unchanged, its list model mirrors its devices, setWifiEnabled     *)
(* settles, and backend and kernel agree once the queues are read.          *)
(***************************************************************************)
EXTENDS NetBackend, SequenceTheorems, TLAPS

DP == INSTANCE Devd_proofs WITH Event <- Notice

(* The constants of the devd client satisfy its assumption.                 *)
LEMMA DevdAssumed == D!DevdAssumption
BY NetAssumption DEF NetAssumption, D!DevdAssumption

(* An ifconfig process of setWifiEnabled ends, or someone else sets a flag. *)
FlagWriter(i) ==
  \/ \E c \in Cmd : IfconfigSetsFlag(i, c) \/ IfconfigFails(i, c)
  \/ \E up \in BOOLEAN : OtherSetsFlag(i, up)

(* The tracking does not move, and the kernel may announce the change.      *)
LEMMA FlagFrame ==
  ASSUME NEW i \in Iface, FlagWriter(i)
  PROVE  /\ UNCHANGED <<devdVars, present, reading, mDevices, rows, object, scan, snapshot>>
         /\ UNCHANGED <<bWifiEnabled, boot, ghosts, devdMissed, switched>>
         /\ \/ UNCHANGED <<route, stale>>
            \/ route' = Append(route, [what |-> "IFINFO", ifname |-> i]) /\ stale' = stale \cup {i}
         /\ adminUp' = adminUp \/ adminUp' = adminUp \cup {i} \/ adminUp' = adminUp \ {i}
<1>1. CASE \E c \in Cmd : IfconfigSetsFlag(i, c)
  BY <1>1 DEF IfconfigSetsFlag, FlagBecomes
<1>2. CASE \E c \in Cmd : IfconfigFails(i, c)
  BY <1>2 DEF IfconfigFails
<1>3. CASE \E up \in BOOLEAN : OtherSetsFlag(i, up)
  BY <1>3 DEF OtherSetsFlag, FlagBecomes
<1> QED
  BY <1>1, <1>2, <1>3 DEF FlagWriter

(* Every step of the backend, the kernel and the user is a step of the devd *)
(* client or its daemon, or leaves both alone.                              *)
LEMMA StepDevd == [Next]_vars => [D!Next]_(D!vars)
<1> SUFFICES ASSUME [Next]_vars PROVE D!Next \/ UNCHANGED D!vars
  BY DEF D!vars
<1>1. CASE DevdEvent
  BY <1>1 DEF DevdEvent, D!Next, D!Client
<1>2. CASE DevdConnection
  BY <1>2 DEF DevdConnection, D!Next, D!Client, D!Daemon, Notice
<1>3. ASSUME NEW what, NEW type \in {"ATTACH", "DETACH", "LINK"}, NEW i \in Iface, Announce(what, type, i)
      PROVE  D!Next \/ UNCHANGED D!vars
  <2>1. [type |-> type, ifname |-> i] \in Notice
    BY DEF Notice
  <2> QED
    BY <1>3, <2>1 DEF Announce, D!Next, D!Daemon, D!vars, devdVars
<1>4. ASSUME NEW i \in Iface, Attach(i) \/ Detach(i) \/ LinkChange(i) PROVE D!Next \/ UNCHANGED D!vars
  BY <1>3, <1>4 DEF Attach, Detach, LinkChange
<1>5. CASE UNCHANGED devdVars
  BY <1>5 DEF devdVars, D!vars
<1>6. CASE handleRouteMessage \/ scanExistingDevices \/ ListingFinished \/ IfconfigLists
  BY <1>5, <1>6 DEF handleRouteMessage, scanExistingDevices, ListingFinished, IfconfigLists
<1>7. ASSUME NEW d \in Dev, DeleteDeferred(d) PROVE D!Next \/ UNCHANGED D!vars
  BY <1>5, <1>7 DEF DeleteDeferred
<1>8. ASSUME NEW i \in Iface, FlagWriter(i) PROVE D!Next \/ UNCHANGED D!vars
  BY <1>5, <1>8, FlagFrame
<1>9. ASSUME NEW enabled \in BOOLEAN, setWifiEnabled(enabled) PROVE D!Next \/ UNCHANGED D!vars
  BY <1>5, <1>9 DEF setWifiEnabled
<1>10. CASE UNCHANGED vars
  BY <1>5, <1>10 DEF vars
<1> QED
  BY <1>1, <1>2, <1>4, <1>6, <1>7, <1>8, <1>9, <1>10 DEF Next, Backend, Kernel, FlagWriter

(* The client of the backend and the client of its proofs take the same steps. *)
LEMMA SameNext == D!Next <=> DP!Next
<1>1. D!attemptReconnect <=> DP!attemptReconnect
  BY Zenon DEF D!attemptReconnect, DP!attemptReconnect, D!connectToDevd, DP!connectToDevd,
               D!SocketFails, DP!SocketFails, D!ConnectFails, DP!ConnectFails,
               D!ConnectSucceeds, DP!ConnectSucceeds
<1>2. (D!ReceiveEof <=> DP!ReceiveEof) /\ (D!ReceiveError <=> DP!ReceiveError)
  BY Zenon DEF D!ReceiveEof, DP!ReceiveEof, D!ReceiveError, DP!ReceiveError, D!Activated, DP!Activated,
               D!onDisconnected, DP!onDisconnected, D!ReleaseConnection, DP!ReleaseConnection,
               D!StopTimer, DP!StopTimer, D!scheduleReconnect, DP!scheduleReconnect
<1>3. \A e : D!ReceiveEvent(e) <=> DP!ReceiveEvent(e)
  BY Zenon DEF D!ReceiveEvent, DP!ReceiveEvent, D!Activated, DP!Activated
<1>4. (D!DevdStarts <=> DP!DevdStarts) /\ (D!DevdStops <=> DP!DevdStops)
  BY Zenon DEF D!DevdStarts, DP!DevdStarts, D!DevdStops, DP!DevdStops, D!client, DP!client
<1>5. \A e : D!Publish(e) <=> DP!Publish(e)
  BY Zenon DEF D!Publish, DP!Publish, D!Listening, DP!Listening, D!client, DP!client
<1> QED
  BY <1>1, <1>2, <1>3, <1>4, <1>5, Zenon DEF D!Next, DP!Next, D!Client, DP!Client, D!Daemon, DP!Daemon

(* What is proved of the devd client holds for it inside the backend.       *)
LEMMA SameClient ==
  /\ D!Init => DP!IInv
  /\ DP!IInv /\ [D!Next]_(D!vars) => DP!IInv'
  /\ DP!IInv => D!TypeOK /\ D!ResourcesAgree
<1>1. DP!DevdAssumption
  BY NetAssumption DEF NetAssumption, DP!DevdAssumption
<1>2. DP!Init => DP!IInv
  BY <1>1, DP!InitIInv
<1>3. DP!IInv /\ [DP!Next]_(DP!vars) => DP!IInv'
  BY <1>1, DP!NextIInv
<1>4. (D!Init => DP!Init) /\ (UNCHANGED D!vars => UNCHANGED DP!vars)
  BY DEF D!Init, DP!Init, D!vars, DP!vars
<1>5. D!Next <=> DP!Next
  BY SameNext
<1>6. DP!IInv => D!TypeOK /\ D!ResourcesAgree
  BY DEF DP!IInv, DP!TypeOK, DP!ResourcesAgree, D!TypeOK, D!ResourcesAgree
<1> QED
  BY <1>2, <1>3, <1>4, <1>5, <1>6

\* The devd client keeps its promises inside the backend: every behaviour of
\* the backend is one of the client, whatever the read loop of the route socket
\* holds up and whatever the notices make the backend do.
THEOREM BackendRunsDevd == Spec => D!Spec
<1>1. Init => D!Init
  BY DEF Init
<1> QED
  BY <1>1, StepDevd, PTL DEF Spec, D!Spec

\* So descriptor, notifier, property and timer agree inside the backend too.
THEOREM ClientStaysConsistent == Spec => [](D!TypeOK /\ D!ResourcesAgree)
<1>1. Init => D!Init
  BY DEF Init
<1> QED
  BY <1>1, StepDevd, SameClient, PTL DEF Spec

-----------------------------------------------------------------------------
(* Devices, rows and objects.  That mDevices only holds living objects      *)
(* follows from the mirror property, so the invariant asks for less.        *)

TrackingTypes ==
  /\ mDevices \in [Iface -> Dev \cup {NoDev}]
  /\ rows \in [Dev -> Nat]
  /\ object \in [Dev -> {"free", "alive", "doomed"}]
  /\ stale \in SUBSET Iface /\ ghosts \in SUBSET Iface /\ switched \in SUBSET Iface

TrackingInv == TrackingTypes /\ ModelMirrorsDevices

(* Nothing happens to the devices.                                          *)
LEMMA TrackingFrame ==
  ASSUME TrackingInv, UNCHANGED <<mDevices, rows, object>>,
         stale' \in SUBSET Iface, ghosts' \in SUBSET Iface, switched' \in SUBSET Iface
  PROVE  TrackingInv'
BY DEF TrackingInv, TrackingTypes, ModelMirrorsDevices, tracked

(* A new device takes a free object, which no interface and no row shows.   *)
LEMMA AddKeeps ==
  ASSUME TrackingInv, NEW i \in Handled, i \in Iface, i \notin tracked, AddDevice(i)
  PROVE  TrackingInv'
<1>1. PICK d \in Dev :
        /\ object[d] = "free"
        /\ object' = [object EXCEPT ![d] = "alive"]
        /\ mDevices' = [mDevices EXCEPT ![i] = d]
        /\ rows' = [rows EXCEPT ![d] = @ + 1]
        /\ stale' = stale \ {i}
        /\ UNCHANGED <<ghosts, switched>>
  BY DEF AddDevice
<1>2. TrackingTypes'
  BY <1>1 DEF TrackingInv, TrackingTypes
<1>3. \A j \in tracked : mDevices[j] # d
  BY <1>1 DEF TrackingInv, ModelMirrorsDevices
<1>4. rows[d] = 0
  BY <1>3 DEF TrackingInv, ModelMirrorsDevices
<1>5. d # NoDev
  BY NetAssumption DEF NetAssumption
<1>6. /\ tracked' = tracked \cup {i}
      /\ mDevices'[i] = d
      /\ \A j \in tracked : mDevices'[j] = mDevices[j]
  BY <1>1, <1>5 DEF TrackingInv, TrackingTypes, tracked
<1>7. tracked' \subseteq Handled /\ \A j, k \in tracked' : mDevices'[j] = mDevices'[k] => j = k
  BY <1>3, <1>6 DEF TrackingInv, ModelMirrorsDevices
<1>8. ASSUME NEW e \in Dev
      PROVE  LET isTracked == \E j \in tracked' : mDevices'[j] = e IN
             rows'[e] = (IF isTracked THEN 1 ELSE 0) /\ (object'[e] = "alive" <=> isTracked)
  <2>1. CASE e = d
    BY <1>1, <1>4, <1>6, <2>1 DEF TrackingInv, TrackingTypes
  <2>2. CASE e # d
    <3>1. (\E j \in tracked' : mDevices'[j] = e) <=> (\E j \in tracked : mDevices[j] = e)
      BY <1>6, <2>2
    <3>2. rows'[e] = rows[e] /\ object'[e] = object[e]
      BY <1>1, <2>2 DEF TrackingInv, TrackingTypes
    <3> QED
      BY <3>1, <3>2 DEF TrackingInv, ModelMirrorsDevices
  <2> QED
    BY <2>1, <2>2
<1> QED
  BY <1>2, <1>7, <1>8 DEF TrackingInv, ModelMirrorsDevices

(* A device that is removed leaves the map and its row together, and no     *)
(* other interface has the same device.                                     *)
LEMMA RemoveKeeps ==
  ASSUME TrackingInv, NEW i \in Iface, removeInterface(i)
  PROVE  TrackingInv'
<1>1. CASE i \notin tracked
  BY <1>1, TrackingFrame DEF removeInterface, tracking, TrackingInv, TrackingTypes
<1>2. CASE i \in tracked
  <2> DEFINE d == mDevices[i]
  <2>1. /\ mDevices' = [mDevices EXCEPT ![i] = NoDev]
        /\ rows' = [rows EXCEPT ![d] = IF @ > 0 THEN @ - 1 ELSE @]
        /\ object' = [object EXCEPT ![d] = "doomed"]
        /\ ghosts' = ghosts \ {i} /\ switched' = switched \ {i} /\ UNCHANGED stale
    BY <1>2 DEF removeInterface
  <2>2. d \in Dev /\ rows[d] = 1
    BY <1>2 DEF TrackingInv, TrackingTypes, ModelMirrorsDevices, tracked
  <2>3. TrackingTypes'
    BY <2>1, <2>2 DEF TrackingInv, TrackingTypes
  <2>4. /\ tracked' = tracked \ {i}
        /\ \A j \in tracked' : mDevices'[j] = mDevices[j] /\ mDevices[j] # d
    BY <1>2, <2>1 DEF TrackingInv, TrackingTypes, ModelMirrorsDevices, tracked
  <2>5. tracked' \subseteq Handled /\ \A j, k \in tracked' : mDevices'[j] = mDevices'[k] => j = k
    BY <2>4 DEF TrackingInv, ModelMirrorsDevices
  <2>6. ASSUME NEW e \in Dev
        PROVE  LET isTracked == \E j \in tracked' : mDevices'[j] = e IN
               rows'[e] = (IF isTracked THEN 1 ELSE 0) /\ (object'[e] = "alive" <=> isTracked)
    <3>1. CASE e = d
      BY <2>1, <2>2, <2>4, <3>1 DEF TrackingInv, TrackingTypes
    <3>2. CASE e # d
      <4>1. (\E j \in tracked' : mDevices'[j] = e) <=> (\E j \in tracked : mDevices[j] = e)
        BY <2>4, <3>2
      <4>2. rows'[e] = rows[e] /\ object'[e] = object[e]
        BY <2>1, <3>2 DEF TrackingInv, TrackingTypes
      <4> QED
        BY <4>1, <4>2 DEF TrackingInv, ModelMirrorsDevices
    <3> QED
      BY <3>1, <3>2
  <2> QED
    BY <2>3, <2>5, <2>6 DEF TrackingInv, ModelMirrorsDevices
<1> QED
  BY <1>1, <1>2

(* A message or notice about an interface that is not ignored.              *)
LEMMA NoticeKeeps ==
  ASSUME TrackingInv, NEW i \in Iface, i \notin Ignored,
         processInterface(i) \/ removeInterface(i) \/ handleInterfaceEvent(i)
  PROVE  TrackingInv'
<1>1. CASE processInterface(i)
  <2>1. CASE UNCHANGED tracking
    BY <2>1, TrackingFrame DEF tracking, TrackingInv, TrackingTypes
  <2>2. CASE i \notin tracked /\ i \in Handled /\ AddDevice(i)
    BY <2>2, AddKeeps
  <2> QED
    BY <1>1, <2>1, <2>2 DEF processInterface, Handled
<1>2. CASE removeInterface(i)
  BY <1>2, RemoveKeeps
<1>3. CASE handleInterfaceEvent(i)
  BY <1>3, TrackingFrame DEF handleInterfaceEvent, TrackingInv, TrackingTypes
<1> QED
  BY <1>1, <1>2, <1>3

(* The listing adds one device for each interface that has none, all of them *)
(* in one callback and all of them different.                               *)
LEMMA ListingKeeps ==
  ASSUME TrackingInv, snapshot \in SUBSET Iface, ListingFinished
  PROVE  TrackingInv'
<1> DEFINE new == Untracked
<1>1. PICK pick \in [new -> {d \in Dev : object[d] = "free"}] :
        /\ \A i, j \in new : pick[i] = pick[j] => i = j
        /\ mDevices' = [i \in Iface |-> IF i \in new THEN pick[i] ELSE mDevices[i]]
        /\ rows' = [d \in Dev |-> IF \E i \in new : pick[i] = d THEN rows[d] + 1 ELSE rows[d]]
        /\ object' = [d \in Dev |-> IF \E i \in new : pick[i] = d THEN "alive" ELSE object[d]]
  BY DEF ListingFinished
<1>2. new \subseteq Iface /\ new \subseteq Handled /\ new \cap tracked = {} /\ tracked \subseteq Iface
  BY DEF Untracked, tracked
<1>3. \A i \in new : pick[i] \in Dev /\ pick[i] # NoDev /\ object[pick[i]] = "free"
  BY NetAssumption DEF NetAssumption
<1>4. TrackingTypes'
  <2>1. mDevices' \in [Iface -> Dev \cup {NoDev}]
    BY <1>1, <1>3 DEF TrackingInv, TrackingTypes
  <2>2. rows' \in [Dev -> Nat] /\ object' \in [Dev -> {"free", "alive", "doomed"}]
    BY <1>1 DEF TrackingInv, TrackingTypes
  <2>3. stale' \in SUBSET Iface /\ ghosts' \in SUBSET Iface /\ switched' \in SUBSET Iface
    BY <1>2 DEF TrackingInv, TrackingTypes, ListingFinished
  <2> QED
    BY <2>1, <2>2, <2>3 DEF TrackingTypes
<1>5. /\ tracked' = tracked \cup new
      /\ \A i \in new : mDevices'[i] = pick[i]
      /\ \A i \in tracked : mDevices'[i] = mDevices[i]
  BY <1>1, <1>2, <1>3 DEF tracked
<1>6. \A i \in new, j \in tracked : pick[i] # mDevices[j]
  BY <1>3 DEF TrackingInv, ModelMirrorsDevices
<1>7. tracked' \subseteq Handled /\ \A j, k \in tracked' : mDevices'[j] = mDevices'[k] => j = k
  BY <1>1, <1>2, <1>5, <1>6 DEF TrackingInv, ModelMirrorsDevices
<1>8. ASSUME NEW d \in Dev
      PROVE  LET isTracked == \E j \in tracked' : mDevices'[j] = d IN
             rows'[d] = (IF isTracked THEN 1 ELSE 0) /\ (object'[d] = "alive" <=> isTracked)
  <2>1. CASE \E i \in new : pick[i] = d
    <3>1. ~ \E j \in tracked : mDevices[j] = d
      BY <1>6, <2>1
    <3>2. rows[d] = 0
      BY <3>1 DEF TrackingInv, ModelMirrorsDevices
    <3>3. rows'[d] = 1 /\ object'[d] = "alive"
      BY <1>1, <2>1, <3>2
    <3>4. \E j \in tracked' : mDevices'[j] = d
      BY <1>5, <2>1
    <3> QED
      BY <3>3, <3>4
  <2>2. CASE ~ \E i \in new : pick[i] = d
    <3>1. (\E j \in tracked' : mDevices'[j] = d) <=> (\E j \in tracked : mDevices[j] = d)
      BY <1>5, <2>2
    <3>2. rows'[d] = rows[d] /\ object'[d] = object[d]
      BY <1>1, <2>2
    <3> QED
      BY <3>1, <3>2 DEF TrackingInv, ModelMirrorsDevices
  <2> QED
    BY <2>1, <2>2
<1> QED
  BY <1>4, <1>7, <1>8 DEF TrackingInv, ModelMirrorsDevices

(* What the sources may say, and the variables that are not about devices.  *)
SourceTypes ==
  /\ present \in SUBSET Iface /\ snapshot \in SUBSET Iface /\ adminUp \in SUBSET Iface
  /\ route \in Seq(RouteMsg) /\ reading \in BOOLEAN
  /\ scan \in {"queued", "running", "listed", "done", "failed"}
  /\ bWifiEnabled \in BOOLEAN
  /\ cmds \in [Iface -> [Cmd -> Nat]]
  /\ boot \in SUBSET Iface /\ devdMissed \in SUBSET Iface /\ contested \in SUBSET Iface

(* Every step keeps rows and devices in agreement.                          *)
LEMMA StepTracking == SourceTypes /\ TrackingInv /\ [Next]_vars => TrackingInv'
<1> SUFFICES ASSUME SourceTypes, TrackingInv, [Next]_vars PROVE TrackingInv'
  OBVIOUS
<1>1. ASSUME UNCHANGED tracking PROVE TrackingInv'
  BY <1>1, TrackingFrame DEF tracking, TrackingInv, TrackingTypes
<1>2. CASE handleRouteMessage
  <2>1. Head(route) \in RouteMsg
    BY <1>2 DEF handleRouteMessage, SourceTypes
  <2>2. Head(route).ifname \in Iface
    BY <2>1 DEF RouteMsg
  <2> QED
    BY <1>1, <1>2, <2>2, NoticeKeeps DEF handleRouteMessage
<1>3. CASE DevdEvent
  <2>1. PICK e \in Notice : handleDevdEvent(e)
    BY <1>3 DEF DevdEvent
  <2>3. CASE e.type # "OTHER" /\ e.ifname \notin Ignored
    <3>1. e.ifname \in Iface
      BY <2>3 DEF Notice, OtherNotice
    <3> QED
      BY <2>1, <2>3, <3>1, NoticeKeeps DEF handleDevdEvent
  <2>2. CASE e.type = "OTHER" \/ e.ifname \in Ignored
    BY <1>1, <2>1, <2>2 DEF handleDevdEvent
  <2> QED
    BY <2>2, <2>3
<1>4. CASE ListingFinished
  BY <1>4, ListingKeeps DEF SourceTypes
<1>5. ASSUME NEW d \in Dev, DeleteDeferred(d) PROVE TrackingInv'
  <2>1. object[d] = "doomed" /\ object' = [object EXCEPT ![d] = "free"]
        /\ UNCHANGED <<mDevices, rows, stale, ghosts, switched>>
    BY <1>5 DEF DeleteDeferred
  <2>2. \A e \in Dev : object'[e] = "alive" <=> object[e] = "alive"
    BY <2>1 DEF TrackingInv, TrackingTypes
  <2> QED
    BY <2>1, <2>2 DEF TrackingInv, TrackingTypes, ModelMirrorsDevices, tracked
<1>6. ASSUME NEW i \in Iface, Attach(i) \/ Detach(i) \/ LinkChange(i) PROVE TrackingInv'
  BY <1>6, TrackingFrame DEF Attach, Detach, LinkChange, TrackingInv, TrackingTypes
<1>7. ASSUME NEW i \in Iface, FlagWriter(i) PROVE TrackingInv'
  BY <1>7, FlagFrame, TrackingFrame DEF TrackingInv, TrackingTypes
<1>8. ASSUME NEW enabled \in BOOLEAN, setWifiEnabled(enabled) PROVE TrackingInv'
  BY <1>8, TrackingFrame DEF setWifiEnabled, TrackingInv, TrackingTypes, SourceTypes
<1>9. CASE scanExistingDevices \/ IfconfigLists \/ DevdConnection
  BY <1>1, <1>9 DEF scanExistingDevices, IfconfigLists, DevdConnection
<1>10. CASE UNCHANGED vars
  BY <1>1, <1>10 DEF vars, tracking
<1> QED
  BY <1>2, <1>3, <1>4, <1>5, <1>6, <1>7, <1>8, <1>9, <1>10 DEF Next, Backend, Kernel, FlagWriter

-----------------------------------------------------------------------------
(* Types, and the invariant as a whole *)

(* Every step keeps the types of what the sources say.                      *)
LEMMA StepSources == SourceTypes /\ [Next]_vars => SourceTypes'
<1> SUFFICES ASSUME SourceTypes, [Next]_vars PROVE SourceTypes'
  OBVIOUS
<1> USE DEF SourceTypes
<1>1. CASE handleRouteMessage
  <2>1. route' \in Seq(RouteMsg) /\ reading' \in BOOLEAN
    BY <1>1 DEF handleRouteMessage
  <2> QED
    BY <1>1, <2>1 DEF handleRouteMessage, wifiVars
<1>2. CASE DevdEvent
  BY <1>2 DEF DevdEvent, wifiVars
<1>3. CASE scanExistingDevices \/ IfconfigLists
  BY <1>3 DEF scanExistingDevices, IfconfigLists, wifiVars
<1>4. CASE ListingFinished
  BY <1>4 DEF ListingFinished, wifiVars
<1>5. ASSUME NEW d \in Dev, DeleteDeferred(d) PROVE SourceTypes'
  BY <1>5 DEF DeleteDeferred, wifiVars
<1>6. ASSUME NEW i \in Iface, NEW what \in {"ARRIVAL", "DEPARTURE", "IFINFO"}, NEW type, Announce(what, type, i)
      PROVE  route' \in Seq(RouteMsg) /\ devdMissed' \in SUBSET Iface
  <2>1. [what |-> what, ifname |-> i] \in RouteMsg
    BY DEF RouteMsg
  <2> QED
    BY <1>6, <2>1 DEF Announce
<1>7. ASSUME NEW i \in Iface, Attach(i) \/ Detach(i) \/ LinkChange(i) PROVE SourceTypes'
  <2>1. route' \in Seq(RouteMsg) /\ devdMissed' \in SUBSET Iface
    BY <1>6, <1>7 DEF Attach, Detach, LinkChange
  <2> QED
    BY <1>7, <2>1 DEF Attach, Detach, LinkChange, wifiVars
<1>8. ASSUME NEW i \in Iface, FlagWriter(i) PROVE SourceTypes'
  <2>1. [what |-> "IFINFO", ifname |-> i] \in RouteMsg
    BY DEF RouteMsg
  <2>2. adminUp' \in SUBSET Iface
    BY <1>8, FlagFrame
  <2>3. route' = route \/ route' = Append(route, [what |-> "IFINFO", ifname |-> i])
    BY <1>8, FlagFrame
  <2>4. Append(route, [what |-> "IFINFO", ifname |-> i]) \in Seq(RouteMsg)
    BY <2>1
  <2>5. route' \in Seq(RouteMsg)
    BY <2>3, <2>4
  <2>6. cmds' \in [Iface -> [Cmd -> Nat]] /\ contested' \in SUBSET Iface
    <3>1. ASSUME NEW c \in Cmd, IfconfigSetsFlag(i, c) \/ IfconfigFails(i, c)
          PROVE  cmds' \in [Iface -> [Cmd -> Nat]] /\ contested' \in SUBSET Iface
      <4>1. cmds' = [cmds EXCEPT ![i][c] = @ - 1] /\ cmds[i][c] > 0 /\ cmds \in [Iface -> [Cmd -> Nat]]
        BY <3>1 DEF IfconfigSetsFlag, IfconfigFails
      <4>2. contested' = contested \/ contested' = contested \cup ({i} \cap switched)
        BY <3>1 DEF IfconfigSetsFlag, IfconfigFails
      <4> QED
        BY <4>1, <4>2
    <3>2. ASSUME NEW up \in BOOLEAN, OtherSetsFlag(i, up)
          PROVE  cmds' \in [Iface -> [Cmd -> Nat]] /\ contested' \in SUBSET Iface
      BY <3>2 DEF OtherSetsFlag
    <3> QED
      BY <1>8, <3>1, <3>2 DEF FlagWriter
  <2> QED
    BY <1>8, <2>2, <2>5, <2>6, FlagFrame
<1>9. ASSUME NEW enabled \in BOOLEAN, setWifiEnabled(enabled) PROVE SourceTypes'
  <2>1. \E c \in Cmd : cmds' = [i \in Iface |-> IF i \in tracked THEN [cmds[i] EXCEPT ![c] = @ + 1] ELSE cmds[i]]
    BY <1>9 DEF setWifiEnabled, Cmd
  <2>2. cmds' \in [Iface -> [Cmd -> Nat]]
    <3>1. PICK c \in Cmd :
            cmds' = [i \in Iface |-> IF i \in tracked THEN [cmds[i] EXCEPT ![c] = @ + 1] ELSE cmds[i]]
      BY <2>1
    <3>2. \A i \in Iface : [cmds[i] EXCEPT ![c] = @ + 1] \in [Cmd -> Nat] /\ cmds[i] \in [Cmd -> Nat]
      OBVIOUS
    <3> QED
      BY <3>1, <3>2
  <2>3. bWifiEnabled' \in BOOLEAN /\ contested' \in SUBSET Iface
    BY <1>9 DEF setWifiEnabled
  <2> QED
    BY <1>9, <2>2, <2>3 DEF setWifiEnabled
<1>10. CASE DevdConnection
  <2>1. devdMissed' \in SUBSET Iface
    BY <1>10 DEF DevdConnection
  <2> QED
    BY <1>10, <2>1 DEF DevdConnection, wifiVars
<1>11. CASE UNCHANGED vars
  BY <1>11 DEF vars
<1> QED
  BY <1>1, <1>2, <1>3, <1>4, <1>5, <1>7, <1>8, <1>9, <1>10, <1>11 DEF Next, Backend, Kernel, FlagWriter

IInv == DP!IInv /\ SourceTypes /\ TrackingInv

(* The program starts without devices.                                      *)
LEMMA InitIInv == Init => IInv
<1> SUFFICES ASSUME Init PROVE IInv
  OBVIOUS
<1>1. DP!IInv
  BY SameClient DEF Init
<1>2. SourceTypes
  <2>1. cmds \in [Iface -> [Cmd -> Nat]]
    BY DEF Init
  <2>2. route \in Seq(RouteMsg)
    BY DEF Init
  <2> QED
    BY <2>1, <2>2 DEF Init, SourceTypes
<1>3. TrackingTypes /\ tracked = {}
  BY DEF Init, TrackingTypes, tracked
<1>4. ModelMirrorsDevices
  BY <1>3 DEF Init, ModelMirrorsDevices
<1> QED
  BY <1>1, <1>2, <1>3, <1>4 DEF IInv, TrackingInv

(* The three parts are kept together.                                       *)
LEMMA StepIInv == IInv /\ [Next]_vars => IInv'
<1>1. DP!IInv /\ [Next]_vars => DP!IInv'
  BY StepDevd, SameClient
<1> QED
  BY <1>1, StepSources, StepTracking DEF IInv

\* Every variable keeps its type, and mDevices never holds an object that was
\* handed to deleteLater.
THEOREM TypeCorrect == Spec => []TypeOK
<1>1. IInv => TypeOK
  <2> SUFFICES ASSUME IInv PROVE TypeOK
    OBVIOUS
  <2>1. D!TypeOK
    BY SameClient DEF IInv
  <2>2. mDevices \in [Iface -> {d \in Dev : object[d] = "alive"} \cup {NoDev}]
    BY DEF IInv, TrackingInv, TrackingTypes, ModelMirrorsDevices, tracked
  <2> QED
    BY <2>1, <2>2 DEF IInv, SourceTypes, TrackingInv, TrackingTypes, TypeOK
<1> QED
  BY <1>1, InitIInv, StepIInv, PTL DEF Spec

\* For any interfaces and any order of route messages, devd notices, the
\* listing and deferred deletions, the list model shows each device of the
\* backend in one row, and each device is one interface's own.
THEOREM ListIsDevices == Spec => []ModelMirrorsDevices
<1>1. IInv => ModelMirrorsDevices
  BY DEF IInv, TrackingInv
<1> QED
  BY <1>1, InitIInv, StepIInv, PTL DEF Spec

-----------------------------------------------------------------------------
(* setWifiEnabled: of an interface the last call was sent to, and whose     *)
(* flag is up to that call alone, the one command of the call is running or *)
(* has left the flag as the property shows.                                 *)

CmdOf(enabled) == IF enabled THEN "up" ELSE "down"

Sent(i) ==
  /\ i \in present
  /\ \A c \in Cmd : cmds[i][c] <= IF c = CmdOf(bWifiEnabled) THEN 1 ELSE 0
  /\ cmds[i][CmdOf(bWifiEnabled)] = 0 => (i \in adminUp <=> bWifiEnabled)

SwitchInv == \A i \in switched \ contested : Sent(i)

(* A step that leaves flags and commands alone and takes no interface away. *)
LEMMA SwitchFrame ==
  ASSUME SwitchInv, UNCHANGED wifiVars, switched' \subseteq switched, switched' \cap present \subseteq present'
  PROVE  SwitchInv'
BY DEF SwitchInv, Sent, wifiVars

(* Handlers change the devices and forget what was sent to a removed one.   *)
LEMMA HandlersForget ==
  ASSUME NEW i, processInterface(i) \/ removeInterface(i) \/ handleInterfaceEvent(i) \/ UNCHANGED tracking
  PROVE  switched' \subseteq switched
BY DEF processInterface, AddDevice, removeInterface, handleInterfaceEvent, tracking

LEMMA StepSwitch == IInv /\ SwitchInv /\ [Next]_vars => SwitchInv'
<1> SUFFICES ASSUME IInv, SwitchInv, [Next]_vars PROVE SwitchInv'
  OBVIOUS
<1>1. CASE handleRouteMessage
  <2>1. switched' \subseteq switched
    BY <1>1, HandlersForget DEF handleRouteMessage
  <2> QED
    BY <1>1, <2>1, SwitchFrame DEF handleRouteMessage
<1>2. CASE DevdEvent
  <2>1. switched' \subseteq switched
    BY <1>2, HandlersForget DEF DevdEvent, handleDevdEvent
  <2> QED
    BY <1>2, <2>1, SwitchFrame DEF DevdEvent
<1>3. CASE scanExistingDevices \/ IfconfigLists \/ ListingFinished \/ DevdConnection
  BY <1>3, SwitchFrame DEF scanExistingDevices, IfconfigLists, ListingFinished, DevdConnection, tracking
<1>4. ASSUME NEW d \in Dev, DeleteDeferred(d) PROVE SwitchInv'
  BY <1>4, SwitchFrame DEF DeleteDeferred
<1>5. ASSUME NEW i \in Iface, Attach(i) \/ LinkChange(i) PROVE SwitchInv'
  BY <1>5, SwitchFrame DEF Attach, LinkChange
<1>6. ASSUME NEW i \in Iface, Detach(i) PROVE SwitchInv'
  BY <1>6 DEF Detach, SwitchInv, Sent
<1>7. ASSUME NEW j \in Iface, NEW c \in Cmd, IfconfigSetsFlag(j, c) PROVE SwitchInv'
  <2>1. ASSUME NEW i \in switched \ contested PROVE Sent(i)'
    <3>1. i \in Iface /\ Sent(i) /\ cmds \in [Iface -> [Cmd -> Nat]] /\ bWifiEnabled \in BOOLEAN
      BY DEF IInv, SourceTypes, TrackingInv, TrackingTypes, SwitchInv
    <3>2. /\ cmds[j][c] > 0 /\ cmds' = [cmds EXCEPT ![j][c] = @ - 1]
          /\ UNCHANGED <<present, bWifiEnabled>>
      BY <1>7 DEF IfconfigSetsFlag
    <3>3. CASE i # j
      <4>1. i \in adminUp' <=> i \in adminUp
        BY <1>7, <3>3 DEF IfconfigSetsFlag, FlagBecomes
      <4> QED
        BY <3>1, <3>2, <3>3, <4>1 DEF Sent
    <3>4. CASE i = j
      <4>1. c = CmdOf(bWifiEnabled) /\ cmds[i][c] = 1
        BY <3>1, <3>2, <3>4 DEF Sent, Cmd
      <4>2. i \in adminUp' <=> bWifiEnabled
        BY <1>7, <3>1, <3>4, <4>1 DEF IfconfigSetsFlag, FlagBecomes, Sent, CmdOf
      <4>3. \A b \in Cmd : cmds'[i][b] = IF b = c THEN 0 ELSE cmds[i][b]
        BY <3>1, <3>2, <3>4, <4>1
      <4> QED
        BY <3>1, <3>2, <4>1, <4>2, <4>3 DEF Sent
    <3> QED
      BY <3>3, <3>4
  <2> QED
    BY <1>7, <2>1 DEF SwitchInv, IfconfigSetsFlag
<1>10. ASSUME NEW j \in Iface, NEW c \in Cmd, IfconfigFails(j, c) PROVE SwitchInv'
  <2>1. ASSUME NEW i \in switched' \ contested' PROVE Sent(i)'
    <3>1. /\ i \in switched \ contested /\ i # j /\ i \in Iface
          /\ UNCHANGED <<present, adminUp, bWifiEnabled>> /\ cmds' = [cmds EXCEPT ![j][c] = @ - 1]
      BY <1>10, <2>1 DEF IfconfigFails, IInv, TrackingInv, TrackingTypes
    <3>2. Sent(i) /\ cmds'[i] = cmds[i]
      BY <3>1 DEF IInv, SourceTypes, SwitchInv
    <3> QED
      BY <3>1, <3>2 DEF Sent
  <2> QED
    BY <2>1 DEF SwitchInv
<1>11. ASSUME NEW j \in Iface, NEW up \in BOOLEAN, OtherSetsFlag(j, up) PROVE SwitchInv'
  <2>1. ASSUME NEW i \in switched' \ contested' PROVE Sent(i)'
    <3>1. i \in switched \ contested /\ i # j /\ UNCHANGED <<present, bWifiEnabled, cmds>>
      BY <1>11, <2>1 DEF OtherSetsFlag
    <3>2. Sent(i) /\ (i \in adminUp' <=> i \in adminUp)
      BY <1>11, <3>1 DEF SwitchInv, OtherSetsFlag, FlagBecomes
    <3> QED
      BY <3>1, <3>2 DEF Sent
  <2> QED
    BY <2>1 DEF SwitchInv
<1>8. ASSUME NEW enabled \in BOOLEAN, setWifiEnabled(enabled) PROVE SwitchInv'
  <2> DEFINE c == CmdOf(enabled)
  <2>1. ASSUME NEW i \in switched' \ contested' PROVE Sent(i)'
    <3>1. i \in Iface /\ i \in tracked /\ i \in present /\ present' = present /\ bWifiEnabled' = enabled
      BY <1>8, <2>1 DEF setWifiEnabled, tracked
    <3>2. cmds' = [j \in Iface |-> IF j \in tracked THEN [cmds[j] EXCEPT ![c] = @ + 1] ELSE cmds[j]]
      BY <1>8 DEF setWifiEnabled, CmdOf
    <3>3. cmds \in [Iface -> [Cmd -> Nat]] /\ c \in Cmd
      BY DEF IInv, SourceTypes, CmdOf, Cmd
    <3>4. \A b \in Cmd : cmds[i][b] = 0
      BY <1>8, <2>1, <3>1, <3>3 DEF setWifiEnabled
    <3>5. \A b \in Cmd : cmds'[i][b] = IF b = c THEN 1 ELSE 0
      BY <3>1, <3>2, <3>3, <3>4
    <3> QED
      BY <3>1, <3>3, <3>5 DEF Sent
  <2> QED
    BY <2>1 DEF SwitchInv
<1>9. CASE UNCHANGED vars
  BY <1>9, SwitchFrame DEF vars, wifiVars
<1> QED
  BY <1>1, <1>2, <1>3, <1>4, <1>5, <1>6, <1>7, <1>8, <1>9, <1>10, <1>11 DEF Next, Backend, Kernel

\* For any number of interfaces and of commands in flight: once its processes
\* have run, setWifiEnabled has put every interface it was sent to in the state
\* that the wifiEnabled property shows, unless one of them failed, ran beside an
\* earlier one or was followed by another writer of the flag.
THEOREM SwitchSettles == Spec => []WifiSwitchSettles
<1>1. Init => SwitchInv
  BY DEF Init, SwitchInv
<1>2. SwitchInv => WifiSwitchSettles
  BY DEF SwitchInv, Sent, WifiSwitchSettles, CmdOf, Cmd
<1> QED
  BY <1>1, <1>2, InitIInv, StepIInv, StepSwitch, PTL DEF Spec

-----------------------------------------------------------------------------
(* Messages in a queue: q holds m, and every m in q has an n behind it.     *)

Holds(q, m) == \E k \in DOMAIN q : q[k] = m

Followed(q, m, n) == \A k \in DOMAIN q : q[k] = m => \E l \in DOMAIN q : k < l /\ q[l] = n

(* Reading the head: what was behind it is still there.                     *)
LEMMA TailHolds ==
  ASSUME NEW S, NEW q \in Seq(S), q # <<>>, NEW m
  PROVE  Holds(q, m) <=> Head(q) = m \/ Holds(Tail(q), m)
<1>1. /\ Len(q) \in Nat \ {0} /\ DOMAIN q = 1 .. Len(q) /\ Head(q) = q[1]
      /\ Tail(q) \in Seq(S) /\ Len(Tail(q)) = Len(q) - 1
      /\ \A i \in 1 .. Len(Tail(q)) : Tail(q)[i] = q[i + 1]
  BY HeadTailProperties, EmptySeq, LenProperties
<1>2. DOMAIN Tail(q) = 1 .. Len(q) - 1
  BY <1>1, LenProperties
<1>3. ASSUME Holds(q, m) PROVE Head(q) = m \/ Holds(Tail(q), m)
  <2>1. PICK k \in 1 .. Len(q) : q[k] = m
    BY <1>1, <1>3 DEF Holds
  <2>2. CASE k # 1
    <3>1. k - 1 \in 1 .. Len(q) - 1 /\ (k - 1) + 1 = k
      BY <1>1, <2>2
    <3> QED
      BY <1>1, <1>2, <2>1, <3>1 DEF Holds
  <2> QED
    BY <1>1, <2>1, <2>2
<1>4. ASSUME Holds(Tail(q), m) PROVE Holds(q, m)
  <2>1. PICK k \in 1 .. Len(q) - 1 : Tail(q)[k] = m
    BY <1>2, <1>4 DEF Holds
  <2>2. k + 1 \in 1 .. Len(q) /\ q[k + 1] = m
    BY <1>1, <2>1
  <2> QED
    BY <1>1, <2>2 DEF Holds
<1>5. Head(q) = m => Holds(q, m)
  <2>1. 1 \in DOMAIN q
    BY <1>1
  <2> QED
    BY <1>1, <2>1 DEF Holds
<1> QED
  BY <1>3, <1>4, <1>5

LEMMA TailFollowed ==
  ASSUME NEW S, NEW q \in Seq(S), q # <<>>, NEW m, NEW n, Followed(q, m, n)
  PROVE  Followed(Tail(q), m, n) /\ (Head(q) = m => Holds(Tail(q), n))
<1>1. /\ Len(q) \in Nat \ {0} /\ DOMAIN q = 1 .. Len(q) /\ Head(q) = q[1]
      /\ Tail(q) \in Seq(S) /\ Len(Tail(q)) = Len(q) - 1
      /\ \A i \in 1 .. Len(Tail(q)) : Tail(q)[i] = q[i + 1]
  BY HeadTailProperties, EmptySeq, LenProperties
<1>2. DOMAIN Tail(q) = 1 .. Len(q) - 1
  BY <1>1, LenProperties
<1>3. ASSUME NEW k \in 1 .. Len(q), q[k] = m
      PROVE  \E l \in 1 .. Len(q) - 1 : k <= l /\ Tail(q)[l] = n
  <2>1. PICK l \in 1 .. Len(q) : k < l /\ q[l] = n
    BY <1>1, <1>3 DEF Followed
  <2>2. l - 1 \in 1 .. Len(q) - 1 /\ k <= l - 1 /\ (l - 1) + 1 = l
    BY <1>1, <2>1
  <2> QED
    BY <1>1, <2>1, <2>2
<1>4. Followed(Tail(q), m, n)
  <2> SUFFICES ASSUME NEW k \in 1 .. Len(q) - 1, Tail(q)[k] = m
               PROVE  \E l \in 1 .. Len(q) - 1 : k < l /\ Tail(q)[l] = n
    BY <1>2 DEF Followed
  <2>1. k + 1 \in 1 .. Len(q) /\ q[k + 1] = m
    BY <1>1
  <2>2. PICK l \in 1 .. Len(q) - 1 : k + 1 <= l /\ Tail(q)[l] = n
    BY <1>3, <2>1
  <2> QED
    BY <1>1, <2>2
<1>5. Head(q) = m => Holds(Tail(q), n)
  <2> SUFFICES ASSUME Head(q) = m PROVE Holds(Tail(q), n)
    OBVIOUS
  <2>1. 1 \in 1 .. Len(q) /\ q[1] = m
    BY <1>1
  <2> QED
    BY <1>2, <1>3, <2>1 DEF Holds
<1> QED
  BY <1>4, <1>5

(* A new message is behind all others.                                      *)
LEMMA AppendHolds ==
  ASSUME NEW S, NEW q \in Seq(S), NEW e \in S, NEW m
  PROVE  Holds(Append(q, e), m) <=> e = m \/ Holds(q, m)
<1>1. /\ Len(q) \in Nat /\ DOMAIN q = 1 .. Len(q) /\ DOMAIN Append(q, e) = 1 .. Len(q) + 1
      /\ Append(q, e)[Len(q) + 1] = e
      /\ \A i \in 1 .. Len(q) : Append(q, e)[i] = q[i]
  BY LenProperties
<1>2. DOMAIN Append(q, e) = DOMAIN q \cup {Len(q) + 1}
  BY <1>1
<1> QED
  BY <1>1, <1>2 DEF Holds

LEMMA AppendFollowed ==
  ASSUME NEW S, NEW q \in Seq(S), NEW e \in S, NEW m, NEW n, m # n
  PROVE  /\ e = n => Followed(Append(q, e), m, n)
         /\ e # m /\ Followed(q, m, n) => Followed(Append(q, e), m, n)
<1> DEFINE a == Append(q, e)
<1>1. /\ Len(q) \in Nat /\ DOMAIN q = 1 .. Len(q) /\ DOMAIN a = 1 .. Len(q) + 1
      /\ a[Len(q) + 1] = e /\ \A i \in 1 .. Len(q) : a[i] = q[i]
  BY LenProperties
<1> HIDE DEF a
<1>2. ASSUME e = n PROVE Followed(a, m, n)
  <2> SUFFICES ASSUME NEW k \in 1 .. Len(q) + 1, a[k] = m
               PROVE  \E l \in 1 .. Len(q) + 1 : k < l /\ a[l] = n
    BY <1>1 DEF Followed
  <2>1. k < Len(q) + 1 /\ Len(q) + 1 \in 1 .. Len(q) + 1
    BY <1>1, <1>2
  <2> QED
    BY <1>1, <1>2, <2>1
<1>3. ASSUME e # m, Followed(q, m, n) PROVE Followed(a, m, n)
  <2> SUFFICES ASSUME NEW k \in 1 .. Len(q) + 1, a[k] = m
               PROVE  \E l \in 1 .. Len(q) + 1 : k < l /\ a[l] = n
    BY <1>1 DEF Followed
  <2>1. k \in 1 .. Len(q) /\ q[k] = m
    BY <1>1, <1>3
  <2>2. PICK l \in 1 .. Len(q) : k < l /\ q[l] = n
    BY <1>1, <1>3, <2>1 DEF Followed
  <2>3. l \in 1 .. Len(q) + 1 /\ a[l] = n
    BY <1>1, <2>2
  <2> QED
    BY <2>2, <2>3
<1> QED
  BY <1>2, <1>3 DEF a

LEMMA EmptyQueue == \A m, n : Followed(<<>>, m, n) /\ ~Holds(<<>>, m)
<1>1. DOMAIN <<>> = {}
  OBVIOUS
<1> QED
  BY <1>1 DEF Followed, Holds

-----------------------------------------------------------------------------
(* What the two queues say of an interface.  The last word about its coming *)
(* and going is the truth, in the route socket always and among the notices *)
(* unless devd failed to deliver one.  Neither queue is read ahead of the   *)
(* other, so a device may be removed and added back on the way; what counts *)
(* is that a message which sets things right is still to come.              *)

Arrival(i)   == [what |-> "ARRIVAL", ifname |-> i]
Departure(i) == [what |-> "DEPARTURE", ifname |-> i]
Info(i)      == [what |-> "IFINFO", ifname |-> i]
Attached(i)  == [type |-> "ATTACH", ifname |-> i]
Detached(i)  == [type |-> "DETACH", ifname |-> i]
Link(i)      == [type |-> "LINK", ifname |-> i]

RouteTells(i) == IF i \in present THEN Followed(route, Departure(i), Arrival(i))
                                  ELSE Followed(route, Arrival(i), Departure(i))

DevdTells(i) == i \notin devdMissed =>
                  IF i \in present THEN Followed(inbox, Detached(i), Attached(i))
                                   ELSE Followed(inbox, Attached(i), Detached(i))

LeavingIsHeard(i) ==
  i \in tracked /\ i \notin present \cup ghosts \cup devdMissed =>
    Holds(route, Departure(i)) \/ Holds(inbox, Detached(i))

ComingIsHeard(i) ==
  i \in present \cap Handled /\ i \notin tracked \cup devdMissed =>
    \/ Holds(route, Arrival(i)) \/ Holds(inbox, Attached(i))
    \/ i \in boot /\ scan # "done"

ChangeIsHeard(i) ==
  i \in tracked \cap stale /\ i \notin ghosts \cup devdMissed =>
    Holds(route, Info(i)) \/ Holds(route, Departure(i)) \/ Holds(inbox, Detached(i))

BootListed(i) == i \in boot => i \in present /\ (scan \in {"listed", "done"} => i \in snapshot)

Word(i) == /\ RouteTells(i) /\ DevdTells(i) /\ BootListed(i)
           /\ LeavingIsHeard(i) /\ ComingIsHeard(i) /\ ChangeIsHeard(i)

(* devd's end of the connection, and nothing is queued on a closed one.     *)
LinkOpen == (peerOpen => devdUp) /\ (~mConnected => inbox = <<>>)

WordInv == LinkOpen /\ \A i \in Iface : Word(i)

(* Names of the messages are as different as the messages.                  *)
LEMMA MessagesDiffer ==
  ASSUME NEW i, NEW j
  PROVE  /\ Arrival(i) # Departure(j) /\ Arrival(i) # Info(j) /\ Departure(i) # Info(j)
         /\ Attached(i) # Detached(j) /\ Attached(i) # Link(j) /\ Detached(i) # Link(j)
         /\ i # j => /\ Arrival(i) # Arrival(j) /\ Departure(i) # Departure(j) /\ Info(i) # Info(j)
                     /\ Attached(i) # Attached(j) /\ Detached(i) # Detached(j)
         /\ Arrival(i).ifname = i /\ Departure(i).ifname = i /\ Info(i).ifname = i
         /\ Attached(i).ifname = i /\ Detached(i).ifname = i /\ Link(i).ifname = i
         /\ Arrival(i).what = "ARRIVAL" /\ Departure(i).what = "DEPARTURE" /\ Info(i).what = "IFINFO"
         /\ Attached(i).type = "ATTACH" /\ Detached(i).type = "DETACH" /\ Link(i).type = "LINK"
BY DEF Arrival, Departure, Info, Attached, Detached, Link

(* What a handler does to its interface, and to no other.                   *)
LEMMA HandlerEffect ==
  ASSUME TrackingInv, NEW j \in Iface, NEW i \in Iface
  PROVE  /\ i # j /\ (processInterface(j) \/ removeInterface(j) \/ handleInterfaceEvent(j)) =>
              /\ i \in tracked' <=> i \in tracked
              /\ i \in ghosts' <=> i \in ghosts
              /\ i \in stale' <=> i \in stale
         /\ processInterface(j) =>
              /\ j \in tracked' <=> j \in tracked \/ j \in Wireless \cup Wired
              /\ j \in tracked => j \in tracked'
              /\ j \in stale' => j \in stale /\ (j \in tracked' => j \in tracked)
              /\ ghosts' = ghosts
         /\ removeInterface(j) => j \notin tracked'
         /\ handleInterfaceEvent(j) =>
              /\ j \in tracked' <=> j \in tracked
              /\ j \in tracked => j \notin stale'
              /\ ghosts' = ghosts
<1>1. ASSUME processInterface(j)
      PROVE  /\ ghosts' = ghosts
             /\ i # j => /\ i \in tracked' <=> i \in tracked
                         /\ i \in stale' <=> i \in stale
             /\ j \in tracked' <=> j \in tracked \/ j \in Wireless \cup Wired
             /\ j \in stale' => j \in stale /\ (j \in tracked' => j \in tracked)
  <2>1. CASE j \in tracked \/ j \notin Wireless \cup Wired
    BY <1>1, <2>1 DEF processInterface, tracking, tracked
  <2>2. CASE ~(j \in tracked \/ j \notin Wireless \cup Wired)
    <3>1. PICK d \in Dev : /\ mDevices' = [mDevices EXCEPT ![j] = d]
                           /\ stale' = stale \ {j} /\ ghosts' = ghosts
      BY <1>1, <2>2 DEF processInterface, AddDevice
    <3>2. d # NoDev
      BY NetAssumption DEF NetAssumption
    <3> QED
      BY <2>2, <3>1, <3>2 DEF TrackingInv, TrackingTypes, tracked
  <2> QED
    BY <2>1, <2>2
<1>2. ASSUME removeInterface(j)
      PROVE  /\ j \notin tracked'
             /\ i # j => /\ i \in tracked' <=> i \in tracked
                         /\ i \in ghosts' <=> i \in ghosts
                         /\ i \in stale' <=> i \in stale
  BY <1>2 DEF removeInterface, tracking, tracked, TrackingInv, TrackingTypes
<1>3. ASSUME handleInterfaceEvent(j)
      PROVE  /\ tracked' = tracked /\ ghosts' = ghosts
             /\ j \in tracked => j \notin stale'
             /\ i # j => (i \in stale' <=> i \in stale)
  BY <1>3 DEF handleInterfaceEvent, tracked
<1> QED
  BY <1>1, <1>2, <1>3

(* Queues that keep what they say of an interface.                          *)
RouteKept(i) ==
  /\ Holds(route, Arrival(i)) => Holds(route', Arrival(i))
  /\ Holds(route, Departure(i)) => Holds(route', Departure(i))
  /\ Holds(route, Info(i)) => Holds(route', Info(i))
  /\ Followed(route, Arrival(i), Departure(i)) => Followed(route', Arrival(i), Departure(i))
  /\ Followed(route, Departure(i), Arrival(i)) => Followed(route', Departure(i), Arrival(i))

InboxKept(i) ==
  /\ Holds(inbox, Attached(i)) => Holds(inbox', Attached(i))
  /\ Holds(inbox, Detached(i)) => Holds(inbox', Detached(i))
  /\ Followed(inbox, Attached(i), Detached(i)) => Followed(inbox', Attached(i), Detached(i))
  /\ Followed(inbox, Detached(i), Attached(i)) => Followed(inbox', Detached(i), Attached(i))

(* A step that is about other interfaces.                                   *)
DeviceKept(i) ==
  /\ i \in tracked' <=> i \in tracked
  /\ i \in ghosts' <=> i \in ghosts
  /\ i \in stale' => i \in stale

KernelKept(i) ==
  /\ i \in present' <=> i \in present
  /\ i \in boot' <=> i \in boot
  /\ i \in devdMissed => i \in devdMissed'

LEMMA WordFrame ==
  ASSUME NEW i, Word(i), RouteKept(i), InboxKept(i), DeviceKept(i), KernelKept(i), UNCHANGED <<scan, snapshot>>
  PROVE  Word(i)'
<1>1. RouteTells(i)' /\ DevdTells(i)' /\ BootListed(i)'
  BY DEF Word, RouteTells, DevdTells, BootListed, RouteKept, InboxKept, KernelKept
<1>2. LeavingIsHeard(i)' /\ ComingIsHeard(i)' /\ ChangeIsHeard(i)'
  BY DEF Word, LeavingIsHeard, ComingIsHeard, ChangeIsHeard, RouteKept, InboxKept, KernelKept, DeviceKept
<1> QED
  BY <1>1, <1>2 DEF Word

LEMMA SameQueues ==
  ASSUME NEW i
  PROVE  (UNCHANGED route => RouteKept(i)) /\ (UNCHANGED inbox => InboxKept(i))
BY DEF RouteKept, InboxKept

LEMMA ReadRoute ==
  ASSUME route \in Seq(RouteMsg), route # <<>>, route' = Tail(route), NEW i, Head(route).ifname # i
  PROVE  RouteKept(i)
<1>1. /\ Holds(route, Arrival(i)) => Holds(route', Arrival(i))
      /\ Holds(route, Departure(i)) => Holds(route', Departure(i))
      /\ Holds(route, Info(i)) => Holds(route', Info(i))
  BY TailHolds, MessagesDiffer
<1>2. Followed(route, Arrival(i), Departure(i)) => Followed(route', Arrival(i), Departure(i))
  BY TailFollowed
<1>3. Followed(route, Departure(i), Arrival(i)) => Followed(route', Departure(i), Arrival(i))
  BY TailFollowed
<1> QED
  BY <1>1, <1>2, <1>3 DEF RouteKept

LEMMA ReadInbox ==
  ASSUME inbox \in Seq(Notice), inbox # <<>>, inbox' = Tail(inbox), NEW i, Head(inbox).ifname # i
  PROVE  InboxKept(i)
<1>1. /\ Holds(inbox, Attached(i)) => Holds(inbox', Attached(i))
      /\ Holds(inbox, Detached(i)) => Holds(inbox', Detached(i))
  BY TailHolds, MessagesDiffer
<1>2. Followed(inbox, Attached(i), Detached(i)) => Followed(inbox', Attached(i), Detached(i))
  BY TailFollowed
<1>3. Followed(inbox, Detached(i), Attached(i)) => Followed(inbox', Detached(i), Attached(i))
  BY TailFollowed
<1> QED
  BY <1>1, <1>2, <1>3 DEF InboxKept

(* A message that says neither that the interface came nor that it went.    *)
LEMMA AppendRoute ==
  ASSUME route \in Seq(RouteMsg), NEW e \in RouteMsg, route' = Append(route, e),
         NEW i, e # Arrival(i), e # Departure(i)
  PROVE  RouteKept(i)
<1>1. /\ Holds(route, Arrival(i)) => Holds(route', Arrival(i))
      /\ Holds(route, Departure(i)) => Holds(route', Departure(i))
      /\ Holds(route, Info(i)) => Holds(route', Info(i))
  BY AppendHolds
<1>2. Followed(route, Arrival(i), Departure(i)) => Followed(route', Arrival(i), Departure(i))
  BY AppendFollowed, MessagesDiffer
<1>3. Followed(route, Departure(i), Arrival(i)) => Followed(route', Departure(i), Arrival(i))
  BY AppendFollowed, MessagesDiffer
<1> QED
  BY <1>1, <1>2, <1>3 DEF RouteKept

LEMMA AppendInbox ==
  ASSUME inbox \in Seq(Notice), NEW e \in Notice, inbox' = Append(inbox, e),
         NEW i, e # Attached(i), e # Detached(i)
  PROVE  InboxKept(i)
<1>1. /\ Holds(inbox, Attached(i)) => Holds(inbox', Attached(i))
      /\ Holds(inbox, Detached(i)) => Holds(inbox', Detached(i))
  BY AppendHolds
<1>2. Followed(inbox, Attached(i), Detached(i)) => Followed(inbox', Attached(i), Detached(i))
  BY AppendFollowed, MessagesDiffer
<1>3. Followed(inbox, Detached(i), Attached(i)) => Followed(inbox', Detached(i), Attached(i))
  BY AppendFollowed, MessagesDiffer
<1> QED
  BY <1>1, <1>2, <1>3 DEF InboxKept

(* A handler that says nothing of an interface keeps its device.            *)
LEMMA OthersKept ==
  ASSUME TrackingInv, NEW j \in Iface, NEW i \in Iface, i # j,
         processInterface(j) \/ removeInterface(j) \/ handleInterfaceEvent(j)
  PROVE  DeviceKept(i)
BY HandlerEffect DEF DeviceKept

LEMMA TrackingKept == ASSUME NEW i, UNCHANGED tracking PROVE DeviceKept(i)
BY DEF DeviceKept, tracking, tracked

(* The backend reads a message of the route socket.                         *)
LEMMA WordRoute ==
  ASSUME IInv, inbox \in Seq(Notice), NEW i \in Iface, Word(i), handleRouteMessage
  PROVE  Word(i)'
<1> DEFINE m == Head(route)
<1>1. /\ route \in Seq(RouteMsg) /\ route # <<>> /\ route' = Tail(route) /\ m \in RouteMsg
      /\ UNCHANGED <<inbox, present, scan, snapshot, boot, devdMissed>>
  BY HeadTailProperties DEF handleRouteMessage, IInv, SourceTypes, devdVars
<1>2. KernelKept(i) /\ InboxKept(i)
  BY <1>1, SameQueues DEF KernelKept
<1>3. m.ifname \in Iface /\ (m = Arrival(m.ifname) \/ m = Departure(m.ifname) \/ m = Info(m.ifname))
  BY <1>1 DEF RouteMsg, Arrival, Departure, Info
<1> HIDE DEF m
<1>4. /\ m.ifname \in Ignored => UNCHANGED tracking
      /\ m.ifname \notin Ignored =>
           \/ m.what = "ARRIVAL"   /\ processInterface(m.ifname)
           \/ m.what = "DEPARTURE" /\ removeInterface(m.ifname)
           \/ m.what = "IFINFO" /\ m.ifname \in present /\ handleInterfaceEvent(m.ifname)
           \/ m.what = "IFINFO" /\ m.ifname \notin present /\ UNCHANGED tracking
  BY DEF handleRouteMessage, m
<1>5. CASE m.ifname # i
  <2>1. RouteKept(i)
    BY <1>1, <1>5, ReadRoute DEF m
  <2>2. DeviceKept(i)
    BY <1>3, <1>4, <1>5, OthersKept, TrackingKept DEF IInv
  <2> QED
    BY <1>1, <1>2, <2>1, <2>2, WordFrame
<1>6. CASE m.ifname = i
  <2>1. /\ Followed(route, Arrival(i), Departure(i)) =>
             Followed(route', Arrival(i), Departure(i)) /\ (m = Arrival(i) => Holds(route', Departure(i)))
        /\ Followed(route, Departure(i), Arrival(i)) =>
             Followed(route', Departure(i), Arrival(i)) /\ (m = Departure(i) => Holds(route', Arrival(i)))
    <3>1. ASSUME NEW a, NEW b, Followed(route, a, b)
          PROVE  Followed(route', a, b) /\ (m = a => Holds(route', b))
      BY <1>1, <3>1, TailFollowed DEF m
    <3> QED
      BY <3>1
  <2>2. RouteTells(i)' /\ DevdTells(i)' /\ BootListed(i)'
    BY <1>1, <2>1 DEF Word, RouteTells, DevdTells, BootListed
  <2>3. \A n : Holds(route, n) => m = n \/ Holds(route', n)
    BY <1>1, TailHolds DEF m
  <2>4. CASE i \in Ignored
    <3>1. i \notin tracked' /\ i \notin Handled
      BY <1>4, <1>6, <2>4 DEF IInv, TrackingInv, ModelMirrorsDevices, Handled, tracking, tracked
    <3> QED
      BY <2>2, <3>1 DEF Word, LeavingIsHeard, ComingIsHeard, ChangeIsHeard
  <2>5. CASE i \notin Ignored /\ m = Arrival(i)
    <3>1. processInterface(i)
      BY <1>4, <1>6, <2>5, MessagesDiffer
    <3>2. /\ i \in Handled => i \in tracked'
          /\ i \in tracked' /\ i \in stale' => i \in tracked /\ i \in stale
          /\ i \in ghosts' <=> i \in ghosts
      BY <3>1, HandlerEffect DEF IInv, Handled
    <3>3. Holds(route, Departure(i)) => Holds(route', Departure(i))
      BY <2>3, <2>5, MessagesDiffer
    <3>4. Holds(route, Info(i)) => Holds(route', Info(i))
      BY <2>3, <2>5, MessagesDiffer
    <3>5. i \notin present => Holds(route', Departure(i))
      BY <2>1, <2>5 DEF Word, RouteTells
    <3>6. LeavingIsHeard(i)'
      BY <1>1, <3>5 DEF LeavingIsHeard
    <3>7. ComingIsHeard(i)'
      BY <3>2 DEF ComingIsHeard
    <3>8. ChangeIsHeard(i)'
      BY <1>1, <3>2, <3>3, <3>4 DEF Word, ChangeIsHeard
    <3> QED
      BY <2>2, <3>6, <3>7, <3>8 DEF Word
  <2>6. CASE i \notin Ignored /\ m = Departure(i)
    <3>1. removeInterface(i)
      BY <1>4, <1>6, <2>6, MessagesDiffer
    <3>2. i \notin tracked'
      BY <3>1, HandlerEffect DEF IInv
    <3>3. i \in present => Holds(route', Arrival(i))
      BY <2>1, <2>6 DEF Word, RouteTells
    <3> QED
      BY <1>1, <2>2, <3>2, <3>3 DEF Word, LeavingIsHeard, ComingIsHeard, ChangeIsHeard
  <2>7. CASE i \notin Ignored /\ m = Info(i)
    <3>1. /\ i \in present => handleInterfaceEvent(i)
          /\ i \notin present => UNCHANGED tracking
      BY <1>4, <1>6, <2>7, MessagesDiffer
    <3>2. /\ i \in tracked' <=> i \in tracked
          /\ i \in ghosts' <=> i \in ghosts
          /\ i \in present /\ i \in tracked => i \notin stale'
          /\ i \notin present => (i \in stale' <=> i \in stale)
      BY <3>1, HandlerEffect DEF IInv, tracking, tracked
    <3>3. /\ Holds(route, Departure(i)) => Holds(route', Departure(i))
          /\ Holds(route, Arrival(i)) => Holds(route', Arrival(i))
      BY <2>3, <2>7, MessagesDiffer
    <3>4. LeavingIsHeard(i)' /\ ComingIsHeard(i)'
      BY <1>1, <3>2, <3>3 DEF Word, LeavingIsHeard, ComingIsHeard
    <3>5. ChangeIsHeard(i)'
      BY <1>1, <3>2, <3>4 DEF LeavingIsHeard, ChangeIsHeard
    <3> QED
      BY <2>2, <3>4, <3>5 DEF Word
  <2> QED
    BY <1>3, <1>6, <2>4, <2>5, <2>6, <2>7
<1> QED
  BY <1>5, <1>6

(* The backend handles a notice of devd.                                    *)
LEMMA WordDevd ==
  ASSUME IInv, inbox \in Seq(Notice), NEW i \in Iface, Word(i), DevdEvent
  PROVE  Word(i)'
<1>1. PICK e \in Notice : D!ReceiveEvent(e) /\ handleDevdEvent(e)
  BY DEF DevdEvent
<1>2. /\ inbox # <<>> /\ e = Head(inbox) /\ inbox' = Tail(inbox)
      /\ UNCHANGED <<route, present, scan, snapshot, boot, devdMissed>>
  BY <1>1 DEF DevdEvent, D!ReceiveEvent
<1>3. KernelKept(i) /\ RouteKept(i)
  BY <1>2, SameQueues DEF KernelKept
<1>4. \/ e.type = "OTHER"
      \/ /\ e.ifname \in Iface
         /\ e = Attached(e.ifname) \/ e = Detached(e.ifname) \/ e = Link(e.ifname)
  <2>1. CASE e = OtherNotice
    BY <2>1 DEF OtherNotice
  <2>2. CASE e \in [type : {"ATTACH", "DETACH", "LINK"}, ifname : Iface]
    BY <2>2 DEF Attached, Detached, Link
  <2> QED
    BY <2>1, <2>2 DEF Notice
<1>5. e = OtherNotice => e.ifname \notin Iface
  BY NetAssumption DEF NetAssumption, OtherNotice
<1>6. e.type = "OTHER" => e = OtherNotice
  BY DEF Notice
<1>7. CASE e.ifname # i
  <2>1. InboxKept(i)
    BY <1>2, <1>7, ReadInbox
  <2>2. DeviceKept(i)
    BY <1>1, <1>4, <1>7, OthersKept, TrackingKept DEF IInv, handleDevdEvent
  <2> QED
    BY <1>2, <1>3, <2>1, <2>2, WordFrame
<1>8. CASE e.ifname = i
  <2>1. e = Attached(i) \/ e = Detached(i) \/ e = Link(i)
    BY <1>4, <1>5, <1>6, <1>8
  <2>2. /\ Followed(inbox, Attached(i), Detached(i)) =>
             Followed(inbox', Attached(i), Detached(i)) /\ (e = Attached(i) => Holds(inbox', Detached(i)))
        /\ Followed(inbox, Detached(i), Attached(i)) =>
             Followed(inbox', Detached(i), Attached(i)) /\ (e = Detached(i) => Holds(inbox', Attached(i)))
    <3>1. ASSUME NEW a, NEW b, Followed(inbox, a, b)
          PROVE  Followed(inbox', a, b) /\ (e = a => Holds(inbox', b))
      BY <1>2, <3>1, TailFollowed
    <3> QED
      BY <3>1
  <2>3. RouteTells(i)' /\ DevdTells(i)' /\ BootListed(i)'
    BY <1>2, <2>2 DEF Word, RouteTells, DevdTells, BootListed
  <2>4. \A n : Holds(inbox, n) => e = n \/ Holds(inbox', n)
    BY <1>2, TailHolds
  <2>5. CASE i \in Ignored
    <3>1. UNCHANGED tracking
      BY <1>1, <1>8, <2>5 DEF handleDevdEvent
    <3>2. i \notin tracked' /\ i \notin Handled
      BY <2>5, <3>1 DEF IInv, TrackingInv, ModelMirrorsDevices, Handled, tracking, tracked
    <3> QED
      BY <2>3, <3>2 DEF Word, LeavingIsHeard, ComingIsHeard, ChangeIsHeard
  <2>6. CASE i \notin Ignored /\ e = Attached(i)
    <3>1. processInterface(i)
      BY <1>1, <1>8, <2>6, MessagesDiffer DEF handleDevdEvent
    <3>2. /\ i \in Handled => i \in tracked'
          /\ i \in tracked' /\ i \in stale' => i \in tracked /\ i \in stale
          /\ i \in ghosts' <=> i \in ghosts
      BY <3>1, HandlerEffect DEF IInv, Handled
    <3>3. Holds(inbox, Detached(i)) => Holds(inbox', Detached(i))
      BY <2>4, <2>6, MessagesDiffer
    <3>4. i \notin present \cup devdMissed => Holds(inbox', Detached(i))
      BY <2>2, <2>6 DEF Word, DevdTells
    <3>5. LeavingIsHeard(i)'
      BY <1>2, <3>4 DEF LeavingIsHeard
    <3>6. ComingIsHeard(i)'
      BY <3>2 DEF ComingIsHeard
    <3>7. ChangeIsHeard(i)'
      BY <1>2, <3>2, <3>3 DEF Word, ChangeIsHeard
    <3> QED
      BY <2>3, <3>5, <3>6, <3>7 DEF Word
  <2>7. CASE i \notin Ignored /\ e = Detached(i)
    <3>1. removeInterface(i)
      BY <1>1, <1>8, <2>7, MessagesDiffer DEF handleDevdEvent
    <3>2. i \notin tracked'
      BY <3>1, HandlerEffect DEF IInv
    <3>3. i \in present \ devdMissed => Holds(inbox', Attached(i))
      BY <2>2, <2>7 DEF Word, DevdTells
    <3> QED
      BY <1>2, <2>3, <3>2, <3>3 DEF Word, LeavingIsHeard, ComingIsHeard, ChangeIsHeard
  <2>8. CASE i \notin Ignored /\ e = Link(i)
    <3>1. handleInterfaceEvent(i)
      BY <1>1, <1>8, <2>8, MessagesDiffer DEF handleDevdEvent
    <3>2. /\ i \in tracked' <=> i \in tracked
          /\ i \in ghosts' <=> i \in ghosts
          /\ i \in tracked => i \notin stale'
      BY <3>1, HandlerEffect DEF IInv
    <3>3. /\ Holds(inbox, Detached(i)) => Holds(inbox', Detached(i))
          /\ Holds(inbox, Attached(i)) => Holds(inbox', Attached(i))
      BY <2>4, <2>8, MessagesDiffer
    <3> QED
      BY <1>2, <2>3, <3>2, <3>3 DEF Word, LeavingIsHeard, ComingIsHeard, ChangeIsHeard
  <2> QED
    BY <2>1, <2>5, <2>6, <2>7, <2>8
<1> QED
  BY <1>7, <1>8

(* The listing that is handled brings every interface older than the program. *)
LEMMA WordListing ==
  ASSUME IInv, NEW i \in Iface, Word(i), ListingFinished
  PROVE  Word(i)'
<1>1. PICK pick \in [Untracked -> {d \in Dev : object[d] = "free"}] :
        mDevices' = [j \in Iface |-> IF j \in Untracked THEN pick[j] ELSE mDevices[j]]
  BY DEF ListingFinished
<1>2. /\ scan = "listed" /\ scan' = "done"
      /\ stale' = stale \ Untracked /\ ghosts' = ghosts \cup (Untracked \ present)
      /\ UNCHANGED <<route, inbox, present, snapshot, boot, devdMissed>>
  BY DEF ListingFinished, devdVars
<1>3. i \in tracked' <=> i \in tracked \/ i \in Untracked
  BY <1>1, NetAssumption DEF NetAssumption, tracked, Untracked
<1>4. RouteTells(i)' /\ DevdTells(i)' /\ BootListed(i)'
  BY <1>2 DEF Word, RouteTells, DevdTells, BootListed
<1>5. LeavingIsHeard(i)' /\ ChangeIsHeard(i)'
  BY <1>2, <1>3 DEF Word, LeavingIsHeard, ChangeIsHeard
<1>6. ComingIsHeard(i)'
  <2>1. i \in boot /\ i \in Handled => i \in tracked'
    BY <1>2, <1>3 DEF Word, BootListed, Untracked
  <2> QED
    BY <1>2, <1>3, <2>1 DEF Word, ComingIsHeard
<1> QED
  BY <1>4, <1>5, <1>6 DEF Word

(* A change of the kernel's is queued for the route socket, and for devd's  *)
(* client unless the notice is lost.                                        *)
LEMMA Announced ==
  ASSUME LinkOpen, route \in Seq(RouteMsg), inbox \in Seq(Notice), NEW j \in Iface,
         NEW what \in {"ARRIVAL", "DEPARTURE", "IFINFO"}, NEW type \in {"ATTACH", "DETACH", "LINK"},
         Announce(what, type, j)
  PROVE  /\ route' = Append(route, [what |-> what, ifname |-> j])
         /\ [what |-> what, ifname |-> j] \in RouteMsg /\ [type |-> type, ifname |-> j] \in Notice
         /\ \/ /\ inbox' = Append(inbox, [type |-> type, ifname |-> j])
               /\ devdMissed' = IF type = "DETACH" THEN devdMissed \ {j} ELSE devdMissed
            \/ inbox' = inbox /\ Queued(j) /\ devdMissed' = devdMissed \cup {j}
            \/ /\ inbox' = inbox /\ ~Queued(j)
               /\ devdMissed' = IF type = "DETACH" THEN devdMissed \ {j} ELSE devdMissed
<1>1. [what |-> what, ifname |-> j] \in RouteMsg /\ [type |-> type, ifname |-> j] \in Notice
  BY DEF RouteMsg, Notice
<1>2. \/ inbox' = Append(inbox, [type |-> type, ifname |-> j]) /\ D!Listening /\ Len(inbox) < MaxInbox
      \/ inbox' = inbox /\ Lost
  <2>1. CASE D!Publish([type |-> type, ifname |-> j])
    <3>1. CASE ~D!Listening
      BY <2>1, <3>1 DEF D!Publish, Lost
    <3>2. CASE D!Listening /\ Len(inbox) = MaxInbox /\ inbox' = inbox
      BY <3>2, NetAssumption DEF Lost, NetAssumption
    <3> QED
      BY <2>1, <3>1, <3>2 DEF D!Publish
  <2>2. CASE ~devdUp /\ UNCHANGED devdVars
    BY <2>2 DEF LinkOpen, Lost, D!Listening, devdVars
  <2> QED
    BY <2>1, <2>2 DEF Announce
<1> QED
  BY <1>1, <1>2 DEF Announce, Lost

LEMMA NothingQueued ==
  ASSUME NEW j, ~Queued(j)
  PROVE  /\ ~Holds(inbox, Attached(j)) /\ ~Holds(inbox, Detached(j))
         /\ Followed(inbox, Attached(j), Detached(j)) /\ Followed(inbox, Detached(j), Attached(j))
BY MessagesDiffer DEF Queued, Holds, Followed

(* An announcement about another interface.                                 *)
LEMMA AnnouncedElsewhere ==
  ASSUME LinkOpen, route \in Seq(RouteMsg), inbox \in Seq(Notice), NEW j \in Iface, NEW i \in Iface, i # j,
         NEW what \in {"ARRIVAL", "DEPARTURE", "IFINFO"}, NEW type \in {"ATTACH", "DETACH", "LINK"},
         Announce(what, type, j)
  PROVE  RouteKept(i) /\ InboxKept(i) /\ (i \in devdMissed => i \in devdMissed')
<1> DEFINE m == [what |-> what, ifname |-> j]
           n == [type |-> type, ifname |-> j]
<1>1. /\ route' = Append(route, m) /\ m \in RouteMsg /\ n \in Notice
      /\ inbox' = Append(inbox, n) \/ inbox' = inbox
      /\ i \in devdMissed => i \in devdMissed'
  BY Announced
<1>2. m # Arrival(i) /\ m # Departure(i) /\ n # Attached(i) /\ n # Detached(i)
  BY DEF Arrival, Departure, Attached, Detached
<1> HIDE DEF m, n
<1>3. RouteKept(i)
  BY <1>1, <1>2, AppendRoute
<1>4. InboxKept(i)
  BY <1>1, <1>2, AppendInbox, SameQueues
<1> QED
  BY <1>1, <1>3, <1>4

LEMMA WordAttach ==
  ASSUME IInv, LinkOpen, inbox \in Seq(Notice), NEW i \in Iface, Word(i), NEW j \in Iface, Attach(j)
  PROVE  Word(i)'
<1>1. /\ Announce("ARRIVAL", "ATTACH", j) /\ j \notin present /\ present' = present \cup {j}
      /\ stale' = stale \cup {j} /\ tracked' = tracked
      /\ UNCHANGED <<ghosts, scan, snapshot, boot>>
  BY DEF Attach, tracked
<1>2. route \in Seq(RouteMsg)
  BY DEF IInv, SourceTypes
<1>3. CASE i # j
  <2>1. RouteKept(i) /\ InboxKept(i) /\ (i \in devdMissed => i \in devdMissed')
    BY <1>1, <1>2, <1>3, AnnouncedElsewhere
  <2> QED
    BY <1>1, <1>3, <2>1, WordFrame DEF DeviceKept, KernelKept
<1>4. CASE i = j
  <2>1. /\ route' = Append(route, Arrival(i)) /\ Arrival(i) \in RouteMsg /\ Attached(i) \in Notice
        /\ \/ inbox' = Append(inbox, Attached(i)) /\ devdMissed' = devdMissed
           \/ inbox' = inbox /\ devdMissed' = devdMissed \cup {i}
           \/ inbox' = inbox /\ ~Queued(i) /\ devdMissed' = devdMissed
    BY <1>1, <1>2, <1>4, Announced DEF Arrival, Attached
  <2>2. RouteTells(i)'
    BY <1>1, <1>2, <1>4, <2>1, AppendFollowed, MessagesDiffer DEF RouteTells
  <2>3. DevdTells(i)'
    <3>1. CASE inbox' = Append(inbox, Attached(i))
      BY <1>1, <1>4, <2>1, <3>1, AppendFollowed, MessagesDiffer DEF DevdTells
    <3>2. CASE i \in devdMissed'
      BY <3>2 DEF DevdTells
    <3>3. CASE inbox' = inbox /\ ~Queued(i)
      BY <1>1, <1>4, <3>3, NothingQueued DEF DevdTells
    <3> QED
      BY <2>1, <3>1, <3>2, <3>3
  <2>4. BootListed(i)'
    BY <1>1, <1>4 DEF Word, BootListed
  <2>5. Holds(route', Arrival(i)) /\ (Holds(route, Departure(i)) => Holds(route', Departure(i)))
    BY <1>2, <2>1, AppendHolds
  <2>6. Holds(inbox, Detached(i)) => Holds(inbox', Detached(i))
    BY <2>1, AppendHolds
  <2>7. LeavingIsHeard(i)' /\ ComingIsHeard(i)'
    BY <1>1, <1>4, <2>5 DEF LeavingIsHeard, ComingIsHeard
  <2>8. ChangeIsHeard(i)'
    BY <1>1, <1>4, <2>1, <2>5, <2>6 DEF Word, LeavingIsHeard, ChangeIsHeard
  <2> QED
    BY <2>2, <2>3, <2>4, <2>7, <2>8 DEF Word
<1> QED
  BY <1>3, <1>4

LEMMA WordDetach ==
  ASSUME IInv, LinkOpen, inbox \in Seq(Notice), NEW i \in Iface, Word(i), NEW j \in Iface, Detach(j)
  PROVE  Word(i)'
<1>1. /\ Announce("DEPARTURE", "DETACH", j) /\ present' = present \ {j} /\ boot' = boot \ {j}
      /\ tracked' = tracked /\ UNCHANGED <<stale, ghosts, scan, snapshot>>
  BY DEF Detach, tracked
<1>2. route \in Seq(RouteMsg)
  BY DEF IInv, SourceTypes
<1>3. CASE i # j
  <2>1. RouteKept(i) /\ InboxKept(i) /\ (i \in devdMissed => i \in devdMissed')
    BY <1>1, <1>2, <1>3, AnnouncedElsewhere
  <2> QED
    BY <1>1, <1>3, <2>1, WordFrame DEF DeviceKept, KernelKept
<1>4. CASE i = j
  <2>1. /\ route' = Append(route, Departure(i)) /\ Departure(i) \in RouteMsg /\ Detached(i) \in Notice
        /\ \/ inbox' = Append(inbox, Detached(i))
           \/ i \in devdMissed'
           \/ inbox' = inbox /\ ~Queued(i)
    BY <1>1, <1>2, <1>4, Announced DEF Departure, Detached
  <2>2. RouteTells(i)'
    BY <1>1, <1>2, <1>4, <2>1, AppendFollowed, MessagesDiffer DEF RouteTells
  <2>3. DevdTells(i)'
    <3>1. CASE inbox' = Append(inbox, Detached(i))
      BY <1>1, <1>4, <2>1, <3>1, AppendFollowed, MessagesDiffer DEF DevdTells
    <3>2. CASE i \in devdMissed'
      BY <3>2 DEF DevdTells
    <3>3. CASE inbox' = inbox /\ ~Queued(i)
      BY <1>1, <1>4, <3>3, NothingQueued DEF DevdTells
    <3> QED
      BY <2>1, <3>1, <3>2, <3>3
  <2>4. Holds(route', Departure(i))
    BY <1>2, <2>1, AppendHolds
  <2> QED
    BY <1>1, <1>4, <2>2, <2>3, <2>4 DEF Word, BootListed, LeavingIsHeard, ComingIsHeard, ChangeIsHeard
<1> QED
  BY <1>3, <1>4

(* The interface stays, and its device is told or will be.                  *)
LEMMA WordChange ==
  ASSUME NEW i, Word(i), RouteKept(i), InboxKept(i), KernelKept(i), UNCHANGED <<scan, snapshot>>,
         i \in tracked' <=> i \in tracked, i \in ghosts' <=> i \in ghosts, Holds(route', Info(i))
  PROVE  Word(i)'
<1>1. RouteTells(i)' /\ DevdTells(i)' /\ BootListed(i)'
  BY DEF Word, RouteTells, DevdTells, BootListed, RouteKept, InboxKept, KernelKept
<1>2. LeavingIsHeard(i)' /\ ComingIsHeard(i)' /\ ChangeIsHeard(i)'
  BY DEF Word, LeavingIsHeard, ComingIsHeard, ChangeIsHeard, RouteKept, InboxKept, KernelKept
<1> QED
  BY <1>1, <1>2 DEF Word

LEMMA WordLink ==
  ASSUME IInv, LinkOpen, inbox \in Seq(Notice), NEW i \in Iface, Word(i), NEW j \in Iface, LinkChange(j)
  PROVE  Word(i)'
<1>1. /\ Announce("IFINFO", "LINK", j) /\ stale' = stale \cup {j} /\ tracked' = tracked
      /\ UNCHANGED <<present, ghosts, scan, snapshot, boot>>
  BY DEF LinkChange, tracked
<1>2. route \in Seq(RouteMsg)
  BY DEF IInv, SourceTypes
<1>3. CASE i # j
  <2>1. RouteKept(i) /\ InboxKept(i) /\ (i \in devdMissed => i \in devdMissed')
    BY <1>1, <1>2, <1>3, AnnouncedElsewhere
  <2> QED
    BY <1>1, <1>3, <2>1, WordFrame DEF DeviceKept, KernelKept
<1>4. CASE i = j
  <2>1. /\ route' = Append(route, Info(i)) /\ Info(i) \in RouteMsg /\ Link(i) \in Notice
        /\ inbox' = Append(inbox, Link(i)) \/ inbox' = inbox
        /\ i \in devdMissed => i \in devdMissed'
    BY <1>1, <1>2, <1>4, Announced DEF Info, Link
  <2>2. RouteKept(i) /\ Holds(route', Info(i))
    BY <1>2, <2>1, AppendRoute, AppendHolds, MessagesDiffer
  <2>3. InboxKept(i)
    BY <2>1, AppendInbox, SameQueues, MessagesDiffer
  <2> QED
    BY <1>1, <2>1, <2>2, <2>3, WordChange DEF KernelKept
<1> QED
  BY <1>3, <1>4

(* Setting a flag is a change of the interface that the kernel announces.   *)
LEMMA WordFlag ==
  ASSUME IInv, NEW i \in Iface, Word(i), NEW j \in Iface, FlagWriter(j)
  PROVE  Word(i)'
<1>1. /\ tracked' = tracked /\ UNCHANGED <<inbox, present, ghosts, scan, snapshot, boot, devdMissed>>
      /\ \/ UNCHANGED <<route, stale>>
         \/ route' = Append(route, Info(j)) /\ stale' = stale \cup {j}
  BY FlagFrame DEF tracked, devdVars, Info
<1>2. route \in Seq(RouteMsg) /\ Info(j) \in RouteMsg
  BY DEF IInv, SourceTypes, RouteMsg, Info
<1>3. InboxKept(i) /\ KernelKept(i)
  BY <1>1, SameQueues DEF KernelKept
<1>4. RouteKept(i)
  BY <1>1, <1>2, SameQueues, AppendRoute, MessagesDiffer
<1>5. CASE i \in stale' => i \in stale
  BY <1>1, <1>3, <1>4, <1>5, WordFrame DEF DeviceKept
<1>6. CASE i = j /\ route' = Append(route, Info(j))
  <2>1. Holds(route', Info(i))
    BY <1>2, <1>6, AppendHolds
  <2> QED
    BY <1>1, <1>3, <1>4, <2>1, WordChange
<1> QED
  BY <1>1, <1>5, <1>6

(* The connection to devd is opened, lost or read to its end.               *)
LEMMA WordConnection ==
  ASSUME IInv, LinkOpen, inbox \in Seq(Notice), NEW i \in Iface, Word(i), DevdConnection
  PROVE  Word(i)'
<1>1. /\ UNCHANGED tracking /\ tracked' = tracked /\ UNCHANGED <<ghosts, stale>>
      /\ UNCHANGED <<route, present, scan, snapshot, boot>> /\ (i \in devdMissed => i \in devdMissed')
  BY DEF DevdConnection, tracking, tracked
<1>2. RouteKept(i) /\ KernelKept(i) /\ DeviceKept(i)
  BY <1>1, SameQueues DEF KernelKept, DeviceKept
<1>3. CASE inbox' = inbox
  BY <1>1, <1>2, <1>3, SameQueues, WordFrame
<1>4. CASE inbox' = Append(inbox, OtherNotice)
  <2>1. OtherNotice \in Notice /\ OtherNotice # Attached(i) /\ OtherNotice # Detached(i)
    BY DEF Notice, OtherNotice, Attached, Detached
  <2>2. InboxKept(i)
    BY <1>4, <2>1, AppendInbox
  <2> QED
    BY <1>1, <1>2, <2>2, WordFrame
<1>5. CASE inbox' = <<>> /\ (Queued(i) => i \in devdMissed')
  <2>1. CASE i \in devdMissed'
    <3>1. DevdTells(i)' /\ LeavingIsHeard(i)' /\ ComingIsHeard(i)' /\ ChangeIsHeard(i)'
      BY <2>1 DEF DevdTells, LeavingIsHeard, ComingIsHeard, ChangeIsHeard
    <3>2. RouteTells(i)' /\ BootListed(i)'
      BY <1>1 DEF Word, RouteTells, BootListed
    <3> QED
      BY <3>1, <3>2 DEF Word
  <2>2. CASE ~Queued(i)
    <3>1. InboxKept(i)
      BY <1>5, <2>2, NothingQueued, EmptyQueue DEF InboxKept
    <3> QED
      BY <1>1, <1>2, <3>1, WordFrame
  <2> QED
    BY <1>5, <2>1, <2>2
<1>6. CASE D!ReceiveError /\ devdMissed' = devdMissed \cup {j \in Iface : Queued(j)}
  BY <1>5, <1>6 DEF D!ReceiveError, D!onDisconnected, D!ReleaseConnection
<1>7. CASE D!DevdStarts \/ D!DevdStops \/ D!Publish(OtherNotice)
  BY <1>3, <1>4, <1>7 DEF D!DevdStarts, D!DevdStops, D!Publish
<1>8. CASE D!attemptReconnect \/ D!ReceiveEof
  <2>1. inbox' = inbox
    BY <1>8 DEF D!attemptReconnect, D!connectToDevd, D!SocketFails, D!ConnectFails, D!ConnectSucceeds,
                D!ReceiveEof, D!onDisconnected, D!ReleaseConnection, LinkOpen
  <2> QED
    BY <1>3, <2>1
<1> QED
  BY <1>6, <1>7, <1>8 DEF DevdConnection

LEMMA StepLink == LinkOpen /\ [Next]_vars => LinkOpen'
<1> SUFFICES ASSUME LinkOpen, [Next]_vars PROVE LinkOpen'
  OBVIOUS
<1>1. D!Next \/ UNCHANGED D!vars
  BY StepDevd
<1>2. CASE UNCHANGED D!vars
  BY <1>2 DEF D!vars, LinkOpen
<1>3. CASE D!Client
  BY <1>3 DEF D!Client, D!attemptReconnect, D!connectToDevd, D!SocketFails, D!ConnectFails, D!ConnectSucceeds,
              D!ReceiveEof, D!ReceiveError, D!ReceiveEvent, D!onDisconnected, D!ReleaseConnection, LinkOpen
<1>4. CASE D!Daemon
  BY <1>4 DEF D!Daemon, D!DevdStarts, D!DevdStops, D!Publish, D!Listening, D!client, LinkOpen
<1> QED
  BY <1>1, <1>2, <1>3, <1>4 DEF D!Next

LEMMA StepWord == IInv /\ WordInv /\ [Next]_vars => WordInv'
<1> SUFFICES ASSUME IInv, WordInv, [Next]_vars, NEW i \in Iface PROVE Word(i)'
  BY StepLink DEF WordInv
<1>1. Word(i) /\ LinkOpen /\ inbox \in Seq(Notice)
  BY SameClient DEF IInv, WordInv, D!TypeOK
<1>2. CASE handleRouteMessage
  BY <1>1, <1>2, WordRoute
<1>3. CASE DevdEvent
  BY <1>1, <1>3, WordDevd
<1>4. CASE ListingFinished
  BY <1>1, <1>4, WordListing
<1>5. ASSUME NEW j \in Iface, Attach(j) \/ Detach(j) \/ LinkChange(j) PROVE Word(i)'
  BY <1>1, <1>5, WordAttach, WordDetach, WordLink
<1>6. ASSUME NEW j \in Iface, FlagWriter(j) PROVE Word(i)'
  BY <1>1, <1>6, WordFlag
<1>7. CASE DevdConnection
  BY <1>1, <1>7, WordConnection
<1>8. ASSUME UNCHANGED <<route, inbox, present, boot, devdMissed, mDevices, ghosts, stale>>,
             UNCHANGED <<scan, snapshot>> \/ scan' = "running" \/ scan' = "failed" \/ (scan' = "listed" /\ snapshot' = present),
             scan # "done" \/ UNCHANGED scan
      PROVE  Word(i)'
  <2>1. tracked' = tracked
    BY <1>8 DEF tracked
  <2>2. RouteTells(i)' /\ DevdTells(i)' /\ LeavingIsHeard(i)' /\ ChangeIsHeard(i)'
    BY <1>1, <1>8, <2>1 DEF Word, RouteTells, DevdTells, LeavingIsHeard, ChangeIsHeard
  <2>3. BootListed(i)' /\ ComingIsHeard(i)'
    BY <1>1, <1>8, <2>1 DEF Word, BootListed, ComingIsHeard
  <2> QED
    BY <2>2, <2>3 DEF Word
<1>9. CASE scanExistingDevices \/ IfconfigLists
  BY <1>8, <1>9 DEF scanExistingDevices, IfconfigLists, devdVars, tracking
<1>10. ASSUME NEW d \in Dev, DeleteDeferred(d) PROVE Word(i)'
  BY <1>8, <1>10 DEF DeleteDeferred, devdVars
<1>11. ASSUME NEW enabled \in BOOLEAN, setWifiEnabled(enabled) PROVE Word(i)'
  BY <1>8, <1>11 DEF setWifiEnabled, devdVars
<1>12. CASE UNCHANGED vars
  BY <1>8, <1>12 DEF vars, devdVars
<1> QED
  BY <1>2, <1>3, <1>4, <1>5, <1>6, <1>7, <1>9, <1>10, <1>11, <1>12 DEF Next, Backend, Kernel, FlagWriter

LEMMA InitWord == Init => WordInv
<1> SUFFICES ASSUME Init PROVE WordInv
  OBVIOUS
<1>1. LinkOpen
  BY DEF Init, D!Init, LinkOpen
<1>2. route = <<>> /\ inbox = <<>> /\ tracked = {} /\ stale = {} /\ boot = present /\ scan = "queued"
  BY DEF Init, D!Init, tracked
<1>3. ASSUME NEW i \in Iface PROVE Word(i)
  BY <1>2, EmptyQueue DEF Word, RouteTells, DevdTells, BootListed, LeavingIsHeard, ComingIsHeard, ChangeIsHeard
<1> QED
  BY <1>1, <1>3 DEF WordInv

\* For any interfaces and any order in which route messages, devd notices and
\* the startup listing are handled: when nothing about an interface is queued
\* any more, the backend and the kernel agree about it, unless the listing was
\* older than a departure, or failed, or devd failed to deliver a notice.
THEOREM BackendConverges == Spec => []Converged
<1>1. IInv /\ WordInv => Converged
  <2> SUFFICES ASSUME IInv, WordInv, NEW i \in Handled, Settled(i), i \notin devdMissed
               PROVE  /\ i \in tracked => i \in present \cup ghosts
                      /\ i \in present => i \in tracked \/ (i \in boot /\ scan # "done")
    BY DEF Converged
  <2>1. present \subseteq Iface /\ tracked \subseteq Iface
    BY DEF IInv, SourceTypes, tracked
  <2>2. CASE i \in Iface
    <3>1. Word(i)
      BY <2>2 DEF WordInv
    <3>2. ~Holds(route, Arrival(i)) /\ ~Holds(route, Departure(i))
      BY MessagesDiffer DEF Settled, Holds
    <3>3. ~Holds(inbox, Attached(i)) /\ ~Holds(inbox, Detached(i))
      BY NothingQueued DEF Settled
    <3> QED
      BY <3>1, <3>2, <3>3 DEF Word, LeavingIsHeard, ComingIsHeard
  <2> QED
    BY <2>1, <2>2
<1> QED
  BY <1>1, InitIInv, StepIInv, InitWord, StepWord, PTL DEF Spec

\* However the queues are read, a link change of a tracked interface leads to a
\* newer sample of its device, or to another device: the message that makes it
\* so is queued until then.
THEOREM LinkChangesAreHeard == Spec => []NoLostLinkChange
<1>1. IInv /\ WordInv => NoLostLinkChange
  <2> SUFFICES ASSUME IInv, WordInv, NEW i \in tracked \cap stale, i \notin ghosts \cup devdMissed
               PROVE  \/ \E k \in DOMAIN route : route[k].ifname = i /\ route[k].what \in {"IFINFO", "DEPARTURE"}
                      \/ \E k \in DOMAIN inbox : inbox[k].ifname = i /\ inbox[k].type = "DETACH"
    BY DEF NoLostLinkChange
  <2>1. Word(i)
    BY DEF WordInv, tracked
  <2>2. Holds(route, Info(i)) \/ Holds(route, Departure(i)) \/ Holds(inbox, Detached(i))
    BY <2>1 DEF Word, ChangeIsHeard
  <2> QED
    BY <2>2, MessagesDiffer DEF Holds
<1> QED
  BY <1>1, InitIInv, StepIInv, InitWord, StepWord, PTL DEF Spec

-----------------------------------------------------------------------------
(* The link inside the backend.                                             *)
LEMMA InitDevdLink == Init => D!Link!Init
<1>1. D!Init => DP!Init
  BY DEF D!Init, DP!Init
<1>2. DP!Link!Init => D!Link!Init
  BY DEF DP!Link!Init, D!Link!Init, DP!Link!Phase, D!Link!Phase
<1>3. DP!DevdAssumption
  BY NetAssumption DEF NetAssumption, DP!DevdAssumption
<1>4. DP!Init => DP!Link!Init
  BY <1>3, DP!InitLink
<1> QED
  BY <1>1, <1>2, <1>4 DEF Init

LEMMA StepDevdLink == DP!IInv /\ [D!Next]_(D!vars) => [D!Link!Next]_(D!Link!vars)
<1>1. [D!Next]_(D!vars) => [DP!Next]_(DP!vars)
  BY SameNext DEF D!vars, DP!vars
<1>2. [DP!Link!Next]_(DP!Link!vars) => [D!Link!Next]_(D!Link!vars)
  BY DEF DP!Link!Next, D!Link!Next, DP!Link!vars, D!Link!vars, DP!Link!Establish, D!Link!Establish,
         DP!Link!Retriable, D!Link!Retriable, DP!Link!Lose, D!Link!Lose, DP!Link!DaemonChanges, D!Link!DaemonChanges
<1>3. DP!DevdAssumption
  BY NetAssumption DEF NetAssumption, DP!DevdAssumption
<1>4. DP!IInv /\ [DP!Next]_(DP!vars) => [DP!Link!Next]_(DP!Link!vars)
  BY <1>3, DP!StepLink
<1> QED
  BY <1>1, <1>2, <1>4

\* Inside the backend, too, the connection to devd is a link that is retried
\* once lost, whatever the read loop of the route socket holds up.
THEOREM LinkInsideBackend == Spec => D!Link!Spec
<1>1. Init => D!Init
  BY DEF Init
<1> QED
  BY <1>1, StepDevd, SameClient, InitDevdLink, StepDevdLink, PTL DEF Spec, D!Link!Spec
=============================================================================
