----------------------------- MODULE NetBackend -----------------------------
(***************************************************************************)
(* Tracking of network interfaces (plugin/src/network: FreeBSDBackend and   *)
(* the Networking singleton).  The backend learns of interfaces from three  *)
(* sources that race with each other: messages of the route socket, devd    *)
(* notifications relayed by Devd, and one `ifconfig -l` at startup.  It     *)
(* keeps one device object per interface, shown by the list model of        *)
(* Networking, and switches the interfaces on and off with setWifiEnabled.  *)
(***************************************************************************)
EXTENDS Naturals, Sequences, FiniteSets

CONSTANTS
  Iface,             \* interface names
  Wireless, Wired,   \* interfaces isWirelessInterface / isWiredInterface accept
  Ignored,           \* interfaces isIgnoredInterface accepts
  NoIface,           \* no interface: a notice of another devd subsystem
  Dev, NoDev,        \* device objects (addresses are reused after deletion)
  Fd, NoFd,          \* descriptors, see Devd
  MaxInbox,          \* bound: datagrams in the devd socket, see Devd
  MaxRoute,          \* bound: messages in the route socket
  MaxCmds            \* bound: ifconfig processes per interface and command

Handled == (Wireless \cup Wired) \ Ignored

ASSUME NetAssumption ==
  /\ NoIface \notin Iface /\ NoDev \notin Dev
  /\ NoFd \notin Fd /\ Fd # {}
  /\ MaxInbox \in Nat /\ MaxRoute \in Nat /\ MaxCmds \in Nat

Cmd == {"up", "down"}
RouteMsg == [what : {"ARRIVAL", "DEPARTURE", "IFINFO"}, ifname : Iface]
OtherNotice == [type |-> "OTHER", ifname |-> NoIface]
Notice == [type : {"ATTACH", "DETACH", "LINK"}, ifname : Iface] \cup {OtherNotice}

VARIABLES
  mFd, mNotifier, mConnected, mReconnectTimer, openFds, devdUp, peerOpen, inbox,
  present,      \* kernel: interfaces that exist
  adminUp,      \* kernel: interfaces flagged UP
  route,        \* kernel: unread messages of mRouteSocket
  reading,      \* onRouteSocketActivated is inside its read loop
  mDevices,     \* the device of an interface, or NoDev
  rows,         \* how many rows of Networking.mDevices show a device
  object,       \* life of a device object: "free", "alive" or "doomed"
  scan,         \* scanExistingDevices: queued, running, listed, done, failed
  snapshot,     \* what its ifconfig -l saw
  bWifiEnabled, \* the wifiEnabled property
  cmds,         \* running `ifconfig <if> up|down` processes
  stale,        \* history: link changed since the device last asked for a sample
  boot,         \* history: interfaces there since before the program started
  ghosts,       \* history: tracked from a listing older than their departure
  devdMissed,   \* history: a devd notice was lost behind or ahead of another
  switched,     \* history: interfaces the last setWifiEnabled was sent to
  contested     \* history: ... whose flag is not up to that call alone

devdVars == <<mFd, mNotifier, mConnected, mReconnectTimer, openFds, devdUp, peerOpen, inbox>>
tracking == <<mDevices, rows, object, stale, ghosts, switched>>
wifiVars == <<adminUp, bWifiEnabled, cmds, contested>>
vars == <<devdVars, present, adminUp, route, reading, mDevices, rows, object, scan, snapshot,
          bWifiEnabled, cmds, stale, boot, ghosts, devdMissed, switched, contested>>

D == INSTANCE Devd WITH Event <- Notice

tracked == {i \in Iface : mDevices[i] # NoDev}

-----------------------------------------------------------------------------
(* processInterface and removeInterface.  A device samples its interface    *)
(* when it is created; deviceAdded and deviceRemoved are handled at once by *)
(* Networking, which inserts a row or removes the first row of the device.  *)

AddDevice(i) ==
  \E d \in Dev :
    /\ object[d] = "free"
    /\ object' = [object EXCEPT ![d] = "alive"]
    /\ mDevices' = [mDevices EXCEPT ![i] = d]
    /\ rows' = [rows EXCEPT ![d] = @ + 1]
    /\ stale' = stale \ {i}
    /\ UNCHANGED <<ghosts, switched>>

processInterface_NoContains(i) ==  \* mutant: no check for an existing device
  IF i \notin Wireless \cup Wired THEN UNCHANGED tracking ELSE AddDevice(i)

processInterface(i) ==
  IF i \in tracked \/ i \notin Wireless \cup Wired
  THEN UNCHANGED tracking
  ELSE AddDevice(i)

removeInterface_KeepsEntry(i) ==  \* mutant: value() instead of take()
  IF i \notin tracked
  THEN UNCHANGED tracking
  ELSE LET d == mDevices[i] IN
       /\ rows' = [rows EXCEPT ![d] = IF @ > 0 THEN @ - 1 ELSE @]
       /\ object' = [object EXCEPT ![d] = "doomed"]
       /\ UNCHANGED <<mDevices, stale, ghosts, switched>>

removeInterface(i) ==
  IF i \notin tracked
  THEN UNCHANGED tracking
  ELSE LET d == mDevices[i] IN
       /\ mDevices' = [mDevices EXCEPT ![i] = NoDev]
       /\ rows' = [rows EXCEPT ![d] = IF @ > 0 THEN @ - 1 ELSE @]
       /\ object' = [object EXCEPT ![d] = "doomed"]
       /\ ghosts' = ghosts \ {i}
       /\ switched' = switched \ {i}
       /\ UNCHANGED stale

(* handleInterfaceEvent of a tracked device starts a new sample of its      *)
(* interface; what comes of it is in WiredDevice.tla and WifiDevice.tla.    *)
handleInterfaceEvent_NoRefresh(i) ==  \* mutant: the device is not refreshed
  UNCHANGED tracking

handleInterfaceEvent(i) ==
  /\ stale' = IF i \in tracked THEN stale \ {i} ELSE stale
  /\ UNCHANGED <<mDevices, rows, object, ghosts, switched>>

(* device->deleteLater(): the object dies when the event loop gets to it.   *)
(* It may do so here inside the read loop too, which only adds behaviours.  *)
DeleteDeferred(d) ==
  /\ object[d] = "doomed"
  /\ object' = [object EXCEPT ![d] = "free"]
  /\ UNCHANGED <<devdVars, present, route, reading, mDevices, rows, scan, snapshot,
                 stale, boot, ghosts, devdMissed, switched, wifiVars>>

-----------------------------------------------------------------------------
(* The three sources *)

handleRouteMessage_ArrivalsOnly ==  \* mutant: departures are left to devd
  /\ route # <<>>
  /\ route' = Tail(route)
  /\ reading' = (route' # <<>>)
  /\ LET m == Head(route) IN
     IF m.ifname \in Ignored THEN UNCHANGED tracking
     ELSE \/ m.what = "ARRIVAL"   /\ processInterface(m.ifname)
          \/ m.what = "DEPARTURE" /\ UNCHANGED tracking
          \/ m.what = "IFINFO" /\ IF m.ifname \in present
                                  THEN handleInterfaceEvent(m.ifname)
                                  ELSE UNCHANGED tracking
  /\ UNCHANGED <<devdVars, present, scan, snapshot, boot, devdMissed, wifiVars>>

(* One pass of onRouteSocketActivated's loop, which reads until the socket is *)
(* empty: no other callback runs between two messages, but the kernel does. *)
(* An IFINFO message carries an interface index, resolved when it is read:  *)
(* it is dropped when the interface is gone by then.                        *)
handleRouteMessage ==
  /\ route # <<>>
  /\ route' = Tail(route)
  /\ reading' = (route' # <<>>)
  /\ LET m == Head(route) IN
     IF m.ifname \in Ignored THEN UNCHANGED tracking
     ELSE \/ m.what = "ARRIVAL"   /\ processInterface(m.ifname)
          \/ m.what = "DEPARTURE" /\ removeInterface(m.ifname)
          \/ m.what = "IFINFO" /\ IF m.ifname \in present
                                  THEN handleInterfaceEvent(m.ifname)
                                  ELSE UNCHANGED tracking
  /\ UNCHANGED <<devdVars, present, scan, snapshot, boot, devdMissed, wifiVars>>

handleDevdEvent_NoDetach(e) ==  \* mutant: departures are left to the route socket
  \/ e.type = "ATTACH" /\ processInterface(e.ifname)
  \/ e.type = "LINK"   /\ handleInterfaceEvent(e.ifname)
  \/ e.type \in {"DETACH", "OTHER"} /\ UNCHANGED tracking

handleDevdEvent(e) ==
  IF e.type = "OTHER" \/ e.ifname \in Ignored
  THEN UNCHANGED tracking
  ELSE \/ e.type = "ATTACH" /\ processInterface(e.ifname)
       \/ e.type = "DETACH" /\ removeInterface(e.ifname)
       \/ e.type = "LINK"   /\ handleInterfaceEvent(e.ifname)

DevdEvent ==
  /\ ~reading
  /\ \E e \in Notice : D!ReceiveEvent(e) /\ handleDevdEvent(e)
  /\ UNCHANGED <<present, route, reading, scan, snapshot, boot, devdMissed, wifiVars>>

scanExistingDevices ==
  /\ ~reading /\ scan = "queued" /\ scan' = "running"
  /\ UNCHANGED <<devdVars, present, route, reading, tracking, snapshot, boot, devdMissed, wifiVars>>

IfconfigLists ==
  /\ scan = "running"
  /\ \/ scan' = "listed" /\ snapshot' = present
     \/ scan' = "failed" /\ UNCHANGED snapshot
  /\ UNCHANGED <<devdVars, present, route, reading, tracking, boot, devdMissed, wifiVars>>

(* The finished handler walks the whole listing in one go: every interface  *)
(* of it that is not ignored gets a device of its own unless it has one.    *)
Untracked_StopsEarly ==  \* mutant: return instead of continue at a known one
  IF snapshot \cap tracked # {} THEN {} ELSE snapshot \cap Handled

Untracked == (snapshot \cap Handled) \ tracked

ListingFinished ==
  LET new == Untracked IN
  /\ ~reading /\ scan = "listed" /\ scan' = "done"
  /\ \E pick \in [new -> {d \in Dev : object[d] = "free"}] :
       /\ \A i, j \in new : pick[i] = pick[j] => i = j
       /\ mDevices' = [i \in Iface |-> IF i \in new THEN pick[i] ELSE mDevices[i]]
       /\ rows' = [d \in Dev |-> IF \E i \in new : pick[i] = d THEN rows[d] + 1 ELSE rows[d]]
       /\ object' = [d \in Dev |-> IF \E i \in new : pick[i] = d THEN "alive" ELSE object[d]]
  /\ stale' = stale \ new
  /\ ghosts' = ghosts \cup (new \ present)
  /\ UNCHANGED <<devdVars, present, route, reading, snapshot, boot, devdMissed, switched, wifiVars>>

-----------------------------------------------------------------------------
(* setWifiEnabled: one ifconfig process per tracked device, whatever kind   *)
(* of device it is.  The processes run concurrently with everything else.   *)

setWifiEnabled_OldValue(enabled) ==  \* mutant: reads the property it is about to set
  LET c == IF bWifiEnabled THEN "up" ELSE "down" IN
  /\ ~reading /\ bWifiEnabled # enabled
  /\ \A i \in tracked : cmds[i][c] < MaxCmds
  /\ cmds' = [i \in Iface |->
                IF i \in tracked THEN [cmds[i] EXCEPT ![c] = @ + 1] ELSE cmds[i]]
  /\ bWifiEnabled' = enabled
  /\ switched' = tracked \cap present
  /\ contested' = {i \in Iface : \E b \in Cmd : cmds[i][b] > 0}
  /\ UNCHANGED <<devdVars, present, adminUp, route, reading, mDevices, rows, object, scan, snapshot,
                 stale, boot, ghosts, devdMissed>>

setWifiEnabled(enabled) ==
  LET c == IF enabled THEN "up" ELSE "down" IN
  /\ ~reading /\ bWifiEnabled # enabled
  /\ \A i \in tracked : cmds[i][c] < MaxCmds
  /\ cmds' = [i \in Iface |->
                IF i \in tracked THEN [cmds[i] EXCEPT ![c] = @ + 1] ELSE cmds[i]]
  /\ bWifiEnabled' = enabled
  /\ switched' = tracked \cap present
  /\ contested' = {i \in Iface : \E b \in Cmd : cmds[i][b] > 0}
  /\ UNCHANGED <<devdVars, present, adminUp, route, reading, mDevices, rows, object, scan, snapshot,
                 stale, boot, ghosts, devdMissed>>

(* ifconfig changes the flag of an interface, which the kernel announces.   *)
FlagBecomes(i, up) ==
  IF i \in present /\ up # (i \in adminUp)
  THEN /\ Len(route) < MaxRoute
       /\ adminUp' = IF up THEN adminUp \cup {i} ELSE adminUp \ {i}
       /\ route' = Append(route, [what |-> "IFINFO", ifname |-> i])
       /\ stale' = stale \cup {i}
  ELSE UNCHANGED <<adminUp, route, stale>>

IfconfigSetsFlag(i, c) ==
  /\ cmds[i][c] > 0
  /\ cmds' = [cmds EXCEPT ![i][c] = @ - 1]
  /\ FlagBecomes(i, c = "up")
  /\ UNCHANGED <<devdVars, present, reading, mDevices, rows, object, scan, snapshot, bWifiEnabled,
                 boot, ghosts, devdMissed, switched, contested>>

(* The exit code is not looked at: the property stays as it was set.        *)
IfconfigFails(i, c) ==
  /\ cmds[i][c] > 0
  /\ cmds' = [cmds EXCEPT ![i][c] = @ - 1]
  /\ contested' = contested \cup ({i} \cap switched)
  /\ UNCHANGED <<devdVars, present, adminUp, route, reading, mDevices, rows, object, scan, snapshot,
                 bWifiEnabled, stale, boot, ghosts, devdMissed, switched>>

(* The disconnect of a device and the connect and disconnect of a network   *)
(* run an ifconfig that sets the flag too, and so do other programs.        *)
OtherSetsFlag(i, up) ==
  /\ i \in present /\ up # (i \in adminUp)
  /\ FlagBecomes(i, up)
  /\ contested' = contested \cup ({i} \cap switched)
  /\ UNCHANGED <<devdVars, present, reading, mDevices, rows, object, scan, snapshot, bWifiEnabled,
                 cmds, boot, ghosts, devdMissed, switched>>

-----------------------------------------------------------------------------
(* The kernel tells the route socket and devd of every change.  A notice    *)
(* that devd cannot deliver while an older one about the same interface is  *)
(* still queued leaves the backend with the older word.                     *)

Queued(i) == \E k \in DOMAIN inbox : inbox[k].ifname = i

Lost == ~(D!Listening /\ Len(inbox) < MaxInbox)

Announce(what, type, i) ==
  /\ Len(route) < MaxRoute
  /\ route' = Append(route, [what |-> what, ifname |-> i])
  /\ \/ D!Publish([type |-> type, ifname |-> i])
     \/ ~devdUp /\ UNCHANGED devdVars
  /\ devdMissed' = IF Lost /\ Queued(i) THEN devdMissed \cup {i}
                   ELSE IF type = "DETACH" THEN devdMissed \ {i}
                   ELSE devdMissed

Attach(i) ==
  /\ i \notin present /\ present' = present \cup {i}
  /\ Announce("ARRIVAL", "ATTACH", i)
  /\ stale' = stale \cup {i}
  /\ UNCHANGED <<reading, mDevices, rows, object, ghosts, switched, scan, snapshot, boot, wifiVars>>

Detach(i) ==
  /\ i \in present /\ present' = present \ {i}
  /\ adminUp' = adminUp \ {i}
  /\ boot' = boot \ {i}
  /\ Announce("DEPARTURE", "DETACH", i)
  /\ switched' = switched \ {i}
  /\ UNCHANGED <<reading, mDevices, rows, object, ghosts, stale, scan, snapshot, bWifiEnabled, cmds, contested>>

LinkChange(i) ==
  /\ i \in present
  /\ Announce("IFINFO", "LINK", i)
  /\ stale' = stale \cup {i}
  /\ UNCHANGED <<reading, present, mDevices, rows, object, ghosts, switched, scan, snapshot, boot, wifiVars>>

(* The rest of the devd connection (Devd.tla); a read error throws away     *)
(* whatever was still queued.                                               *)
DevdConnection ==
  /\ \/ /\ \/ D!DevdStarts \/ D!DevdStops \/ D!Publish(OtherNotice)
           \/ ~reading /\ (D!attemptReconnect \/ D!ReceiveEof)
        /\ UNCHANGED devdMissed
     \/ /\ ~reading /\ D!ReceiveError
        /\ devdMissed' = devdMissed \cup {i \in Iface : Queued(i)}
  /\ UNCHANGED <<present, route, reading, tracking, scan, snapshot, boot, wifiVars>>

-----------------------------------------------------------------------------
(* The constructor connects to eventReceived, opens the route socket and    *)
(* queues the scan; the signals of the backend are connected before the     *)
(* event loop runs it.                                                      *)
Init ==
  /\ D!Init
  /\ present \in SUBSET Iface
  /\ adminUp = present
  /\ route = <<>> /\ reading = FALSE
  /\ mDevices = [i \in Iface |-> NoDev]
  /\ rows = [d \in Dev |-> 0]
  /\ object = [d \in Dev |-> "free"]
  /\ scan = "queued" /\ snapshot = {}
  /\ bWifiEnabled = TRUE
  /\ cmds = [i \in Iface |-> [c \in Cmd |-> 0]]
  /\ stale = {} /\ boot = present /\ ghosts = {} /\ devdMissed = {}
  /\ switched = {} /\ contested = {}

Backend ==
  \/ handleRouteMessage \/ DevdEvent
  \/ scanExistingDevices \/ ListingFinished
  \/ \E d \in Dev : DeleteDeferred(d)

Kernel ==
  \/ IfconfigLists
  \/ \E i \in Iface : Attach(i) \/ Detach(i) \/ LinkChange(i)
  \/ \E i \in Iface, c \in Cmd : IfconfigSetsFlag(i, c) \/ IfconfigFails(i, c)
  \/ \E i \in Iface, up \in BOOLEAN : OtherSetsFlag(i, up)

Next ==
  \/ Backend \/ Kernel \/ DevdConnection
  \/ \E enabled \in BOOLEAN : setWifiEnabled(enabled)

Spec == Init /\ [][Next]_vars

(* The event loop serves its sockets, its queued calls and its timers, each *)
(* in its turn (strong fairness: the read loop holds the others up again    *)
(* and again), and an ifconfig that runs ends.  The read loop ends: the     *)
(* kernel does not for ever announce faster than it is read.  Users,        *)
(* interfaces and devd owe nothing.                                         *)
FairSpec ==
  /\ Spec
  /\ []<>(~reading)
  /\ WF_vars(handleRouteMessage)
  /\ SF_vars(DevdEvent)
  /\ SF_vars(scanExistingDevices) /\ WF_vars(IfconfigLists) /\ SF_vars(ListingFinished)
  /\ \A d \in Dev : WF_vars(DeleteDeferred(d))

-----------------------------------------------------------------------------
(* Properties *)

\* Every variable has its type, and mDevices holds no object that was handed to
\* deleteLater.
TypeOK ==
  /\ D!TypeOK
  /\ present \in SUBSET Iface /\ adminUp \in SUBSET Iface
  /\ route \in Seq(RouteMsg) /\ reading \in BOOLEAN
  /\ mDevices \in [Iface -> {d \in Dev : object[d] = "alive"} \cup {NoDev}]
  /\ rows \in [Dev -> Nat]
  /\ object \in [Dev -> {"free", "alive", "doomed"}]
  /\ scan \in {"queued", "running", "listed", "done", "failed"}
  /\ snapshot \in SUBSET Iface
  /\ bWifiEnabled \in BOOLEAN
  /\ cmds \in [Iface -> [Cmd -> Nat]]
  /\ stale \in SUBSET Iface /\ boot \in SUBSET Iface /\ ghosts \in SUBSET Iface
  /\ devdMissed \in SUBSET Iface
  /\ switched \in SUBSET Iface /\ contested \in SUBSET Iface

\* However the three sources interleave, the list model shows exactly the
\* devices of the backend, each in one row; only wired and wireless interfaces
\* have a device, no two of them share one,
\* no row shows a device that was handed to deleteLater, and no device lives
\* on untracked.
ModelMirrorsDevices ==
  /\ tracked \subseteq Handled
  /\ \A i, j \in tracked : mDevices[i] = mDevices[j] => i = j
  /\ \A d \in Dev :
       LET isTracked == \E i \in tracked : mDevices[i] = d IN
       /\ rows[d] = IF isTracked THEN 1 ELSE 0
       /\ object[d] = "alive" <=> isTracked

Settled(i) ==
  /\ ~Queued(i)
  /\ \A k \in DOMAIN route : route[k].ifname # i

\* When nothing about an interface is queued any more, the backend agrees with
\* the kernel about it, whatever order the route socket, devd and the startup
\* listing were handled in.  The exceptions are the ones the code has: a
\* listing taken before the departure was handled brings the interface back,
\* an interface older than the program stays unknown when the listing fails,
\* and a notice devd failed to deliver leaves the backend with an older one.
Converged ==
  \A i \in Handled : Settled(i) /\ i \notin devdMissed =>
    /\ i \in tracked => i \in present \cup ghosts
    /\ i \in present => i \in tracked \/ (i \in boot /\ scan # "done")

\* A link change of a tracked interface is never forgotten: until the device
\* takes a newer sample, a message that makes it do so, or that replaces the
\* device, is still queued.
NoLostLinkChange ==
  \A i \in tracked \cap stale :
    \/ i \in ghosts \cup devdMissed
    \/ \E k \in DOMAIN route : route[k].ifname = i /\ route[k].what \in {"IFINFO", "DEPARTURE"}
    \/ \E k \in DOMAIN inbox : inbox[k].ifname = i /\ inbox[k].type = "DETACH"

\* Once its processes have run, setWifiEnabled has put every interface it was
\* sent to in the state the property shows.  Exempt is an interface for which
\* the code does not see to it: a process of the call failed, the call came
\* while an earlier command for it was still running, or a device, a network or
\* another program has set the flag since.
WifiSwitchSettles ==
  \A i \in switched \ contested :
    (\A c \in Cmd : cmds[i][c] = 0) => (i \in adminUp <=> bWifiEnabled)

\* An interface that stays is eventually tracked for good, and one that is gone
\* for good eventually disappears, with the exceptions of Converged.
Follows ==
  \A i \in Handled :
    /\ <>[](i \in present /\ i \notin devdMissed \cup boot) => <>[](i \in tracked)
    /\ <>[](i \notin present \cup devdMissed \cup ghosts) => <>[](i \notin tracked)
=============================================================================
