----------------------------- MODULE WiredDevice -----------------------------
(***************************************************************************)
(* One FreeBSDWiredDevice (plugin/src/network).  It starts an ifconfig      *)
(* (Sampler.tla) when it is created and on every interface event, and shows *)
(* what the output says when the process has finished.  A disconnect marks  *)
(* the device Disconnecting, takes the interface down, and refreshes.       *)
(***************************************************************************)
EXTENDS Naturals, Sequences, FiniteSets

CONSTANTS
  Error,       \* an ifconfig that exits with an error
  MaxEvents,   \* bound: interface events on their way
  MaxRefresh,  \* bound: refresh processes running
  MaxDowns     \* bound: `ifconfig <if> down` processes running

(* What ifconfig prints of an interface; some (tun, wg) have no status line *)
Media == {"active", "no carrier", "none"}
Interface == [up : BOOLEAN, media : Media]

ASSUME WiredAssumption ==
  /\ Error \notin Interface
  /\ MaxEvents \in Nat /\ MaxRefresh \in Nat \ {0} /\ MaxDowns \in Nat

DeviceState == {"Unknown", "Connected", "Disconnecting", "Disconnected"}

VARIABLES
  iface,            \* kernel: the interface
  events,           \* kernel: link events the backend has not handled yet
  bState,           \* the state the device shows
  asked, outputs,   \* running ifconfig processes, see Sampler
  downs,            \* down processes that have not acted yet
  doneDowns,        \* down processes that have, whose finished signal is due
  tainted           \* history: the device acts on a sample that failed or was late

vars == <<iface, events, bState, asked, outputs, downs, doneDowns, tainted>>

S == INSTANCE Sampler WITH Kind <- {"refresh"}, Value <- Interface \cup {Error}

-----------------------------------------------------------------------------
(* parseIfconfigOutput: a missing status line counts as a carrier.          *)

isConnected_NeedsActive(i) ==  \* mutant: a missing status line is no carrier
  i.up /\ i.media = "active"

isConnected(i) ==
  LET hasCarrier == i.media # "no carrier"
      isActive   == i.media = "active"
  IN  i.up /\ (hasCarrier \/ isActive)

parseIfconfigOutput_KeepsDisconnecting(i) ==  \* mutant: an attempt to avoid flicker
  bState' = IF bState = "Disconnecting" /\ isConnected(i) THEN bState
            ELSE IF isConnected(i) THEN "Connected" ELSE "Disconnected"

parseIfconfigOutput(i) ==
  bState' = IF isConnected(i) THEN "Connected" ELSE "Disconnected"

updateStateFromIfconfig ==
  /\ asked["refresh"] + Len(outputs) < MaxRefresh
  /\ S!Ask("refresh")

handleInterfaceEvent ==
  /\ events > 0 /\ events' = events - 1
  /\ updateStateFromIfconfig
  /\ UNCHANGED <<iface, bState, downs, doneDowns, tainted>>

RefreshFinished ==
  /\ \E n \in DOMAIN outputs :
       /\ S!Collect(n)
       /\ \/ /\ outputs[n].value = Error
             /\ tainted' = TRUE /\ UNCHANGED bState
          \/ /\ outputs[n].value # Error
             /\ parseIfconfigOutput(outputs[n].value)
             /\ tainted' = outputs[n].late
  /\ UNCHANGED <<iface, events, asked, downs, doneDowns>>

(* NetworkDevice::disconnect, and onDisconnectRequested                     *)
disconnect_ShowsConnecting ==  \* mutant: the wrong transitional state
  /\ bState \notin {"Disconnected", "Disconnecting"}
  /\ bState' = "Connecting"
  /\ downs + doneDowns < MaxDowns /\ downs' = downs + 1
  /\ UNCHANGED <<iface, events, asked, outputs, doneDowns, tainted>>

disconnect ==
  /\ bState \notin {"Disconnected", "Disconnecting"}
  /\ bState' = "Disconnecting"
  /\ downs + doneDowns < MaxDowns /\ downs' = downs + 1
  /\ UNCHANGED <<iface, events, asked, outputs, doneDowns, tainted>>

DownFinished ==
  /\ doneDowns > 0 /\ doneDowns' = doneDowns - 1
  /\ updateStateFromIfconfig
  /\ UNCHANGED <<iface, events, bState, downs, tainted>>

-----------------------------------------------------------------------------
(* The kernel announces every change of the interface.                      *)

BecomesIface(i) ==
  /\ iface' = i
  /\ IF i = iface THEN UNCHANGED events
     ELSE events < MaxEvents /\ events' = events + 1

LinkChange ==
  /\ \E i \in Interface : i # iface /\ BecomesIface(i)
  /\ UNCHANGED <<bState, asked, outputs, downs, doneDowns, tainted>>

DownActs ==
  /\ downs > 0 /\ downs' = downs - 1
  /\ doneDowns' = doneDowns + 1
  /\ \/ BecomesIface([iface EXCEPT !.up = FALSE])
     \/ UNCHANGED <<iface, events>>
  /\ UNCHANGED <<bState, asked, outputs, tainted>>

ProcessReads ==
  /\ S!Read("refresh", iface) \/ S!Read("refresh", Error)
  /\ UNCHANGED <<iface, events, bState, downs, doneDowns, tainted>>

-----------------------------------------------------------------------------
(* The constructor starts the first refresh.                                *)
Init ==
  /\ iface \in Interface /\ events = 0
  /\ bState = "Unknown"
  /\ asked = [k \in {"refresh"} |-> 1] /\ outputs = <<>>
  /\ downs = 0 /\ doneDowns = 0
  /\ tainted = FALSE

Next ==
  \/ handleInterfaceEvent \/ RefreshFinished \/ disconnect \/ DownFinished
  \/ LinkChange \/ DownActs \/ ProcessReads

Spec == Init /\ [][Next]_vars

(* Started processes end and queued signals are delivered.                  *)
FairSpec ==
  /\ Spec
  /\ WF_vars(handleInterfaceEvent) /\ WF_vars(RefreshFinished)
  /\ WF_vars(DownFinished) /\ WF_vars(DownActs) /\ WF_vars(ProcessReads)

-----------------------------------------------------------------------------
(* Properties *)

\* Every variable has its type.
TypeOK ==
  /\ iface \in Interface /\ events \in Nat
  /\ bState \in DeviceState
  /\ S!TypeOK
  /\ downs \in Nat /\ doneDowns \in Nat
  /\ tainted \in BOOLEAN

\* When nothing is under way, a device whose newest sample was neither failed
\* nor overtaken shows Connected exactly when its interface is up and does not
\* lack a carrier: no event, disconnect or burst of refreshes leaves it with an
\* outdated state.
SettledAgrees ==
  events = 0 /\ S!Idle /\ downs + doneDowns = 0 /\ ~tainted =>
    bState = IF iface.up /\ iface.media # "no carrier" THEN "Connected" ELSE "Disconnected"

\* A device that shows Disconnecting has a down process or a refresh that will
\* change that, or a refresh has failed since.
DisconnectBacked ==
  bState = "Disconnecting" => downs + doneDowns > 0 \/ ~S!Idle \/ tainted

\* A device that is to be disconnected is not shown Disconnecting for good
\* unless the output it showed last, before the disconnect or after it, had
\* failed or was late, whatever its interface does meanwhile.
DisconnectEnds == (bState = "Disconnecting") ~> (bState # "Disconnecting" \/ tainted)
=============================================================================
