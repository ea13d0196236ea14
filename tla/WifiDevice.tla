----------------------------- MODULE WifiDevice -----------------------------
(***************************************************************************)
(* One FreeBSDWifiDevice with its FreeBSDWifiNetwork objects                *)
(* (plugin/src/network).  The device refreshes its state by running         *)
(* ifconfig (Sampler.tla) on every interface event, and scans in a pipeline *)
(* of processes and timers: query the association, request a scan, wait,    *)
(* list the results, and walk through them in chunks, one per turn of the   *)
(* event loop.  Users connect, disconnect and forget networks meanwhile.    *)
(***************************************************************************)
EXTENDS Naturals, Sequences, FiniteSets

CONSTANTS
  Bssid,        \* access points, the keys of mNetworkMap
  NoBssid,      \* the empty string; in scan results, a line without a network
  Saved,        \* access points whose SSID is in wpa_supplicant.conf or rc.conf
  Error,        \* an ifconfig that exits with an error
  Scan,         \* scan pipelines
  ChunkSize,    \* lines of a chunk
  MaxLines,     \* bound: lines of a scan result
  MaxEvents,    \* bound: interface events on their way
  MaxRefresh,   \* bound: refresh processes running
  MaxCommands,  \* bound: connect or disconnect processes per network, or device
  MaxLoads      \* bound: known-network loaders of each kind running

Line == Bssid \cup {NoBssid}
Link == [bssid : Line, up : BOOLEAN]

ASSUME WifiAssumption ==
  /\ NoBssid \notin Bssid /\ Error \notin Link
  /\ Saved \subseteq Bssid
  /\ Scan # {} /\ ChunkSize \in Nat \ {0} /\ MaxLines \in Nat
  /\ MaxEvents \in Nat /\ MaxRefresh \in Nat \ {0} /\ MaxCommands \in Nat /\ MaxLoads \in Nat

ScanStage == {"idle", "query", "request", "settle", "results", "lines"}
DeviceState == {"Unknown", "Connected", "Disconnecting", "Disconnected"}
NetworkState == {"Unknown", "Connecting", "Connected", "Disconnecting", "Disconnected"}

VARIABLES
  link,             \* kernel: the access point ifconfig names and whether the status is up
  events,           \* kernel: link events the backend has not handled yet
  bState,           \* state of the device
  mCurrentBssid,
  asked, outputs,   \* running ifconfig processes, see Sampler
  bScannerEnabled,
  mScanPending,
  stage, lines,     \* of each pipeline: its step and the results not walked yet
  mNetworkMap,      \* access points that have a network object
  rows,             \* rows of mNetworks that show the network
  netState, known,  \* bState and bKnown of the network objects
  downs,            \* running `ifconfig <if> down` processes of the device
  connecting,       \* running connect processes of a network
  disconnecting,    \* running disconnect processes of a network
  loaders, wpaCli,  \* running known-network threads and wpa_cli processes
  tainted,          \* history: the device acts on a sample that was overtaken
  commanded,        \* history: networks whose state a command wrote last
  forgotten         \* history: networks forgotten since the last known load

device   == <<bState, mCurrentBssid>>
sampler  == <<asked, outputs>>
pipeline == <<mScanPending, stage, lines>>
networks == <<mNetworkMap, rows, netState, known>>
commands == <<downs, connecting, disconnecting>>
loads    == <<loaders, wpaCli>>
history  == <<tainted, commanded, forgotten>>
vars == <<link, events, bState, mCurrentBssid, asked, outputs, bScannerEnabled,
          mScanPending, stage, lines, mNetworkMap, rows, netState, known, downs,
          connecting, disconnecting, loaders, wpaCli, tainted, commanded, forgotten>>

S == INSTANCE Sampler WITH Kind <- {"refresh", "query"}, Value <- Link \cup {Error}

-----------------------------------------------------------------------------
(* Refreshing: interface events, and what an ifconfig output does           *)

updateStateFromIfconfig ==
  /\ asked["refresh"] + Cardinality({n \in DOMAIN outputs : outputs[n].kind = "refresh"}) < MaxRefresh
  /\ S!Ask("refresh")

handleInterfaceEvent ==
  /\ events > 0 /\ events' = events - 1
  /\ updateStateFromIfconfig
  /\ UNCHANGED <<link, device, bScannerEnabled, pipeline, networks, commands, loads, history>>

Mark(b, current, connected) ==
  IF connected /\ b = current THEN "Connected" ELSE "Disconnected"

Shows(o) ==
  /\ mCurrentBssid' = o.bssid
  /\ bState' = IF o.up THEN "Connected" ELSE "Disconnected"

parseIfconfigOutput_Unlisted(o) ==  \* mutant: mNetworkMap[bssid] of an unlisted network
  /\ Shows(o)
  /\ netState' = [b \in Bssid |-> IF b \in mNetworkMap \cup {o.bssid}
                                 THEN Mark(b, o.bssid, o.up) ELSE netState[b]]

parseIfconfigOutput_OnlyMatch(o) ==  \* mutant: the other networks keep their state
  /\ Shows(o)
  /\ netState' = [b \in Bssid |-> IF b \in mNetworkMap /\ o.up /\ b = o.bssid
                                 THEN "Connected" ELSE netState[b]]

(* The access point and the status are matched one apart from the other: an *)
(* interface may be up and name no access point, or name one and be down.   *)
parseIfconfigOutput(o) ==
  /\ Shows(o)
  /\ netState' = [b \in Bssid |-> IF b \in mNetworkMap THEN Mark(b, o.bssid, o.up) ELSE netState[b]]

RefreshFinished ==
  /\ \E n \in DOMAIN outputs :
       LET o == outputs[n] IN
       /\ o.kind = "refresh"
       /\ S!Collect(n)
       /\ \/ /\ o.value = Error
             /\ tainted' = TRUE
             /\ UNCHANGED <<device, netState, commanded>>
          \/ /\ o.value # Error
             /\ parseIfconfigOutput(o.value)
             /\ tainted' = o.late
             /\ commanded' = {}
  /\ UNCHANGED <<link, events, asked, bScannerEnabled, pipeline, mNetworkMap, rows, known,
                 commands, loads, forgotten>>

(* disconnect() of the device, and its onDisconnectRequested                *)
disconnect ==
  /\ bState \notin {"Disconnected", "Disconnecting"}
  /\ bState' = "Disconnecting"
  /\ downs < MaxCommands /\ downs' = downs + 1
  /\ UNCHANGED <<link, events, mCurrentBssid, sampler, bScannerEnabled, pipeline, networks,
                 connecting, disconnecting, loads, history>>

DownFinished_NoRefresh ==  \* mutant: waits for an interface event instead
  /\ downs > 0 /\ downs' = downs - 1
  /\ UNCHANGED <<link, events, device, sampler, bScannerEnabled, pipeline, networks,
                 connecting, disconnecting, loads, history>>

DownFinished ==
  /\ downs > 0 /\ downs' = downs - 1
  /\ updateStateFromIfconfig
  /\ UNCHANGED <<link, events, device, bScannerEnabled, pipeline, networks,
                 connecting, disconnecting, loads, history>>

-----------------------------------------------------------------------------
(* The scan pipeline *)

triggerScan_NoGuard ==  \* mutant: mScanPending is not looked at
  /\ mScanPending' = TRUE
  /\ \E s \in Scan : /\ stage[s] = "idle"
                     /\ stage' = [stage EXCEPT ![s] = "query"]
  /\ S!Ask("query")
  /\ UNCHANGED lines

triggerScan ==
  \/ mScanPending /\ UNCHANGED <<pipeline, sampler>>
  \/ /\ ~mScanPending /\ mScanPending' = TRUE
     /\ loaders < MaxLoads /\ wpaCli < MaxLoads
     /\ \E s \in Scan : /\ stage[s] = "idle"
                        /\ stage' = [stage EXCEPT ![s] = "query"]
     /\ S!Ask("query")
     /\ UNCHANGED lines

setScannerEnabled(enabled) ==
  /\ bScannerEnabled # enabled
  /\ bScannerEnabled' = enabled
  /\ IF enabled THEN triggerScan ELSE UNCHANGED <<pipeline, sampler>>
  /\ UNCHANGED <<link, events, device, networks, commands, loads, history>>

QueryFinished(s) ==
  /\ stage[s] = "query"
  /\ \E n \in DOMAIN outputs :
       /\ outputs[n].kind = "query"
       /\ S!Collect(n)
       /\ IF outputs[n].value = Error
          THEN UNCHANGED <<mCurrentBssid, tainted>>
          ELSE mCurrentBssid' = outputs[n].value.bssid /\ tainted' = (tainted \/ outputs[n].late)
  /\ stage' = [stage EXCEPT ![s] = "request"]
  /\ UNCHANGED <<link, events, bState, asked, bScannerEnabled, mScanPending, lines, networks,
                 commands, loads, commanded, forgotten>>

(* `ifconfig <if> scan`: whatever it exits with, the 1500 ms timer starts;   *)
(* when it fires, `ifconfig <if> list scan` is started.                     *)
StageBecomes(s, from, to) ==
  /\ stage[s] = from
  /\ stage' = [stage EXCEPT ![s] = to]
  /\ UNCHANGED <<link, events, device, sampler, bScannerEnabled, mScanPending, lines, networks,
                 commands, loads, history>>

RequestFinished(s) == StageBecomes(s, "request", "settle")

SettleTimeout(s) == StageBecomes(s, "settle", "results")

(* loadKnownNetworks starts a thread that reads the configuration files and *)
(* wpa_cli, which lists the running supplicant's networks; both mark the    *)
(* networks that exist when they are done.  A wpa_cli that is not installed *)
(* never finishes.                                                          *)
loadKnownNetworks_WpaCliOnly ==  \* mutant: the configuration files are not read
  wpaCli' \in {wpaCli, wpaCli + 1} /\ UNCHANGED loaders

loadKnownNetworks ==
  /\ loaders' = loaders + 1
  /\ wpaCli' \in {wpaCli, wpaCli + 1}

ShowNew_All(seen) ==  \* mutant: networkAdded for known networks too
  rows' = [b \in Bssid |-> IF b \in seen THEN rows[b] + 1 ELSE rows[b]]

ShowNew(seen) ==
  rows' = [b \in Bssid |-> IF b \in seen \ mNetworkMap THEN rows[b] + 1 ELSE rows[b]]

(* processScanLines walks one chunk of results; the state it gives a        *)
(* network comes from the association and the state the device has at that  *)
(* turn.  The last chunk clears mScanPending and loads the known networks.  *)
processScanLines(s, results) ==
  LET end  == IF Len(results) < ChunkSize THEN Len(results) ELSE ChunkSize
      seen == {results[k] : k \in 1 .. end} \ {NoBssid}
      rest == SubSeq(results, end + 1, Len(results))
  IN
  /\ netState' = [b \in Bssid |-> IF b \in seen THEN Mark(b, mCurrentBssid, bState = "Connected")
                                 ELSE netState[b]]
  /\ mNetworkMap' = mNetworkMap \cup seen
  /\ ShowNew(seen)
  /\ commanded' = commanded \ seen
  /\ lines' = [lines EXCEPT ![s] = rest]
  /\ \/ /\ rest # <<>>
        /\ stage' = [stage EXCEPT ![s] = "lines"]
        /\ UNCHANGED <<mScanPending, loads>>
     \/ /\ rest = <<>>
        /\ stage' = [stage EXCEPT ![s] = "idle"]
        /\ mScanPending' = FALSE
        /\ loadKnownNetworks

ScanResult == UNION {[1 .. n -> Line] : n \in 1 .. MaxLines}

ResultsFinished(s) ==
  /\ stage[s] = "results"
  /\ \E results \in ScanResult : processScanLines(s, results)
  /\ UNCHANGED <<link, events, device, sampler, bScannerEnabled, known, commands, tainted, forgotten>>

ResultsFailed_KeepsLock(s) ==  \* mutant: returns before mScanPending is cleared
  /\ stage[s] = "results"
  /\ stage' = [stage EXCEPT ![s] = "idle"]
  /\ UNCHANGED <<link, events, device, sampler, bScannerEnabled, mScanPending, lines, networks,
                 commands, loads, history>>

ResultsFailed(s) ==
  /\ stage[s] = "results"
  /\ stage' = [stage EXCEPT ![s] = "idle"]
  /\ mScanPending' = FALSE
  /\ UNCHANGED <<link, events, device, sampler, bScannerEnabled, lines, networks, commands, loads, history>>

NextChunk(s) ==
  /\ stage[s] = "lines"
  /\ processScanLines(s, lines[s])
  /\ UNCHANGED <<link, events, device, sampler, bScannerEnabled, known, commands, tainted, forgotten>>

MarkKnown(names) == known' = [b \in Bssid |-> known[b] \/ b \in mNetworkMap \cap names]

LoaderFinished ==
  /\ loaders > 0 /\ loaders' = loaders - 1
  /\ MarkKnown(Saved)
  /\ forgotten' = forgotten \ Saved
  /\ UNCHANGED <<link, events, device, sampler, bScannerEnabled, pipeline, mNetworkMap, rows,
                 netState, commands, wpaCli, tainted, commanded>>

WpaCliFinished ==
  /\ wpaCli > 0 /\ wpaCli' = wpaCli - 1
  /\ \E names \in {{}, Saved} : MarkKnown(names) /\ forgotten' = forgotten \ names
  /\ UNCHANGED <<link, events, device, sampler, bScannerEnabled, pipeline, mNetworkMap, rows,
                 netState, commands, loaders, tainted, commanded>>

-----------------------------------------------------------------------------
(* Networks: what their connect, disconnect and forget buttons do           *)

WriteState(b, state) ==
  /\ netState' = [netState EXCEPT ![b] = state]
  /\ commanded' = commanded \cup {b}

connect(b) ==
  /\ b \in mNetworkMap /\ netState[b] # "Connected"
  /\ WriteState(b, "Connecting")
  /\ connecting[b] < MaxCommands
  /\ connecting' = [connecting EXCEPT ![b] = @ + 1]
  /\ UNCHANGED <<link, events, device, sampler, bScannerEnabled, pipeline, mNetworkMap, rows,
                 known, downs, disconnecting, loads, tainted, forgotten>>

ConnectFinished_OnlySuccess(b, exitOk) ==  \* mutant: a failed ifconfig is only logged
  /\ connecting[b] > 0
  /\ connecting' = [connecting EXCEPT ![b] = @ - 1]
  /\ IF exitOk THEN WriteState(b, "Connected") ELSE UNCHANGED <<netState, commanded>>
  /\ UNCHANGED <<link, events, device, sampler, bScannerEnabled, pipeline, mNetworkMap, rows,
                 known, downs, disconnecting, loads, tainted, forgotten>>

ConnectFinished(b, exitOk) ==
  /\ connecting[b] > 0
  /\ connecting' = [connecting EXCEPT ![b] = @ - 1]
  /\ WriteState(b, IF exitOk THEN "Connected" ELSE "Disconnected")
  /\ UNCHANGED <<link, events, device, sampler, bScannerEnabled, pipeline, mNetworkMap, rows,
                 known, downs, disconnecting, loads, tainted, forgotten>>

disconnectNetwork(b) ==
  /\ b \in mNetworkMap /\ netState[b] = "Connected"
  /\ WriteState(b, "Disconnecting")
  /\ disconnecting[b] < MaxCommands
  /\ disconnecting' = [disconnecting EXCEPT ![b] = @ + 1]
  /\ UNCHANGED <<link, events, device, sampler, bScannerEnabled, pipeline, mNetworkMap, rows,
                 known, downs, connecting, loads, tainted, forgotten>>

DisconnectFinished(b) ==
  /\ disconnecting[b] > 0
  /\ disconnecting' = [disconnecting EXCEPT ![b] = @ - 1]
  /\ WriteState(b, "Disconnected")
  /\ UNCHANGED <<link, events, device, sampler, bScannerEnabled, pipeline, mNetworkMap, rows,
                 known, downs, connecting, loads, tainted, forgotten>>

forget(b) ==
  /\ b \in mNetworkMap /\ known[b]
  /\ known' = [known EXCEPT ![b] = FALSE]
  /\ forgotten' = forgotten \cup {b}
  /\ UNCHANGED <<link, events, device, sampler, bScannerEnabled, pipeline, mNetworkMap, rows,
                 netState, commands, loads, tainted, commanded>>

-----------------------------------------------------------------------------
(* The kernel.  The association changes at any time: by itself, or because  *)
(* of the commands above; every change is announced by an event.            *)

LinkChange ==
  /\ link' \in Link \ {link}
  /\ events < MaxEvents /\ events' = events + 1
  /\ UNCHANGED <<device, sampler, bScannerEnabled, pipeline, networks, commands, loads, history>>

ProcessReads(k) ==
  /\ \/ S!Read(k, link)
     \/ S!Read(k, Error)
  /\ UNCHANGED <<link, events, device, bScannerEnabled, pipeline, networks, commands, loads, history>>

-----------------------------------------------------------------------------
(* The constructor samples the interface itself, for at most three seconds. *)
(* It does not look at the exit code: an ifconfig that fails prints nothing *)
(* that is matched, which reads as no access point and no status.           *)
Init ==
  /\ link \in Link /\ events = 0
  /\ \/ /\ mCurrentBssid = link.bssid
        /\ bState = IF link.up THEN "Connected" ELSE "Disconnected"
        /\ tainted = FALSE
     \/ mCurrentBssid = NoBssid /\ bState \in {"Disconnected", "Unknown"} /\ tainted = TRUE
  /\ S!Init
  /\ bScannerEnabled = FALSE /\ mScanPending = FALSE
  /\ stage = [s \in Scan |-> "idle"] /\ lines = [s \in Scan |-> <<>>]
  /\ mNetworkMap = {} /\ rows = [b \in Bssid |-> 0]
  /\ netState = [b \in Bssid |-> "Unknown"] /\ known = [b \in Bssid |-> FALSE]
  /\ downs = 0
  /\ connecting = [b \in Bssid |-> 0] /\ disconnecting = [b \in Bssid |-> 0]
  /\ loaders = 0 /\ wpaCli = 0
  /\ commanded = {} /\ forgotten = {}

ScanStep(s) ==
  \/ QueryFinished(s) \/ RequestFinished(s) \/ SettleTimeout(s)
  \/ ResultsFinished(s) \/ ResultsFailed(s) \/ NextChunk(s)

User ==
  \/ disconnect
  \/ \E enabled \in BOOLEAN : setScannerEnabled(enabled)
  \/ \E b \in Bssid : connect(b) \/ disconnectNetwork(b) \/ forget(b)

ProcessEnds ==
  \/ RefreshFinished \/ DownFinished \/ LoaderFinished \/ WpaCliFinished
  \/ \E b \in Bssid : DisconnectFinished(b) \/ \E exitOk \in BOOLEAN : ConnectFinished(b, exitOk)

Next ==
  \/ handleInterfaceEvent \/ ProcessEnds \/ User \/ LinkChange
  \/ \E s \in Scan : ScanStep(s)
  \/ \E k \in {"refresh", "query"} : ProcessReads(k)

Spec == Init /\ [][Next]_vars

(* The ifconfig processes of the device end, timers fire and queued signals *)
(* are delivered.  Users and access points owe nothing, and nothing below   *)
(* waits for interface events, the loaders and the commands of a network.   *)
(* At most one pipeline is under way (ScanLock), so one fairness is owed to *)
(* all of them.                                                             *)
FairSpec ==
  /\ Spec
  /\ WF_vars(RefreshFinished) /\ WF_vars(DownFinished)
  /\ WF_vars(\E s \in Scan : ScanStep(s))
  /\ WF_vars(ProcessReads("refresh")) /\ WF_vars(ProcessReads("query"))

-----------------------------------------------------------------------------
(* Properties *)

\* Every variable has its type, and only networks of the map have a state.
TypeOK ==
  /\ link \in Link /\ events \in Nat
  /\ bState \in DeviceState /\ mCurrentBssid \in Line
  /\ S!TypeOK
  /\ bScannerEnabled \in BOOLEAN /\ mScanPending \in BOOLEAN
  /\ stage \in [Scan -> ScanStage] /\ lines \in [Scan -> Seq(Line)]
  /\ mNetworkMap \in SUBSET Bssid /\ rows \in [Bssid -> Nat]
  /\ netState \in [Bssid -> NetworkState]
  /\ \A b \in Bssid \ mNetworkMap : netState[b] = "Unknown"
  /\ known \in [Bssid -> BOOLEAN]
  /\ downs \in Nat /\ connecting \in [Bssid -> Nat] /\ disconnecting \in [Bssid -> Nat]
  /\ loaders \in Nat /\ wpaCli \in Nat
  /\ tainted \in BOOLEAN /\ commanded \in SUBSET Bssid /\ forgotten \in SUBSET Bssid

\* mScanPending is the lock of the scan pipeline: it is set exactly while one
\* pipeline is under way, on every path through its steps, its two error exits
\* and its chunks, and only that pipeline has a query process.
ScanLock ==
  LET busy == {s \in Scan : stage[s] # "idle"} IN
  /\ mScanPending <=> busy # {}
  /\ \A s, t \in busy : s = t
  /\ S!Running("query") => \E s \in busy : stage[s] = "query"

\* The list of networks shows every network of the map in exactly one row, and
\* no results are left over when no pipeline walks through them.
ListMirrorsMap ==
  /\ \A b \in Bssid : rows[b] = IF b \in mNetworkMap THEN 1 ELSE 0
  /\ \A s \in Scan : lines[s] # <<>> <=> stage[s] = "lines"

\* A network that shows Connecting or Disconnecting has the process that will
\* end that state, and so has a device that shows Disconnecting, unless a
\* refresh has failed since: whoever overwrites the state cannot leave a
\* spinner that nothing is going to stop.
TransientBacked ==
  /\ \A b \in Bssid :
       /\ netState[b] = "Connecting" => connecting[b] > 0
       /\ netState[b] = "Disconnecting" => disconnecting[b] > 0
  /\ bState = "Disconnecting" => downs > 0 \/ S!Running("refresh") \/ tainted

\* A network of a saved SSID that is listed as unknown is about to be marked:
\* its scan has not finished or the loader it starts is running; or the user
\* has forgotten it since.
KnownPending ==
  \A b \in mNetworkMap \cap Saved :
    known[b] \/ mScanPending \/ loaders > 0 \/ b \in forgotten

\* When no event, refresh, query or command is under way, the device shows the
\* status of the interface, and a network is shown as connected when the status
\* is up and it is the access point named beside it.  Exempt are networks whose
\* state a connect or disconnect process wrote last, which nobody checks
\* against the interface, and a device whose newest sample failed or was
\* collected before an older one.
SettledAgrees ==
  events = 0 /\ S!Idle /\ downs = 0 /\ ~tainted =>
    /\ bState = "Connected" <=> link.up
    /\ \A b \in mNetworkMap \ commanded : netState[b] = "Connected" <=> link.up /\ b = link.bssid

\* A scan ends, whatever its processes return: the lock is not held for ever.
ScanEnds == mScanPending ~> ~mScanPending

\* A device does not stay Disconnecting, unless the output it showed last,
\* before the disconnect or after it, had failed or was late.
DisconnectEnds == (bState = "Disconnecting") ~> (bState # "Disconnecting" \/ tainted)
=============================================================================
