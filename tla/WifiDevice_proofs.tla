------------------------- MODULE WifiDevice_proofs -------------------------
(***************************************************************************)
(* Proofs about the wireless device: one scan at a time, one row per        *)
(* network, known networks get marked, no transitional state is left        *)
(* without the process that ends it, and a settled device tells the truth;  *)
(* disconnects end, and scans get to their results.                         *)
(***************************************************************************)
EXTENDS WifiDevice, SequenceTheorems, TLAPS

-----------------------------------------------------------------------------
(* The sampler *)

(* A process that reads the kernel turns into an output of its kind.        *)
LEMMA ReadType ==
  ASSUME S!TypeOK, NEW k \in {"refresh", "query"}, NEW v \in Link \cup {Error}, S!Read(k, v)
  PROVE  S!TypeOK'
<1>1. asked' \in [{"refresh", "query"} -> Nat]
  BY DEF S!TypeOK, S!Read
<1>2. [kind |-> k, value |-> v, late |-> FALSE] \in S!Output
  BY DEF S!Output
<1>3. outputs' \in Seq(S!Output)
  BY <1>2 DEF S!TypeOK, S!Read
<1> QED
  BY <1>1, <1>3 DEF S!TypeOK

(* Collecting an output leaves the kinds of the others as they were.        *)
LEMMA CollectKinds ==
  ASSUME outputs \in Seq(S!Output), NEW n \in DOMAIN outputs, S!Collect(n)
  PROVE  /\ outputs' \in Seq(S!Output)
         /\ DOMAIN outputs' = 1 .. Len(outputs) - 1
         /\ \A j \in DOMAIN outputs' : outputs'[j].kind = outputs[IF j < n THEN j ELSE j + 1].kind
<1>1. Len(outputs) \in Nat /\ DOMAIN outputs = 1 .. Len(outputs) /\ Len(outputs) - 1 \in Nat
  OBVIOUS
<1>2. \A j \in 1 .. Len(outputs) - 1 : j \in DOMAIN outputs /\ j + 1 \in DOMAIN outputs
  BY <1>1
<1>3. ASSUME NEW j \in DOMAIN outputs
      PROVE  /\ outputs[j] \in S!Output
             /\ [outputs[j] EXCEPT !.late = TRUE] \in S!Output
             /\ [outputs[j] EXCEPT !.late = TRUE].kind = outputs[j].kind
  <2>1. outputs[j] \in S!Output
    BY ElementOfSeq, <1>1
  <2> QED
    BY <2>1 DEF S!Output
<1>4. outputs' \in [1 .. Len(outputs) - 1 -> S!Output]
  BY <1>2, <1>3 DEF S!Collect
<1>5. outputs' \in Seq(S!Output)
  BY <1>1, <1>4, SeqDef
<1>6. \A j \in DOMAIN outputs' : outputs'[j].kind = outputs[IF j < n THEN j ELSE j + 1].kind
  BY <1>2, <1>3, <1>4 DEF S!Collect
<1> QED
  BY <1>4, <1>5, <1>6

-----------------------------------------------------------------------------
(* A chunk of results, whatever its lines are: `seen` are the access points *)
(* it mentions and `rest` are the results that are left.                    *)
LEMMA ChunkEffect ==
  ASSUME NEW s \in Scan, NEW results \in Seq(Line), processScanLines(s, results)
  PROVE  \E seen \in SUBSET Bssid, rest \in Seq(Line) :
           /\ netState' = [b \in Bssid |-> IF b \in seen THEN Mark(b, mCurrentBssid, bState = "Connected")
                                          ELSE netState[b]]
           /\ mNetworkMap' = mNetworkMap \cup seen
           /\ ShowNew(seen)
           /\ commanded' = commanded \ seen
           /\ lines' = [lines EXCEPT ![s] = rest]
           /\ \/ /\ rest # <<>>
                 /\ stage' = [stage EXCEPT ![s] = "lines"]
                 /\ UNCHANGED <<mScanPending, loads>>
              \/ /\ rest = <<>>
                 /\ stage' = [stage EXCEPT ![s] = "idle"]
                 /\ mScanPending' = FALSE
                 /\ loadKnownNetworks
<1> DEFINE end  == IF Len(results) < ChunkSize THEN Len(results) ELSE ChunkSize
           seen == {results[k] : k \in 1 .. end} \ {NoBssid}
           rest == SubSeq(results, end + 1, Len(results))
<1>1. end \in Nat /\ end <= Len(results) /\ Len(results) \in Nat
  BY WifiAssumption DEF WifiAssumption
<1>2. seen \in SUBSET Bssid
  <2>1. \A k \in 1 .. end : results[k] \in Line
    BY <1>1, ElementOfSeq
  <2> QED
    BY <2>1 DEF Line
<1>3. rest \in Seq(Line)
  <2>1. \A i \in end + 1 .. Len(results) : results[i] \in Line
    BY <1>1, ElementOfSeq
  <2> QED
    BY <1>1, <2>1, SubSeqProperties
<1> QED
  BY <1>2, <1>3 DEF processScanLines

(* The results of a scan are a sequence.                                    *)
LEMMA ScanResultIsSeq == ScanResult \subseteq Seq(Line)
BY WifiAssumption, SeqDef DEF ScanResult, WifiAssumption

-----------------------------------------------------------------------------
(* Types *)

(* A new device has the types of its members.                               *)
LEMMA InitTypes == Init => TypeOK
<1> SUFFICES ASSUME Init PROVE TypeOK
  OBVIOUS
<1>1. S!TypeOK
  BY DEF Init, S!Init, S!TypeOK
<1>2. link \in Link /\ mCurrentBssid \in Line /\ bState \in DeviceState /\ tainted \in BOOLEAN
  BY DEF Init, Link, Line, DeviceState
<1>3. stage \in [Scan -> ScanStage] /\ lines \in [Scan -> Seq(Line)]
  BY DEF Init, ScanStage
<1>4. netState \in [Bssid -> NetworkState] /\ \A b \in Bssid : netState[b] = "Unknown"
  BY DEF Init, NetworkState
<1> QED
  BY <1>1, <1>2, <1>3, <1>4 DEF Init, TypeOK

(* A chunk of results keeps the types.                                      *)
LEMMA ChunkTypes ==
  ASSUME TypeOK, NEW s \in Scan, NEW results \in Seq(Line), processScanLines(s, results),
         UNCHANGED <<link, events, device, sampler, bScannerEnabled, known, commands, tainted, forgotten>>
  PROVE  TypeOK'
<1>1. PICK seen \in SUBSET Bssid, rest \in Seq(Line) :
           /\ netState' = [b \in Bssid |-> IF b \in seen THEN Mark(b, mCurrentBssid, bState = "Connected")
                                          ELSE netState[b]]
           /\ mNetworkMap' = mNetworkMap \cup seen
           /\ ShowNew(seen)
           /\ commanded' = commanded \ seen
           /\ lines' = [lines EXCEPT ![s] = rest]
           /\ \/ /\ stage' = [stage EXCEPT ![s] = "lines"]
                 /\ UNCHANGED <<mScanPending, loads>>
              \/ /\ stage' = [stage EXCEPT ![s] = "idle"]
                 /\ mScanPending' = FALSE
                 /\ loadKnownNetworks
  BY ChunkEffect
<1>2. stage' \in [Scan -> ScanStage] /\ mScanPending' \in BOOLEAN
  BY <1>1 DEF TypeOK, ScanStage
<1>3. loaders' \in Nat /\ wpaCli' \in Nat
  BY <1>1 DEF TypeOK, loads, loadKnownNetworks
<1>4. netState' \in [Bssid -> NetworkState] /\ \A b \in Bssid \ mNetworkMap' : netState'[b] = "Unknown"
  BY <1>1 DEF TypeOK, NetworkState, Mark
<1>5. rows' \in [Bssid -> Nat] /\ mNetworkMap' \in SUBSET Bssid /\ commanded' \in SUBSET Bssid
  BY <1>1 DEF TypeOK, ShowNew
<1>6. lines' \in [Scan -> Seq(Line)]
  BY <1>1 DEF TypeOK
<1>7. S!TypeOK'
  BY DEF TypeOK, S!TypeOK, sampler
<1> QED
  BY <1>2, <1>3, <1>4, <1>5, <1>6, <1>7 DEF TypeOK, device, commands

(* A process that is started keeps the types of the sampler.                *)
LEMMA AskTypes ==
  ASSUME S!TypeOK, NEW k \in {"refresh", "query"}, S!Ask(k)
  PROVE  S!TypeOK'
BY DEF S!TypeOK, S!Ask

(* An output that is collected keeps the types of the sampler.              *)
LEMMA CollectTypes ==
  ASSUME S!TypeOK, NEW n \in DOMAIN outputs, S!Collect(n), UNCHANGED asked
  PROVE  S!TypeOK'
BY CollectKinds DEF S!TypeOK

(* A command gives a state to a network of the map.                         *)
LEMMA WriteTypes ==
  ASSUME TypeOK, NEW b \in mNetworkMap, NEW state \in NetworkState, WriteState(b, state)
  PROVE  /\ netState' \in [Bssid -> NetworkState]
         /\ \A c \in Bssid \ mNetworkMap : netState'[c] = "Unknown"
         /\ commanded' \in SUBSET Bssid
BY DEF TypeOK, WriteState

(* Only networks of the map have commands; without this, the end of one     *)
(* could give a state to a network that does not exist.                     *)
CommandsListed == \A b \in Bssid \ mNetworkMap : connecting[b] = 0 /\ disconnecting[b] = 0

(* Every callback, process and user step keeps the types.                   *)
LEMMA StepTypes == TypeOK /\ CommandsListed /\ [Next]_vars => TypeOK'
<1> SUFFICES ASSUME TypeOK, CommandsListed, [Next]_vars PROVE TypeOK'
  OBVIOUS
<1> USE DEF device, pipeline, networks, commands, loads, history
<1>0. S!TypeOK
  BY DEF TypeOK
<1>1. CASE handleInterfaceEvent
  <2>1. S!TypeOK'
    BY <1>0, <1>1, AskTypes DEF handleInterfaceEvent, updateStateFromIfconfig
  <2> QED
    BY <1>1, <2>1 DEF TypeOK, handleInterfaceEvent
<1>2. CASE RefreshFinished
  <2>1. PICK n \in DOMAIN outputs :
          /\ S!Collect(n)
          /\ \/ outputs[n].value = Error /\ tainted' = TRUE /\ UNCHANGED <<device, netState, commanded>>
             \/ /\ outputs[n].value # Error /\ parseIfconfigOutput(outputs[n].value)
                /\ tainted' = outputs[n].late /\ commanded' = {}
    BY <1>2 DEF RefreshFinished
  <2>2. S!TypeOK'
    BY <1>0, <1>2, <2>1, CollectTypes DEF RefreshFinished
  <2>3. outputs[n] \in S!Output
    BY <1>0, ElementOfSeq DEF S!TypeOK
  <2>4. tainted' \in BOOLEAN /\ commanded' \in SUBSET Bssid /\ bState' \in DeviceState
        /\ mCurrentBssid' \in Line
    BY <2>1, <2>3 DEF TypeOK, S!Output, parseIfconfigOutput, Shows, Link, Line, DeviceState
  <2>5. netState' \in [Bssid -> NetworkState] /\ \A b \in Bssid \ mNetworkMap : netState'[b] = "Unknown"
    BY <2>1 DEF TypeOK, parseIfconfigOutput, Shows, NetworkState, Mark
  <2> QED
    BY <1>2, <2>2, <2>4, <2>5 DEF TypeOK, RefreshFinished
<1>3. CASE disconnect
  <2>1. S!TypeOK'
    BY <1>0, <1>3 DEF disconnect, sampler, S!TypeOK
  <2> QED
    BY <1>3, <2>1 DEF TypeOK, disconnect, DeviceState
<1>4. CASE DownFinished
  <2>1. S!TypeOK'
    BY <1>0, <1>4, AskTypes DEF DownFinished, updateStateFromIfconfig
  <2> QED
    BY <1>4, <2>1 DEF TypeOK, DownFinished
<1>5. ASSUME NEW enabled \in BOOLEAN, setScannerEnabled(enabled) PROVE TypeOK'
  <2>1. S!TypeOK'
    BY <1>0, <1>5, AskTypes DEF setScannerEnabled, triggerScan, sampler, S!TypeOK
  <2>2. stage' \in [Scan -> ScanStage] /\ lines' = lines /\ mScanPending' \in BOOLEAN
    BY <1>5 DEF TypeOK, setScannerEnabled, triggerScan, ScanStage
  <2> QED
    BY <1>5, <2>1, <2>2 DEF TypeOK, setScannerEnabled
<1>6. ASSUME NEW s \in Scan, QueryFinished(s) PROVE TypeOK'
  <2>1. PICK n \in DOMAIN outputs :
          /\ S!Collect(n)
          /\ IF outputs[n].value = Error THEN UNCHANGED <<mCurrentBssid, tainted>>
             ELSE mCurrentBssid' = outputs[n].value.bssid /\ tainted' = (tainted \/ outputs[n].late)
    BY <1>6 DEF QueryFinished
  <2>2. S!TypeOK'
    BY <1>0, <1>6, <2>1, CollectTypes DEF QueryFinished
  <2>3. outputs[n] \in S!Output
    BY <1>0, ElementOfSeq DEF S!TypeOK
  <2>4. tainted' \in BOOLEAN /\ mCurrentBssid' \in Line
    BY <2>1, <2>3 DEF TypeOK, S!Output, Link
  <2> QED
    BY <1>6, <2>2, <2>4 DEF TypeOK, QueryFinished, ScanStage
<1>7. ASSUME NEW s \in Scan, RequestFinished(s) \/ SettleTimeout(s) \/ ResultsFailed(s) PROVE TypeOK'
  <2>1. S!TypeOK'
    BY <1>0, <1>7 DEF RequestFinished, SettleTimeout, StageBecomes, ResultsFailed, sampler, S!TypeOK
  <2> QED
    BY <1>7, <2>1 DEF TypeOK, RequestFinished, SettleTimeout, StageBecomes, ResultsFailed, ScanStage
<1>8. ASSUME NEW s \in Scan, ResultsFinished(s) PROVE TypeOK'
  BY <1>8, ScanResultIsSeq, ChunkTypes DEF ResultsFinished
<1>9. ASSUME NEW s \in Scan, NextChunk(s) PROVE TypeOK'
  BY <1>9, ChunkTypes DEF NextChunk, TypeOK
<1>10. CASE LoaderFinished \/ WpaCliFinished
  <2>1. S!TypeOK'
    BY <1>0, <1>10 DEF LoaderFinished, WpaCliFinished, sampler, S!TypeOK
  <2>2. PICK names \in SUBSET Bssid : MarkKnown(names) /\ forgotten' = forgotten \ names
    BY <1>10, WifiAssumption DEF LoaderFinished, WpaCliFinished, WifiAssumption
  <2>3. known' \in [Bssid -> BOOLEAN]
    BY <2>2 DEF MarkKnown
  <2> QED
    BY <1>10, <2>1, <2>2, <2>3 DEF TypeOK, LoaderFinished, WpaCliFinished
<1>11. ASSUME NEW b \in Bssid, connect(b) \/ disconnectNetwork(b) PROVE TypeOK'
  <2>1. S!TypeOK'
    BY <1>0, <1>11 DEF connect, disconnectNetwork, sampler, S!TypeOK
  <2>2. b \in mNetworkMap /\ \E state \in NetworkState : WriteState(b, state)
    BY <1>11 DEF connect, disconnectNetwork, NetworkState
  <2>3. connecting' \in [Bssid -> Nat] /\ disconnecting' \in [Bssid -> Nat]
    BY <1>11 DEF TypeOK, connect, disconnectNetwork
  <2> QED
    BY <1>11, <2>1, <2>2, <2>3, WriteTypes DEF TypeOK, connect, disconnectNetwork
<1>12. ASSUME NEW b \in Bssid, NEW exitOk \in BOOLEAN, DisconnectFinished(b) \/ ConnectFinished(b, exitOk)
       PROVE TypeOK'
  <2>1. S!TypeOK'
    BY <1>0, <1>12 DEF DisconnectFinished, ConnectFinished, sampler, S!TypeOK
  <2>2. b \in mNetworkMap
    BY <1>12 DEF TypeOK, CommandsListed, DisconnectFinished, ConnectFinished
  <2>3. \E state \in {"Connected", "Disconnected"} : WriteState(b, state)
    <3>1. CASE DisconnectFinished(b)
      BY <3>1 DEF DisconnectFinished
    <3>2. CASE ConnectFinished(b, exitOk)
      <4>1. CASE exitOk
        BY <3>2, <4>1 DEF ConnectFinished
      <4>2. CASE ~exitOk
        BY <3>2, <4>2 DEF ConnectFinished
      <4> QED
        BY <4>1, <4>2
    <3> QED
      BY <1>12, <3>1, <3>2
  <2>4. connecting' \in [Bssid -> Nat] /\ disconnecting' \in [Bssid -> Nat]
    <3>1. connecting[b] - 1 \in Nat \/ connecting' = connecting
      BY <1>12 DEF TypeOK, DisconnectFinished, ConnectFinished
    <3>2. disconnecting[b] - 1 \in Nat \/ disconnecting' = disconnecting
      BY <1>12 DEF TypeOK, DisconnectFinished, ConnectFinished
    <3> QED
      BY <1>12, <3>1, <3>2 DEF TypeOK, DisconnectFinished, ConnectFinished
  <2> QED
    BY <1>12, <2>1, <2>2, <2>3, <2>4, WriteTypes DEF TypeOK, NetworkState, DisconnectFinished, ConnectFinished
<1>16. ASSUME NEW b \in Bssid, forget(b) PROVE TypeOK'
  <2>1. S!TypeOK'
    BY <1>0, <1>16 DEF forget, sampler, S!TypeOK
  <2>2. known' \in [Bssid -> BOOLEAN]
    BY <1>16 DEF TypeOK, forget
  <2> QED
    BY <1>16, <2>1, <2>2 DEF TypeOK, forget
<1>13. CASE LinkChange
  <2>1. S!TypeOK'
    BY <1>0, <1>13 DEF LinkChange, sampler, S!TypeOK
  <2> QED
    BY <1>13, <2>1 DEF TypeOK, LinkChange
<1>14. ASSUME NEW k \in {"refresh", "query"}, ProcessReads(k) PROVE TypeOK'
  <2>1. S!TypeOK'
    BY <1>0, <1>14, ReadType DEF ProcessReads, TypeOK
  <2> QED
    BY <1>14, <2>1 DEF TypeOK, ProcessReads
<1>15. CASE UNCHANGED vars
  BY <1>15 DEF vars, TypeOK, S!TypeOK
<1> QED
  BY <1>1, <1>2, <1>3, <1>4, <1>5, <1>6, <1>7, <1>8, <1>9, <1>10, <1>11, <1>12, <1>13, <1>14, <1>15, <1>16
  DEF Next, ProcessEnds, User, ScanStep

(* A command is only started for a network of the map, which never shrinks. *)
LEMMA StepCommands == TypeOK /\ CommandsListed /\ [Next]_vars => CommandsListed'
<1> SUFFICES ASSUME TypeOK, CommandsListed, [Next]_vars PROVE CommandsListed'
  OBVIOUS
<1>1. ASSUME NEW b \in Bssid, connect(b) \/ disconnectNetwork(b) PROVE CommandsListed'
  BY <1>1 DEF TypeOK, CommandsListed, connect, disconnectNetwork
<1>2. ASSUME NEW b \in Bssid, NEW exitOk \in BOOLEAN, DisconnectFinished(b) \/ ConnectFinished(b, exitOk)
      PROVE  CommandsListed'
  BY <1>2 DEF TypeOK, CommandsListed, DisconnectFinished, ConnectFinished
<1>3. ASSUME mNetworkMap \subseteq mNetworkMap', UNCHANGED <<connecting, disconnecting>>
      PROVE  CommandsListed'
  BY <1>3 DEF CommandsListed
<1>4. ASSUME NEW s \in Scan, NEW results, processScanLines(s, results)
      PROVE  mNetworkMap \subseteq mNetworkMap'
  BY <1>4 DEF processScanLines
<1>5. ASSUME NEW s \in Scan, ScanStep(s) PROVE CommandsListed'
  <2>1. mNetworkMap \subseteq mNetworkMap'
    BY <1>4, <1>5 DEF ScanStep, QueryFinished, RequestFinished, SettleTimeout, StageBecomes,
                      ResultsFinished, ResultsFailed, NextChunk, networks
  <2>2. UNCHANGED <<connecting, disconnecting>>
    BY <1>5 DEF ScanStep, QueryFinished, RequestFinished, SettleTimeout, StageBecomes,
                ResultsFinished, ResultsFailed, NextChunk, commands
  <2> QED
    BY <1>3, <2>1, <2>2
<1>6. CASE handleInterfaceEvent \/ RefreshFinished \/ disconnect \/ DownFinished \/ LinkChange
           \/ LoaderFinished \/ WpaCliFinished \/ UNCHANGED vars
  BY <1>3, <1>6 DEF handleInterfaceEvent, RefreshFinished, disconnect, DownFinished, LinkChange,
                    LoaderFinished, WpaCliFinished, vars, commands, networks
<1>7. ASSUME NEW enabled \in BOOLEAN, setScannerEnabled(enabled) PROVE CommandsListed'
  BY <1>3, <1>7 DEF setScannerEnabled, commands, networks
<1>8. ASSUME NEW b \in Bssid, forget(b) PROVE CommandsListed'
  BY <1>3, <1>8 DEF forget, commands
<1>9. ASSUME NEW k \in {"refresh", "query"}, ProcessReads(k) PROVE CommandsListed'
  BY <1>3, <1>9 DEF ProcessReads, commands, networks
<1> QED
  BY <1>1, <1>2, <1>5, <1>6, <1>7, <1>8, <1>9 DEF Next, ProcessEnds, User

-----------------------------------------------------------------------------
(* The list and the map *)

(* Rows change with the map only, and lines with the stage of a pipeline.   *)
LEMMA StepList == TypeOK /\ ListMirrorsMap /\ [Next]_vars => ListMirrorsMap'
<1> SUFFICES ASSUME TypeOK, ListMirrorsMap, [Next]_vars PROVE ListMirrorsMap'
  OBVIOUS
<1>1. ASSUME NEW s \in Scan, NEW results \in Seq(Line), processScanLines(s, results)
      PROVE  ListMirrorsMap'
  <2>1. PICK seen \in SUBSET Bssid, rest \in Seq(Line) :
           /\ mNetworkMap' = mNetworkMap \cup seen
           /\ ShowNew(seen)
           /\ lines' = [lines EXCEPT ![s] = rest]
           /\ \/ rest # <<>> /\ stage' = [stage EXCEPT ![s] = "lines"]
              \/ rest = <<>> /\ stage' = [stage EXCEPT ![s] = "idle"]
    BY <1>1, ChunkEffect
  <2>2. \A b \in Bssid : rows'[b] = IF b \in mNetworkMap' THEN 1 ELSE 0
    BY <2>1 DEF TypeOK, ListMirrorsMap, ShowNew
  <2>3. \A t \in Scan : lines'[t] # <<>> <=> stage'[t] = "lines"
    BY <2>1 DEF TypeOK, ListMirrorsMap
  <2> QED
    BY <2>2, <2>3 DEF ListMirrorsMap
<1>2. ASSUME NEW s \in Scan, ScanStep(s) PROVE ListMirrorsMap'
  <2>1. CASE ResultsFinished(s)
    BY <1>1, <2>1, ScanResultIsSeq DEF ResultsFinished
  <2>2. CASE NextChunk(s)
    BY <1>1, <2>2 DEF NextChunk, TypeOK
  <2>3. CASE QueryFinished(s) \/ RequestFinished(s) \/ SettleTimeout(s) \/ ResultsFailed(s)
    BY <2>3 DEF TypeOK, ListMirrorsMap, QueryFinished, RequestFinished, SettleTimeout, StageBecomes,
                ResultsFailed, networks
  <2> QED
    BY <1>2, <2>1, <2>2, <2>3 DEF ScanStep
<1>3. ASSUME NEW enabled \in BOOLEAN, setScannerEnabled(enabled) PROVE ListMirrorsMap'
  BY <1>3 DEF TypeOK, ListMirrorsMap, setScannerEnabled, triggerScan, pipeline, networks
<1>4. ASSUME UNCHANGED <<rows, mNetworkMap, lines, stage>> PROVE ListMirrorsMap'
  BY <1>4 DEF ListMirrorsMap
<1>5. CASE handleInterfaceEvent \/ RefreshFinished \/ disconnect \/ DownFinished \/ LinkChange
           \/ LoaderFinished \/ WpaCliFinished \/ UNCHANGED vars
  BY <1>4, <1>5 DEF handleInterfaceEvent, RefreshFinished, disconnect, DownFinished, LinkChange,
                    LoaderFinished, WpaCliFinished, vars, pipeline, networks
<1>6. ASSUME NEW b \in Bssid, NEW exitOk \in BOOLEAN,
             connect(b) \/ disconnectNetwork(b) \/ forget(b) \/ DisconnectFinished(b) \/ ConnectFinished(b, exitOk)
      PROVE  ListMirrorsMap'
  BY <1>4, <1>6 DEF connect, disconnectNetwork, forget, DisconnectFinished, ConnectFinished, pipeline
<1>7. ASSUME NEW k \in {"refresh", "query"}, ProcessReads(k) PROVE ListMirrorsMap'
  BY <1>4, <1>7 DEF ProcessReads, pipeline, networks
<1> QED
  BY <1>2, <1>3, <1>5, <1>6, <1>7 DEF Next, ProcessEnds, User

-----------------------------------------------------------------------------
(* The scan lock.  ScanLock alone is not inductive: a second query process  *)
(* would outlive the step that collects the first.                          *)
QueryOnce ==
  /\ asked["query"] <= 1
  /\ asked["query"] = 1 => \A n \in DOMAIN outputs : outputs[n].kind # "query"
  /\ \A m, n \in DOMAIN outputs : outputs[m].kind = "query" /\ outputs[n].kind = "query" => m = n

ScanInv == ScanLock /\ QueryOnce

(* A step that touches neither lock nor pipeline and brings no new query    *)
(* process keeps the invariant.                                             *)
LEMMA ScanFrame ==
  ASSUME ScanInv, UNCHANGED <<mScanPending, stage, outputs>>, asked'["query"] = asked["query"]
  PROVE  ScanInv'
BY DEF ScanInv, ScanLock, QueryOnce, S!Running

(* The pipelines move among their steps after the query.                    *)
LEMMA LaterStep ==
  ASSUME TypeOK, ScanInv, NEW s \in Scan, stage[s] \in {"request", "settle", "results", "lines"},
         NEW to \in {"settle", "results", "lines", "idle"}, stage' = [stage EXCEPT ![s] = to],
         mScanPending' = IF to = "idle" THEN FALSE ELSE mScanPending, UNCHANGED sampler
  PROVE  ScanInv'
<1>1. mScanPending = TRUE /\ \A t \in Scan \ {s} : stage[t] = "idle"
  BY DEF TypeOK, ScanInv, ScanLock
<1>2. stage'[s] = to /\ \A t \in Scan \ {s} : stage'[t] = "idle"
  BY <1>1 DEF TypeOK
<1>3. ~S!Running("query")
  BY <1>1 DEF ScanInv, ScanLock
<1>4. ~S!Running("query")' /\ QueryOnce'
  BY <1>3 DEF S!Running, sampler, ScanInv, QueryOnce
<1>5. ScanLock'
  BY <1>1, <1>2, <1>4 DEF ScanLock, S!Running
<1> QED
  BY <1>4, <1>5 DEF ScanInv

(* Collecting a refresh takes no query process away and adds none.          *)
LEMMA RefreshCollected ==
  ASSUME TypeOK, ScanInv, NEW n \in DOMAIN outputs, outputs[n].kind = "refresh", S!Collect(n),
         UNCHANGED <<mScanPending, stage, asked>>
  PROVE  ScanInv'
<1>1. /\ DOMAIN outputs' = 1 .. Len(outputs) - 1
      /\ \A j \in DOMAIN outputs' : outputs'[j].kind = outputs[IF j < n THEN j ELSE j + 1].kind
  BY CollectKinds DEF TypeOK, S!TypeOK
<1>2. DOMAIN outputs = 1 .. Len(outputs) /\ Len(outputs) \in Nat /\ n \in Nat
  BY DEF TypeOK, S!TypeOK
<1>3. \A j \in DOMAIN outputs' : (IF j < n THEN j ELSE j + 1) \in DOMAIN outputs
  BY <1>1, <1>2
<1>4. QueryOnce'
  BY <1>1, <1>2, <1>3 DEF ScanInv, QueryOnce
<1>5. S!Running("query")' => S!Running("query")
  BY <1>1, <1>3 DEF S!Running
<1>6. ScanLock'
  BY <1>5 DEF ScanInv, ScanLock
<1> QED
  BY <1>4, <1>6 DEF ScanInv

(* The query of a pipeline is collected: there was only that one.           *)
LEMMA QueryCollected ==
  ASSUME TypeOK, ScanInv, NEW s \in Scan, QueryFinished(s)
  PROVE  ScanInv'
<1>1. PICK n \in DOMAIN outputs : outputs[n].kind = "query" /\ S!Collect(n)
  BY DEF QueryFinished
<1>2. /\ DOMAIN outputs' = 1 .. Len(outputs) - 1
      /\ \A j \in DOMAIN outputs' : outputs'[j].kind = outputs[IF j < n THEN j ELSE j + 1].kind
  BY <1>1, CollectKinds DEF TypeOK, S!TypeOK
<1>3. DOMAIN outputs = 1 .. Len(outputs) /\ Len(outputs) \in Nat /\ n \in Nat
  BY DEF TypeOK, S!TypeOK
<1>4. \A j \in DOMAIN outputs' : outputs'[j].kind # "query"
  <2>1. \A j \in DOMAIN outputs' : /\ (IF j < n THEN j ELSE j + 1) \in DOMAIN outputs
                                   /\ (IF j < n THEN j ELSE j + 1) # n
    BY <1>2, <1>3
  <2> QED
    BY <1>1, <1>2, <2>1 DEF ScanInv, QueryOnce
<1>5. asked["query"] = 0 /\ asked' = asked
  BY <1>1 DEF TypeOK, S!TypeOK, ScanInv, QueryOnce, QueryFinished
<1>6. QueryOnce' /\ ~S!Running("query")'
  BY <1>4, <1>5 DEF QueryOnce, S!Running
<1>7. mScanPending = TRUE /\ \A t \in Scan \ {s} : stage[t] = "idle"
  BY DEF TypeOK, ScanInv, ScanLock, QueryFinished
<1>8. mScanPending' = TRUE /\ stage'[s] = "request" /\ \A t \in Scan \ {s} : stage'[t] = "idle"
  BY <1>7 DEF TypeOK, QueryFinished
<1>9. ScanLock'
  BY <1>6, <1>8 DEF ScanLock
<1> QED
  BY <1>6, <1>9 DEF ScanInv

(* A scan that is triggered while none is under way takes the lock and has  *)
(* the only query process.                                                  *)
LEMMA ScanTriggered ==
  ASSUME TypeOK, ScanInv, triggerScan
  PROVE  ScanInv'
<1>1. CASE mScanPending
  BY <1>1, ScanFrame DEF triggerScan, pipeline, sampler
<1>2. CASE ~mScanPending
  <2>1. PICK s \in Scan : stage' = [stage EXCEPT ![s] = "query"]
    BY <1>2 DEF triggerScan
  <2>2. mScanPending' = TRUE /\ S!Ask("query")
    BY <1>2 DEF triggerScan
  <2>3. \A t \in Scan : stage[t] = "idle"
    BY <1>2 DEF ScanInv, ScanLock
  <2>4. ~S!Running("query")
    BY <2>3 DEF ScanInv, ScanLock
  <2>5. asked["query"] = 0 /\ asked'["query"] = 1 /\ outputs' = outputs
    BY <2>2, <2>4 DEF TypeOK, S!TypeOK, S!Ask, S!Running
  <2>6. QueryOnce'
    BY <2>4, <2>5 DEF QueryOnce, S!Running
  <2>7. stage'[s] = "query" /\ \A t \in Scan \ {s} : stage'[t] = "idle"
    BY <2>1, <2>3 DEF TypeOK
  <2>8. ScanLock'
    BY <2>2, <2>7 DEF ScanLock
  <2> QED
    BY <2>6, <2>8 DEF ScanInv
<1> QED
  BY <1>1, <1>2

(* A process reads the kernel: its reading becomes an output.               *)
LEMMA ReadKeepsScan ==
  ASSUME TypeOK, ScanInv, NEW k \in {"refresh", "query"}, ProcessReads(k)
  PROVE  ScanInv'
<1>1. PICK v \in Link \cup {Error} : S!Read(k, v)
  BY DEF ProcessReads, TypeOK
<1> DEFINE new == [kind |-> k, value |-> v, late |-> FALSE]
<1>2. asked[k] > 0 /\ asked' = [asked EXCEPT ![k] = @ - 1] /\ outputs' = Append(outputs, new)
  BY <1>1 DEF S!Read
<1>3. outputs \in Seq(S!Output) /\ new \in S!Output /\ asked \in [{"refresh", "query"} -> Nat]
  BY DEF TypeOK, S!TypeOK, S!Output
<1>4. /\ DOMAIN outputs' = 1 .. Len(outputs) + 1 /\ DOMAIN outputs = 1 .. Len(outputs) /\ Len(outputs) \in Nat
      /\ \A j \in 1 .. Len(outputs) : outputs'[j] = outputs[j]
      /\ outputs'[Len(outputs) + 1].kind = k
  <2>1. outputs'[Len(outputs) + 1] = new
    BY <1>2, <1>3, AppendProperties
  <2> QED
    BY <1>2, <1>3, <2>1, AppendProperties
<1>5. S!Running("query")' => S!Running("query")
  BY <1>2, <1>3, <1>4 DEF S!Running
<1>6. ScanLock'
  BY <1>5 DEF ScanInv, ScanLock, ProcessReads, pipeline
<1>7. QueryOnce'
  BY <1>2, <1>3, <1>4 DEF ScanInv, QueryOnce
<1> QED
  BY <1>6, <1>7 DEF ScanInv

(* Every step keeps the scan lock.                                          *)
LEMMA StepScan == TypeOK /\ ScanInv /\ [Next]_vars => ScanInv'
<1> SUFFICES ASSUME TypeOK, ScanInv, [Next]_vars PROVE ScanInv'
  OBVIOUS
<1>1. ASSUME NEW s \in Scan, NEW results \in Seq(Line), processScanLines(s, results),
             stage[s] \in {"results", "lines"}, UNCHANGED sampler
      PROVE  ScanInv'
  <2>1. \/ stage' = [stage EXCEPT ![s] = "lines"] /\ UNCHANGED mScanPending
        \/ stage' = [stage EXCEPT ![s] = "idle"] /\ mScanPending' = FALSE
    BY <1>1 DEF processScanLines
  <2> QED
    BY <1>1, <2>1, LaterStep
<1>2. ASSUME NEW s \in Scan, ScanStep(s) PROVE ScanInv'
  <2>1. CASE QueryFinished(s)
    BY <2>1, QueryCollected
  <2>2. CASE RequestFinished(s) \/ SettleTimeout(s)
    BY <2>2, LaterStep DEF RequestFinished, SettleTimeout, StageBecomes
  <2>3. CASE ResultsFinished(s)
    BY <1>1, <2>3, ScanResultIsSeq DEF ResultsFinished
  <2>4. CASE ResultsFailed(s)
    BY <2>4, LaterStep DEF ResultsFailed
  <2>5. CASE NextChunk(s)
    BY <1>1, <2>5 DEF NextChunk, TypeOK
  <2> QED
    BY <1>2, <2>1, <2>2, <2>3, <2>4, <2>5 DEF ScanStep
<1>3. CASE RefreshFinished
  BY <1>3, RefreshCollected DEF RefreshFinished, pipeline
<1>4. ASSUME NEW enabled \in BOOLEAN, setScannerEnabled(enabled) PROVE ScanInv'
  BY <1>4, ScanTriggered, ScanFrame DEF setScannerEnabled, pipeline, sampler
<1>5. ASSUME NEW k \in {"refresh", "query"}, ProcessReads(k) PROVE ScanInv'
  BY <1>5, ReadKeepsScan
<1>6. CASE handleInterfaceEvent \/ DownFinished
  BY <1>6, ScanFrame DEF handleInterfaceEvent, DownFinished, updateStateFromIfconfig, S!Ask, pipeline,
                         TypeOK, S!TypeOK
<1>7. CASE disconnect \/ LinkChange \/ LoaderFinished \/ WpaCliFinished \/ UNCHANGED vars
  BY <1>7, ScanFrame DEF disconnect, LinkChange, LoaderFinished, WpaCliFinished, vars, pipeline, sampler
<1>8. ASSUME NEW b \in Bssid, NEW exitOk \in BOOLEAN,
             connect(b) \/ disconnectNetwork(b) \/ forget(b) \/ DisconnectFinished(b) \/ ConnectFinished(b, exitOk)
      PROVE  ScanInv'
  BY <1>8, ScanFrame DEF connect, disconnectNetwork, forget, DisconnectFinished, ConnectFinished,
                         pipeline, sampler
<1> QED
  BY <1>2, <1>3, <1>4, <1>5, <1>6, <1>7, <1>8 DEF Next, ProcessEnds, User

-----------------------------------------------------------------------------
(* Known networks.  mScanPending is too weak a reason to expect that a      *)
(* network will be marked, because a scan whose last step fails clears it   *)
(* and starts no loader.  The walk through the results always starts one.   *)
LoadIsComing ==
  \A b \in mNetworkMap \cap Saved :
    known[b] \/ loaders > 0 \/ b \in forgotten \/ \E s \in Scan : stage[s] = "lines"

(* Every step keeps the promise that a saved network gets marked.           *)
LEMMA StepKnown == TypeOK /\ LoadIsComing /\ [Next]_vars => LoadIsComing'
<1> SUFFICES ASSUME TypeOK, LoadIsComing, [Next]_vars PROVE LoadIsComing'
  OBVIOUS
<1>1. ASSUME NEW s \in Scan, NEW results, processScanLines(s, results) PROVE LoadIsComing'
  <2>1. CASE stage' = [stage EXCEPT ![s] = "lines"]
    BY <2>1 DEF TypeOK, LoadIsComing
  <2>2. CASE loadKnownNetworks
    BY <2>2 DEF TypeOK, LoadIsComing, loadKnownNetworks
  <2> QED
    BY <1>1, <2>1, <2>2 DEF processScanLines
<1>2. ASSUME UNCHANGED <<mNetworkMap, known, loaders, forgotten>>,
             \A s \in Scan : stage[s] = "lines" => stage'[s] = "lines"
      PROVE  LoadIsComing'
  BY <1>2 DEF LoadIsComing
<1>3. ASSUME NEW s \in Scan, ScanStep(s) PROVE LoadIsComing'
  <2>1. CASE ResultsFinished(s) \/ NextChunk(s)
    BY <1>1, <2>1 DEF ResultsFinished, NextChunk
  <2>2. CASE QueryFinished(s) \/ RequestFinished(s) \/ SettleTimeout(s) \/ ResultsFailed(s)
    BY <1>2, <2>2 DEF TypeOK, QueryFinished, RequestFinished, SettleTimeout, StageBecomes, ResultsFailed,
                      networks, loads, history
  <2> QED
    BY <1>3, <2>1, <2>2 DEF ScanStep
<1>4. ASSUME NEW enabled \in BOOLEAN, setScannerEnabled(enabled) PROVE LoadIsComing'
  BY <1>2, <1>4 DEF TypeOK, setScannerEnabled, triggerScan, pipeline, networks, loads, history
<1>5. CASE LoaderFinished
  <2>1. \A b \in mNetworkMap \cap Saved : known'[b]
    BY <1>5 DEF TypeOK, LoaderFinished, MarkKnown
  <2>2. mNetworkMap' = mNetworkMap
    BY <1>5 DEF LoaderFinished
  <2> QED
    BY <2>1, <2>2 DEF LoadIsComing
<1>6. CASE WpaCliFinished
  <2>1. PICK names \in {{}, Saved} : MarkKnown(names) /\ forgotten' = forgotten \ names
    BY <1>6 DEF WpaCliFinished
  <2>2. \A b \in mNetworkMap \cap Saved : (known[b] => known'[b]) /\ (b \in forgotten => known'[b] \/ b \in forgotten')
    BY <2>1 DEF MarkKnown, TypeOK
  <2> QED
    BY <1>6, <2>2 DEF LoadIsComing, WpaCliFinished, pipeline
<1>7. ASSUME NEW b \in Bssid, forget(b) PROVE LoadIsComing'
  <2>1. forgotten' = forgotten \cup {b} /\ \A c \in Bssid \ {b} : known'[c] = known[c]
    BY <1>7 DEF TypeOK, forget
  <2>2. UNCHANGED <<mNetworkMap, loaders, stage>>
    BY <1>7 DEF forget, pipeline, loads
  <2>3. mNetworkMap \subseteq Bssid
    BY DEF TypeOK
  <2> QED
    BY <2>1, <2>2, <2>3 DEF LoadIsComing
<1>8. ASSUME NEW b \in Bssid, NEW exitOk \in BOOLEAN,
             connect(b) \/ disconnectNetwork(b) \/ DisconnectFinished(b) \/ ConnectFinished(b, exitOk)
      PROVE  LoadIsComing'
  BY <1>2, <1>8 DEF connect, disconnectNetwork, DisconnectFinished, ConnectFinished, pipeline, loads
<1>9. CASE handleInterfaceEvent \/ RefreshFinished \/ disconnect \/ DownFinished \/ LinkChange \/ UNCHANGED vars
  BY <1>2, <1>9 DEF handleInterfaceEvent, RefreshFinished, disconnect, DownFinished, LinkChange, vars,
                    pipeline, networks, loads, history
<1>10. ASSUME NEW k \in {"refresh", "query"}, ProcessReads(k) PROVE LoadIsComing'
  BY <1>2, <1>10 DEF ProcessReads, pipeline, networks, loads, history
<1> QED
  BY <1>3, <1>4, <1>5, <1>6, <1>7, <1>8, <1>9, <1>10 DEF Next, ProcessEnds, User

-----------------------------------------------------------------------------
(* Transitional states *)

(* The two halves of TransientBacked, for one network and for the device.   *)
NetworkBacked(b) ==
  /\ netState[b] = "Connecting" => connecting[b] > 0
  /\ netState[b] = "Disconnecting" => disconnecting[b] > 0

DeviceBacked == bState = "Disconnecting" => downs > 0 \/ S!Running("refresh") \/ tainted

(* Refreshes and chunks write settled states only, and so does a command     *)
(* that has ended; one that starts is the process its state waits for.      *)
LEMMA StepNetworks ==
  TypeOK /\ (\A b \in Bssid : NetworkBacked(b)) /\ [Next]_vars => \A b \in Bssid : NetworkBacked(b)'
<1> SUFFICES ASSUME TypeOK, \A b \in Bssid : NetworkBacked(b), [Next]_vars, NEW b \in Bssid
             PROVE  NetworkBacked(b)'
  OBVIOUS
<1>1. ASSUME UNCHANGED <<connecting, disconnecting>>,
             netState'[b] \in {netState[b], "Connected", "Disconnected"}
      PROVE  NetworkBacked(b)'
  BY <1>1 DEF NetworkBacked
<1>2. CASE RefreshFinished
  <2>1. netState' = netState \/ \E o : parseIfconfigOutput(o)
    BY <1>2 DEF RefreshFinished
  <2>2. netState'[b] \in {netState[b], "Connected", "Disconnected"}
    BY <2>1 DEF parseIfconfigOutput, Shows, Mark
  <2> QED
    BY <1>1, <1>2, <2>2 DEF RefreshFinished, commands
<1>3. ASSUME NEW s \in Scan, ScanStep(s) PROVE NetworkBacked(b)'
  <2>1. CASE ResultsFinished(s) \/ NextChunk(s)
    <3>1. \E results : processScanLines(s, results)
      BY <2>1 DEF ResultsFinished, NextChunk
    <3>2. netState'[b] \in {netState[b], "Connected", "Disconnected"}
      BY <3>1 DEF processScanLines, Mark
    <3> QED
      BY <1>1, <2>1, <3>2 DEF ResultsFinished, NextChunk, commands
  <2>2. CASE QueryFinished(s) \/ RequestFinished(s) \/ SettleTimeout(s) \/ ResultsFailed(s)
    BY <1>1, <2>2 DEF QueryFinished, RequestFinished, SettleTimeout, StageBecomes, ResultsFailed,
                      networks, commands
  <2> QED
    BY <1>3, <2>1, <2>2 DEF ScanStep
<1>4. ASSUME NEW c \in Bssid, connect(c) \/ disconnectNetwork(c) PROVE NetworkBacked(b)'
  <2>1. CASE b = c
    BY <1>4, <2>1 DEF TypeOK, NetworkBacked, connect, disconnectNetwork, WriteState
  <2>2. CASE b # c
    BY <1>4, <2>2 DEF TypeOK, NetworkBacked, connect, disconnectNetwork, WriteState
  <2> QED
    BY <2>1, <2>2
<1>5. ASSUME NEW c \in Bssid, NEW exitOk \in BOOLEAN, DisconnectFinished(c) \/ ConnectFinished(c, exitOk)
      PROVE  NetworkBacked(b)'
  <2>1. netState' = [netState EXCEPT ![c] = "Connected"] \/ netState' = [netState EXCEPT ![c] = "Disconnected"]
    BY <1>5 DEF DisconnectFinished, ConnectFinished, WriteState
  <2>2. CASE b = c
    BY <2>1, <2>2 DEF TypeOK, NetworkBacked
  <2>3. CASE b # c
    BY <1>5, <2>1, <2>3 DEF TypeOK, NetworkBacked, DisconnectFinished, ConnectFinished
  <2> QED
    BY <2>2, <2>3
<1>6. CASE handleInterfaceEvent \/ disconnect \/ DownFinished \/ LinkChange \/ LoaderFinished
           \/ WpaCliFinished \/ UNCHANGED vars
  BY <1>1, <1>6 DEF handleInterfaceEvent, disconnect, DownFinished, LinkChange, LoaderFinished,
                    WpaCliFinished, vars, networks, commands
<1>7. ASSUME NEW enabled \in BOOLEAN, setScannerEnabled(enabled) PROVE NetworkBacked(b)'
  BY <1>1, <1>7 DEF setScannerEnabled, networks, commands
<1>8. ASSUME NEW c \in Bssid, forget(c) PROVE NetworkBacked(b)'
  BY <1>1, <1>8 DEF forget, commands
<1>9. ASSUME NEW k \in {"refresh", "query"}, ProcessReads(k) PROVE NetworkBacked(b)'
  BY <1>1, <1>9 DEF ProcessReads, networks, commands
<1> QED
  BY <1>2, <1>3, <1>4, <1>5, <1>6, <1>7, <1>8, <1>9 DEF Next, ProcessEnds, User

(* A refresh goes on running until it is collected itself.                  *)
LEMMA RefreshRuns ==
  ASSUME TypeOK, S!Running("refresh"),
         \/ sampler' = sampler
         \/ \E k \in {"refresh", "query"} : S!Ask(k) \/ \E v \in Link \cup {Error} : S!Read(k, v)
         \/ UNCHANGED asked /\ \E n \in DOMAIN outputs : outputs[n].kind = "query" /\ S!Collect(n)
  PROVE  S!Running("refresh")'
<1>1. asked \in [{"refresh", "query"} -> Nat] /\ outputs \in Seq(S!Output)
  BY DEF TypeOK, S!TypeOK
<1>2. DOMAIN outputs = 1 .. Len(outputs) /\ Len(outputs) \in Nat
  BY <1>1
<1>3. CASE sampler' = sampler
  BY <1>3 DEF S!Running, sampler
<1>4. ASSUME NEW k \in {"refresh", "query"}, S!Ask(k) PROVE S!Running("refresh")'
  BY <1>1, <1>4 DEF S!Running, S!Ask
<1>5. ASSUME NEW k \in {"refresh", "query"}, NEW v \in Link \cup {Error}, S!Read(k, v)
      PROVE  S!Running("refresh")'
  <2> DEFINE new == [kind |-> k, value |-> v, late |-> FALSE]
  <2>1. new \in S!Output /\ outputs' = Append(outputs, new)
    BY <1>5 DEF S!Output, S!Read
  <2>2. /\ DOMAIN outputs' = 1 .. Len(outputs) + 1
        /\ \A j \in DOMAIN outputs : j \in DOMAIN outputs' /\ outputs'[j] = outputs[j]
        /\ outputs'[Len(outputs) + 1] = new
    BY <1>1, <1>2, <2>1, AppendProperties
  <2>3. CASE k = "refresh"
    BY <1>2, <2>2, <2>3 DEF S!Running
  <2>4. CASE k = "query"
    BY <1>1, <1>5, <2>2, <2>4 DEF S!Running, S!Read
  <2> QED
    BY <2>3, <2>4
<1>6. ASSUME UNCHANGED asked, NEW n \in DOMAIN outputs, outputs[n].kind = "query", S!Collect(n)
      PROVE  S!Running("refresh")'
  <2>1. /\ DOMAIN outputs' = 1 .. Len(outputs) - 1
        /\ \A j \in DOMAIN outputs' : outputs'[j].kind = outputs[IF j < n THEN j ELSE j + 1].kind
    BY <1>1, <1>6, CollectKinds
  <2>2. CASE asked["refresh"] > 0
    BY <1>6, <2>2 DEF S!Running
  <2>3. ASSUME NEW m \in DOMAIN outputs, outputs[m].kind = "refresh" PROVE S!Running("refresh")'
    <3> DEFINE j == IF m < n THEN m ELSE m - 1
    <3>1. j \in DOMAIN outputs' /\ m = IF j < n THEN j ELSE j + 1
      BY <1>2, <1>6, <2>1, <2>3
    <3>2. outputs'[j].kind = "refresh"
      BY <2>1, <2>3, <3>1
    <3> QED
      BY <3>1, <3>2 DEF S!Running
  <2> QED
    BY <2>2, <2>3 DEF S!Running
<1> QED
  BY <1>3, <1>4, <1>5, <1>6

(* A down process that ends hands over to a refresh, and a refresh gives the *)
(* device a settled state or fails.                                         *)
LEMMA StepDevice == TypeOK /\ DeviceBacked /\ [Next]_vars => DeviceBacked'
<1> SUFFICES ASSUME TypeOK, DeviceBacked, [Next]_vars PROVE DeviceBacked'
  OBVIOUS
<1>1. ASSUME UNCHANGED <<bState, downs>>, tainted => tainted',
             S!Running("refresh") => S!Running("refresh")'
      PROVE  DeviceBacked'
  BY <1>1 DEF DeviceBacked
<1>2. CASE RefreshFinished
  <2>1. tainted' = TRUE \/ \E o : parseIfconfigOutput(o)
    BY <1>2 DEF RefreshFinished
  <2>2. tainted' = TRUE \/ bState' # "Disconnecting"
    BY <2>1 DEF parseIfconfigOutput, Shows
  <2> QED
    BY <2>2 DEF DeviceBacked
<1>3. CASE disconnect
  BY <1>3 DEF TypeOK, DeviceBacked, disconnect
<1>4. CASE DownFinished
  <2>1. S!Running("refresh")'
    BY <1>4 DEF TypeOK, S!TypeOK, DownFinished, updateStateFromIfconfig, S!Ask, S!Running
  <2> QED
    BY <2>1 DEF DeviceBacked
<1>5. CASE handleInterfaceEvent
  <2>1. S!Running("refresh") => S!Running("refresh")'
    BY <1>5, RefreshRuns DEF handleInterfaceEvent, updateStateFromIfconfig
  <2> QED
    BY <1>1, <1>5, <2>1 DEF handleInterfaceEvent, device, commands, history
<1>6. ASSUME NEW s \in Scan, QueryFinished(s) PROVE DeviceBacked'
  <2>1. S!Running("refresh") => S!Running("refresh")'
    BY <1>6, RefreshRuns DEF QueryFinished
  <2>2. tainted => tainted'
    BY <1>6 DEF QueryFinished
  <2> QED
    BY <1>1, <1>6, <2>1, <2>2 DEF QueryFinished, commands
<1>7. ASSUME NEW s \in Scan, RequestFinished(s) \/ SettleTimeout(s) \/ ResultsFinished(s)
                             \/ ResultsFailed(s) \/ NextChunk(s)
      PROVE  DeviceBacked'
  <2>1. UNCHANGED <<sampler, bState, downs, tainted>>
    BY <1>7 DEF RequestFinished, SettleTimeout, StageBecomes, ResultsFinished, ResultsFailed, NextChunk,
                device, commands, history
  <2> QED
    BY <1>1, <2>1, RefreshRuns
<1>8. ASSUME NEW enabled \in BOOLEAN, setScannerEnabled(enabled) PROVE DeviceBacked'
  <2>1. sampler' = sampler \/ S!Ask("query")
    BY <1>8 DEF setScannerEnabled, triggerScan, sampler
  <2>2. S!Running("refresh") => S!Running("refresh")'
    BY <2>1, RefreshRuns
  <2> QED
    BY <1>1, <1>8, <2>2 DEF setScannerEnabled, device, commands, history
<1>9. ASSUME NEW k \in {"refresh", "query"}, ProcessReads(k) PROVE DeviceBacked'
  <2>1. \E v \in Link \cup {Error} : S!Read(k, v)
    BY <1>9 DEF ProcessReads, TypeOK
  <2> QED
    BY <1>1, <1>9, <2>1, RefreshRuns DEF ProcessReads, device, commands, history
<1>10. CASE LinkChange \/ LoaderFinished \/ WpaCliFinished \/ UNCHANGED vars
  <2>1. UNCHANGED <<sampler, bState, downs, tainted>>
    BY <1>10 DEF LinkChange, LoaderFinished, WpaCliFinished, vars, sampler, device, commands, history
  <2> QED
    BY <1>1, <2>1, RefreshRuns
<1>11. ASSUME NEW b \in Bssid, NEW exitOk \in BOOLEAN,
              connect(b) \/ disconnectNetwork(b) \/ forget(b) \/ DisconnectFinished(b) \/ ConnectFinished(b, exitOk)
       PROVE  DeviceBacked'
  <2>1. UNCHANGED <<sampler, bState, downs, tainted>>
    BY <1>11 DEF connect, disconnectNetwork, forget, DisconnectFinished, ConnectFinished, device, commands
  <2> QED
    BY <1>1, <2>1, RefreshRuns
<1> QED
  BY <1>2, <1>3, <1>4, <1>5, <1>6, <1>7, <1>8, <1>9, <1>10, <1>11 DEF Next, ProcessEnds, User, ScanStep

-----------------------------------------------------------------------------
(* The inductive invariant and what follows from it *)

IInv ==
  /\ TypeOK /\ CommandsListed
  /\ ListMirrorsMap
  /\ ScanInv
  /\ LoadIsComing
  /\ \A b \in Bssid : NetworkBacked(b)
  /\ DeviceBacked

(* A new device, whether its own first sample answered or not.              *)
LEMMA InitIInv == Init => IInv
<1> SUFFICES ASSUME Init PROVE IInv
  OBVIOUS
<1>1. TypeOK
  BY InitTypes
<1>2. CommandsListed /\ ListMirrorsMap /\ LoadIsComing
  BY DEF Init, CommandsListed, ListMirrorsMap, LoadIsComing
<1>3. asked["query"] = 0 /\ outputs = <<>>
  BY DEF Init, S!Init
<1>4. ~S!Running("query") /\ QueryOnce
  BY <1>3 DEF S!Running, QueryOnce
<1>5. ScanInv
  BY <1>4 DEF Init, ScanInv, ScanLock
<1>6. DeviceBacked /\ \A b \in Bssid : NetworkBacked(b)
  BY DEF Init, DeviceBacked, NetworkBacked
<1> QED
  BY <1>1, <1>2, <1>5, <1>6 DEF IInv

(* The parts are kept together.                                             *)
LEMMA StepIInv == IInv /\ [Next]_vars => IInv'
BY StepTypes, StepCommands, StepList, StepScan, StepKnown, StepNetworks, StepDevice DEF IInv

(* So the invariant holds in every reachable state.                         *)
LEMMA AlwaysIInv == Spec => []IInv
BY InitIInv, StepIInv, PTL DEF Spec

\* Every variable of the wireless device keeps its type, and a network that is
\* not listed never gets a state.
THEOREM TypeCorrect == Spec => []TypeOK
<1>1. IInv => TypeOK
  BY DEF IInv
<1> QED
  BY <1>1, AlwaysIInv, PTL

\* However scans, errors, chunks and refreshes interleave, mScanPending is set
\* exactly while one pipeline is under way, and no query process outlives it.
THEOREM OneScanAtATime == Spec => []ScanLock
<1>1. IInv => ScanLock
  BY DEF IInv, ScanInv
<1> QED
  BY <1>1, AlwaysIInv, PTL

\* The list shows each network of mNetworkMap in exactly one row, for any
\* number of access points and any results, duplicates included.
THEOREM ListIsMap == Spec => []ListMirrorsMap
<1>1. IInv => ListMirrorsMap
  BY DEF IInv
<1> QED
  BY <1>1, AlwaysIInv, PTL

\* A saved network that is listed as unknown will be marked: the scan that
\* found it or the loader that this scan starts is still under way.
THEOREM KnownIsComing == Spec => []KnownPending
<1>1. IInv => KnownPending
  BY DEF IInv, LoadIsComing, KnownPending, ScanInv, ScanLock
<1> QED
  BY <1>1, AlwaysIInv, PTL

\* No network and no device shows a transitional state that no process is going
\* to end, whatever refreshes and scan results overwrite meanwhile.
THEOREM NoOrphanedSpinner == Spec => []TransientBacked
<1>1. IInv => TransientBacked
  BY DEF IInv, NetworkBacked, DeviceBacked, TransientBacked
<1> QED
  BY <1>1, AlwaysIInv, PTL
-----------------------------------------------------------------------------
(* What the device shows when nothing is under way.  SettledAgrees speaks   *)
(* of idle states only.  Of every state: another refresh is to come, or the *)
(* newest one to be collected, and every query after it, tells the truth;   *)
(* or all that is left is late or a query that tells the truth, and what    *)
(* is shown is the kernel's, or tainted.                                    *)

SampleToCome == events > 0 \/ asked["refresh"] > 0 \/ downs > 0

Current(o) == o.kind = "query" /\ o.value \in {link, Error}

SampleRead ==
  \E n \in 1 .. Len(outputs) :
    /\ outputs[n].kind = "refresh" /\ outputs[n].value \in {link, Error}
    /\ \A m \in n + 1 .. Len(outputs) : Current(outputs[m])

Consistent ==
  /\ bState = "Connected" <=> link.up
  /\ mCurrentBssid = link.bssid
  /\ \A b \in mNetworkMap \ commanded : netState[b] = "Connected" <=> link.up /\ b = link.bssid

SampleUsed ==
  /\ \A n \in 1 .. Len(outputs) : outputs[n].late \/ Current(outputs[n])
  /\ tainted \/ Consistent

NewestAgrees == SampleToCome \/ SampleRead \/ SampleUsed

(* What collecting an output does to the others.                            *)
LEMMA CollectEntries ==
  ASSUME outputs \in Seq(S!Output), NEW n \in 1 .. Len(outputs), S!Collect(n)
  PROVE  /\ Len(outputs) \in Nat /\ Len(outputs') = Len(outputs) - 1
         /\ \A j \in 1 .. Len(outputs') :
              IF j < n
              THEN /\ outputs'[j].kind = outputs[j].kind
                   /\ outputs'[j].value = outputs[j].value /\ outputs'[j].late
              ELSE outputs'[j] = outputs[j + 1]
<1>1. Len(outputs) \in Nat /\ n \in DOMAIN outputs /\ Len(outputs) - 1 \in Nat
  OBVIOUS
<1>2. outputs' \in Seq(S!Output) /\ DOMAIN outputs' = 1 .. Len(outputs) - 1
  BY <1>1, CollectKinds
<1>3. Len(outputs') = Len(outputs) - 1
  BY <1>1, <1>2
<1>4. ASSUME NEW j \in 1 .. Len(outputs), NEW o \in S!Output, o = outputs[j]
      PROVE  LET p == [o EXCEPT !.late = TRUE] IN p.kind = o.kind /\ p.value = o.value /\ p.late
  BY DEF S!Output
<1>5. \A j \in 1 .. Len(outputs) : outputs[j] \in S!Output
  BY ElementOfSeq
<1>6. outputs' = [j \in 1 .. Len(outputs) - 1 |->
                    IF j < n THEN [outputs[j] EXCEPT !.late = TRUE] ELSE outputs[j + 1]]
  BY DEF S!Collect
<1>7. ASSUME NEW j \in 1 .. Len(outputs')
      PROVE  IF j < n
             THEN /\ outputs'[j].kind = outputs[j].kind
                  /\ outputs'[j].value = outputs[j].value /\ outputs'[j].late
             ELSE outputs'[j] = outputs[j + 1]
  <2>1. j \in 1 .. Len(outputs) /\ j \in 1 .. Len(outputs) - 1
    BY <1>1, <1>3
  <2>2. outputs'[j] = IF j < n THEN [outputs[j] EXCEPT !.late = TRUE] ELSE outputs[j + 1]
    BY <1>6, <2>1
  <2> QED BY <1>4, <1>5, <2>1, <2>2
<1> QED BY <1>1, <1>3, <1>7

(* The newest refresh is not the output that is collected: it stays the     *)
(* newest, as what comes after it keeps telling the truth.                  *)
LEMMA OtherCollected ==
  ASSUME TypeOK, NEW n \in 1 .. Len(outputs), S!Collect(n), link' = link,
         NEW k \in 1 .. Len(outputs), k # n,
         outputs[k].kind = "refresh", outputs[k].value \in {link, Error},
         \A m \in k + 1 .. Len(outputs) : Current(outputs[m])
  PROVE  SampleRead'
<1>1. /\ Len(outputs) \in Nat /\ Len(outputs') = Len(outputs) - 1
      /\ \A j \in 1 .. Len(outputs') :
           IF j < n
           THEN /\ outputs'[j].kind = outputs[j].kind
                /\ outputs'[j].value = outputs[j].value /\ outputs'[j].late
           ELSE outputs'[j] = outputs[j + 1]
  BY CollectEntries DEF TypeOK, S!TypeOK
<1> DEFINE i == IF k < n THEN k ELSE k - 1
<1>2. i \in 1 .. Len(outputs')
  BY <1>1
<1>3. outputs'[i].kind = "refresh" /\ outputs'[i].value \in {link, Error}
  <2>1. CASE k < n
    BY <1>1, <1>2, <2>1
  <2>2. CASE ~(k < n)
    <3>1. ~(i < n) /\ i + 1 = k
      BY <1>1, <2>2
    <3>2. outputs'[i] = outputs[k]
      BY <1>1, <1>2, <3>1
    <3> QED BY <3>2
  <2> QED BY <2>1, <2>2
<1>4. ASSUME NEW m \in i + 1 .. Len(outputs') PROVE outputs'[m].kind = "query" /\ outputs'[m].value \in {link, Error}
  <2>1. m \in 1 .. Len(outputs')
    BY <1>1, <1>2
  <2>2. CASE m < n
    <3>1. m \in k + 1 .. Len(outputs)
      BY <1>1, <2>2
    <3> QED BY <1>1, <2>1, <2>2, <3>1 DEF Current
  <2>3. CASE ~(m < n)
    <3>1. m + 1 \in k + 1 .. Len(outputs)
      BY <1>1, <2>3
    <3>2. outputs'[m] = outputs[m + 1]
      BY <1>1, <2>1, <2>3
    <3> QED BY <3>1, <3>2 DEF Current
  <2> QED BY <2>2, <2>3
<1> HIDE DEF i
<1> QED BY <1>2, <1>3, <1>4 DEF SampleRead, Current

(* What is left after an output was collected beyond which all others are   *)
(* harmless is harmless.                                                    *)
LEMMA RestHarmless ==
  ASSUME TypeOK, NEW n \in 1 .. Len(outputs), S!Collect(n), link' = link,
         \A m \in 1 .. Len(outputs) : m < n \/ outputs[m].late \/ Current(outputs[m]) \/ m = n
  PROVE  (\A j \in 1 .. Len(outputs) : outputs[j].late \/ Current(outputs[j]))'
<1>1. /\ Len(outputs) \in Nat /\ Len(outputs') = Len(outputs) - 1
      /\ \A j \in 1 .. Len(outputs') :
           IF j < n
           THEN /\ outputs'[j].kind = outputs[j].kind
                /\ outputs'[j].value = outputs[j].value /\ outputs'[j].late
           ELSE outputs'[j] = outputs[j + 1]
  BY CollectEntries DEF TypeOK, S!TypeOK
<1> SUFFICES ASSUME NEW j \in 1 .. Len(outputs')
             PROVE  outputs'[j].late \/ (outputs'[j].kind = "query" /\ outputs'[j].value \in {link, Error})
  BY DEF Current
<1>2. CASE j < n
  BY <1>1, <1>2
<1>3. CASE ~(j < n)
  <2>1. outputs'[j] = outputs[j + 1] /\ j + 1 \in 1 .. Len(outputs) /\ ~(j + 1 < n) /\ j + 1 # n
    BY <1>1, <1>3
  <2> QED BY <2>1 DEF Current
<1> QED BY <1>2, <1>3

(* A refresh is collected.                                                  *)
LEMMA RefreshTells ==
  ASSUME TypeOK, NewestAgrees, RefreshFinished
  PROVE  NewestAgrees'
<1>1. PICK n \in DOMAIN outputs :
        /\ outputs[n].kind = "refresh" /\ S!Collect(n)
        /\ \/ outputs[n].value = Error /\ tainted' = TRUE /\ UNCHANGED <<device, netState, commanded>>
           \/ /\ outputs[n].value # Error /\ parseIfconfigOutput(outputs[n].value)
              /\ tainted' = outputs[n].late /\ commanded' = {}
  BY DEF RefreshFinished
<1>2. UNCHANGED <<link, events, asked, downs, mNetworkMap>> /\ n \in 1 .. Len(outputs) /\ Len(outputs) \in Nat
  BY DEF RefreshFinished, commands, TypeOK, S!TypeOK
<1>3. CASE SampleToCome
  <2>1. SampleToCome'
    BY <1>2, <1>3 DEF SampleToCome
  <2> QED BY <2>1 DEF NewestAgrees
<1>4. CASE SampleRead
  <2>1. PICK k \in 1 .. Len(outputs) :
          /\ outputs[k].kind = "refresh" /\ outputs[k].value \in {link, Error}
          /\ \A m \in k + 1 .. Len(outputs) : Current(outputs[m])
    BY <1>4 DEF SampleRead
  <2>2. CASE k # n
    <3>1. SampleRead'
      BY <1>1, <1>2, <2>1, <2>2, OtherCollected
    <3> QED BY <3>1 DEF NewestAgrees
  <2>3. CASE k = n
    <3>1. \A m \in 1 .. Len(outputs) : m < n \/ outputs[m].late \/ Current(outputs[m]) \/ m = n
      BY <1>2, <2>1, <2>3
    <3>2. (\A j \in 1 .. Len(outputs) : outputs[j].late \/ Current(outputs[j]))'
      BY <1>1, <1>2, <3>1, RestHarmless
    <3>3. tainted' \/ Consistent'
      <4>1. CASE outputs[n].value = Error
        <5>1. tainted'
          BY <1>1, <4>1
        <5> QED BY <5>1
      <4>2. CASE outputs[n].value # Error
        <5>1. outputs[n].value = link /\ parseIfconfigOutput(link)
          BY <1>1, <2>1, <2>3, <4>2
        <5>2. mCurrentBssid' = link.bssid /\ (bState' = "Connected" <=> link.up)
          BY <5>1 DEF parseIfconfigOutput, Shows
        <5>3. ASSUME NEW b \in mNetworkMap PROVE netState'[b] = "Connected" <=> link.up /\ b = link.bssid
          <6>1. b \in Bssid
            BY DEF TypeOK
          <6>2. netState'[b] = Mark(b, link.bssid, link.up)
            BY <5>1, <6>1 DEF parseIfconfigOutput, Shows
          <6> QED BY <6>1, <6>2 DEF Mark
        <5>4. Consistent'
          BY <1>2, <5>2, <5>3 DEF Consistent
        <5> QED BY <5>4
      <4> QED BY <4>1, <4>2
    <3>4. SampleUsed'
      BY <3>2, <3>3 DEF SampleUsed
    <3> QED BY <3>4 DEF NewestAgrees
  <2> QED BY <2>2, <2>3
<1>5. CASE SampleUsed
  <2>1. outputs[n].late
    BY <1>1, <1>2, <1>5 DEF SampleUsed, Current
  <2>2. tainted'
    BY <1>1, <2>1
  <2>3. (\A j \in 1 .. Len(outputs) : outputs[j].late \/ Current(outputs[j]))'
    BY <1>1, <1>2, <1>5, RestHarmless DEF SampleUsed
  <2>4. SampleUsed'
    BY <2>2, <2>3 DEF SampleUsed
  <2> QED BY <2>4 DEF NewestAgrees
<1> QED BY <1>3, <1>4, <1>5 DEF NewestAgrees

(* A query is collected, which only says where we are associated.           *)
LEMMA QueryTells ==
  ASSUME TypeOK, NewestAgrees, NEW s \in Scan, QueryFinished(s)
  PROVE  NewestAgrees'
<1>1. PICK n \in DOMAIN outputs :
        /\ outputs[n].kind = "query" /\ S!Collect(n)
        /\ IF outputs[n].value = Error
           THEN UNCHANGED <<mCurrentBssid, tainted>>
           ELSE mCurrentBssid' = outputs[n].value.bssid /\ tainted' = (tainted \/ outputs[n].late)
  BY DEF QueryFinished
<1>2. UNCHANGED <<link, events, asked, bState, downs, mNetworkMap, netState, commanded>>
      /\ n \in 1 .. Len(outputs) /\ Len(outputs) \in Nat
  BY DEF QueryFinished, networks, commands, TypeOK, S!TypeOK
<1>3. CASE SampleToCome
  <2>1. SampleToCome'
    BY <1>2, <1>3 DEF SampleToCome
  <2> QED BY <2>1 DEF NewestAgrees
<1>4. CASE SampleRead
  <2>1. PICK k \in 1 .. Len(outputs) :
          /\ outputs[k].kind = "refresh" /\ outputs[k].value \in {link, Error}
          /\ \A m \in k + 1 .. Len(outputs) : Current(outputs[m])
    BY <1>4 DEF SampleRead
  <2>2. SampleRead'
    BY <1>1, <1>2, <2>1, OtherCollected
  <2> QED BY <2>2 DEF NewestAgrees
<1>5. CASE SampleUsed
  <2>1. outputs[n].late \/ outputs[n].value \in {link, Error}
    BY <1>2, <1>5 DEF SampleUsed, Current
  <2>2. (\A j \in 1 .. Len(outputs) : outputs[j].late \/ Current(outputs[j]))'
    BY <1>1, <1>2, <1>5, RestHarmless DEF SampleUsed
  <2>3. tainted' \/ Consistent'
    <3>1. CASE outputs[n].value = Error
      BY <1>1, <1>2, <1>5, <3>1 DEF SampleUsed, Consistent
    <3>2. CASE outputs[n].value # Error /\ (tainted \/ outputs[n].late)
      BY <1>1, <3>2
    <3>3. CASE outputs[n].value = link /\ ~tainted
      <4>1. Consistent
        BY <1>5, <3>3 DEF SampleUsed
      <4>2. mCurrentBssid' = mCurrentBssid
        BY <1>1, <3>3, <4>1 DEF Consistent
      <4> QED BY <1>2, <4>1, <4>2 DEF Consistent
    <3> QED BY <2>1, <3>1, <3>2, <3>3
  <2>4. SampleUsed'
    BY <2>2, <2>3 DEF SampleUsed
  <2> QED BY <2>4 DEF NewestAgrees
<1> QED BY <1>3, <1>4, <1>5 DEF NewestAgrees

(* A process looks at the interface: a refresh becomes the newest one.      *)
LEMMA ReadTells ==
  ASSUME TypeOK, NewestAgrees, NEW k \in {"refresh", "query"}, ProcessReads(k)
  PROVE  NewestAgrees'
<1>1. PICK v \in {link, Error} : S!Read(k, v)
  BY DEF ProcessReads
<1>2. UNCHANGED <<link, events, downs, tainted, device, mNetworkMap, netState, commanded>>
  BY DEF ProcessReads, networks, commands, history
<1> DEFINE o == [kind |-> k, value |-> v, late |-> FALSE]
<1>3. outputs' = Append(outputs, o) /\ outputs \in Seq(S!Output)
  BY <1>1 DEF S!Read, TypeOK, S!TypeOK
<1>4. o.kind = k /\ o.value = v
  OBVIOUS
<1> HIDE DEF o
<1>5. /\ Len(outputs) \in Nat /\ Len(outputs') = Len(outputs) + 1
      /\ outputs'[Len(outputs) + 1] = o
      /\ \A j \in 1 .. Len(outputs) : outputs'[j] = outputs[j]
  BY <1>3
<1>6. CASE k = "refresh"
  <2> DEFINE n == Len(outputs) + 1
  <2>1. n \in 1 .. Len(outputs') /\ outputs'[n] = o /\ \A m \in n + 1 .. Len(outputs') : FALSE
    BY <1>5
  <2> HIDE DEF n
  <2>2. outputs'[n].kind = "refresh" /\ outputs'[n].value \in {link', Error}
    BY <1>2, <1>4, <1>6, <2>1
  <2>3. SampleRead'
    BY <2>1, <2>2 DEF SampleRead
  <2> QED BY <2>3 DEF NewestAgrees
<1>7. CASE k = "query"
  <2>1. Current(o)
    BY <1>4, <1>7 DEF Current
  <2>2. asked'["refresh"] = asked["refresh"]
    BY <1>1, <1>7 DEF S!Read, TypeOK, S!TypeOK
  <2>3. CASE SampleToCome
    <3>1. SampleToCome'
      BY <1>2, <2>2, <2>3 DEF SampleToCome
    <3> QED BY <3>1 DEF NewestAgrees
  <2>4. CASE SampleRead
    <3>1. PICK n \in 1 .. Len(outputs) :
            /\ outputs[n].kind = "refresh" /\ outputs[n].value \in {link, Error}
            /\ \A m \in n + 1 .. Len(outputs) : Current(outputs[m])
      BY <2>4 DEF SampleRead
    <3>2. n \in 1 .. Len(outputs') /\ outputs'[n].kind = "refresh" /\ outputs'[n].value \in {link', Error}
      BY <1>2, <1>5, <3>1
    <3>3. ASSUME NEW m \in n + 1 .. Len(outputs') PROVE Current(outputs'[m])
      <4>1. m = Len(outputs) + 1 \/ (m \in n + 1 .. Len(outputs) /\ m \in 1 .. Len(outputs))
        BY <1>5
      <4> QED BY <1>5, <2>1, <3>1, <4>1
    <3>4. SampleRead'
      BY <1>2, <3>2, <3>3 DEF SampleRead, Current
    <3> QED BY <3>4 DEF NewestAgrees
  <2>5. CASE SampleUsed
    <3>1. ASSUME NEW m \in 1 .. Len(outputs') PROVE outputs'[m].late \/ Current(outputs'[m])
      <4>1. m = Len(outputs) + 1 \/ m \in 1 .. Len(outputs)
        BY <1>5
      <4> QED BY <1>5, <2>1, <2>5, <4>1 DEF SampleUsed
    <3>2. tainted' \/ Consistent'
      BY <1>2, <2>5 DEF SampleUsed, Consistent, device
    <3>3. SampleUsed'
      BY <1>2, <3>1, <3>2 DEF SampleUsed, Current
    <3> QED BY <3>3 DEF NewestAgrees
  <2> QED BY <2>3, <2>4, <2>5 DEF NewestAgrees
<1> QED BY <1>6, <1>7

(* Steps that leave the interface and its outputs alone, and of the         *)
(* networks only say what is shown already or what a command said.          *)
LEMMA NothingTold ==
  ASSUME NewestAgrees, UNCHANGED <<link, events, outputs, downs, tainted, bState, mCurrentBssid>>,
         asked'["refresh"] = asked["refresh"], Consistent => Consistent'
  PROVE  NewestAgrees'
<1>1. CASE SampleToCome
  <2>1. SampleToCome'
    BY <1>1 DEF SampleToCome
  <2> QED BY <2>1 DEF NewestAgrees
<1>2. CASE SampleRead
  <2>1. SampleRead'
    BY <1>2 DEF SampleRead, Current
  <2> QED BY <2>1 DEF NewestAgrees
<1>3. CASE SampleUsed
  <2>1. SampleUsed'
    BY <1>3 DEF SampleUsed, Current
  <2> QED BY <2>1 DEF NewestAgrees
<1> QED BY <1>1, <1>2, <1>3 DEF NewestAgrees

(* A chunk of scan results marks what it mentions by the state shown.       *)
LEMMA ChunkAgrees ==
  ASSUME TypeOK, Consistent, NEW s \in Scan, NEW results \in Seq(Line), processScanLines(s, results),
         UNCHANGED <<link, device>>
  PROVE  Consistent'
<1>1. PICK seen \in SUBSET Bssid :
        /\ netState' = [b \in Bssid |-> IF b \in seen THEN Mark(b, mCurrentBssid, bState = "Connected")
                                       ELSE netState[b]]
        /\ mNetworkMap' = mNetworkMap \cup seen
        /\ commanded' = commanded \ seen
  BY ChunkEffect
<1>2. ASSUME NEW b \in mNetworkMap' \ commanded' PROVE netState'[b] = "Connected" <=> link.up /\ b = link.bssid
  <2>1. b \in Bssid
    BY <1>1 DEF TypeOK
  <2>2. CASE b \in seen
    <3>1. netState'[b] = Mark(b, link.bssid, bState = "Connected") /\ (bState = "Connected" <=> link.up)
      BY <1>1, <2>1, <2>2 DEF Consistent
    <3> QED BY <2>1, <3>1 DEF Mark
  <2>3. CASE b \notin seen
    <3>1. b \in mNetworkMap \ commanded /\ netState'[b] = netState[b]
      BY <1>1, <2>1, <2>3
    <3> QED BY <3>1 DEF Consistent
  <2> QED BY <2>2, <2>3
<1> QED BY <1>2 DEF Consistent, device

LEMMA StepNewest == TypeOK /\ NewestAgrees /\ [Next]_vars => NewestAgrees'
<1> SUFFICES ASSUME TypeOK, NewestAgrees, [Next]_vars PROVE NewestAgrees'
  OBVIOUS
<1>1. CASE handleInterfaceEvent \/ DownFinished
  <2>1. asked'["refresh"] > 0
    BY <1>1 DEF TypeOK, S!TypeOK, handleInterfaceEvent, DownFinished, updateStateFromIfconfig, S!Ask
  <2> QED BY <2>1 DEF NewestAgrees, SampleToCome
<1>2. CASE RefreshFinished
  BY <1>2, RefreshTells
<1>3. CASE disconnect \/ LinkChange
  <2>1. downs' > 0 \/ events' > 0
    BY <1>3 DEF TypeOK, disconnect, LinkChange
  <2> QED BY <2>1 DEF NewestAgrees, SampleToCome
<1>4. ASSUME NEW enabled \in BOOLEAN, setScannerEnabled(enabled) PROVE NewestAgrees'
  <2>1. UNCHANGED <<link, events, downs, tainted, device, mNetworkMap, netState, commanded>>
    BY <1>4 DEF setScannerEnabled, networks, commands, history
  <2>2. UNCHANGED sampler \/ S!Ask("query")
    BY <1>4 DEF setScannerEnabled, triggerScan
  <2>3. outputs' = outputs /\ asked'["refresh"] = asked["refresh"]
    BY <2>2 DEF sampler, S!Ask, TypeOK, S!TypeOK
  <2> QED BY <2>1, <2>3, NothingTold DEF Consistent, device
<1>5. ASSUME NEW s \in Scan, QueryFinished(s) PROVE NewestAgrees'
  BY <1>5, QueryTells
<1>6. ASSUME NEW s \in Scan, RequestFinished(s) \/ SettleTimeout(s) \/ ResultsFailed(s) PROVE NewestAgrees'
  <2>1. UNCHANGED <<link, events, device, sampler, networks, commands, history>>
    BY <1>6 DEF RequestFinished, SettleTimeout, StageBecomes, ResultsFailed
  <2> QED BY <2>1, NothingTold DEF Consistent, device, sampler, networks, commands, history
<1>7. ASSUME NEW s \in Scan, ResultsFinished(s) \/ NextChunk(s) PROVE NewestAgrees'
  <2>1. PICK results \in Seq(Line) : processScanLines(s, results)
    <3>1. CASE ResultsFinished(s)
      BY <3>1, ScanResultIsSeq DEF ResultsFinished
    <3>2. CASE NextChunk(s)
      BY <3>2 DEF NextChunk, TypeOK
    <3> QED BY <1>7, <3>1, <3>2
  <2>2. UNCHANGED <<link, events, device, sampler, commands, tainted>>
    BY <1>7 DEF ResultsFinished, NextChunk
  <2>3. Consistent => Consistent'
    BY <2>1, <2>2, ChunkAgrees
  <2> QED BY <2>2, <2>3, NothingTold DEF device, sampler, commands
<1>8. CASE LoaderFinished \/ WpaCliFinished \/ UNCHANGED vars
  <2>1. UNCHANGED <<link, events, device, sampler, downs, mNetworkMap, netState, tainted, commanded>>
    BY <1>8 DEF LoaderFinished, WpaCliFinished, vars, commands, device, sampler
  <2> QED BY <2>1, NothingTold DEF Consistent, device, sampler
<1>9. ASSUME NEW b \in Bssid, NEW exitOk \in BOOLEAN,
             connect(b) \/ disconnectNetwork(b) \/ DisconnectFinished(b) \/ ConnectFinished(b, exitOk)
      PROVE  NewestAgrees'
  <2>1. /\ UNCHANGED <<link, events, device, sampler, downs, mNetworkMap, tainted>>
        /\ \E state : WriteState(b, state)
    BY <1>9 DEF connect, disconnectNetwork, DisconnectFinished, ConnectFinished
  <2>2. \A a \in mNetworkMap \ commanded' : netState'[a] = netState[a] /\ a \in mNetworkMap \ commanded
    BY <2>1 DEF WriteState, TypeOK
  <2> QED BY <2>1, <2>2, NothingTold DEF Consistent, device, sampler
<1>10. ASSUME NEW b \in Bssid, forget(b) PROVE NewestAgrees'
  <2>1. UNCHANGED <<link, events, device, sampler, downs, mNetworkMap, netState, tainted, commanded>>
    BY <1>10 DEF forget, commands
  <2> QED BY <2>1, NothingTold DEF Consistent, device, sampler
<1>11. ASSUME NEW k \in {"refresh", "query"}, ProcessReads(k) PROVE NewestAgrees'
  BY <1>11, ReadTells
<1> QED
  BY <1>1, <1>2, <1>3, <1>4, <1>5, <1>6, <1>7, <1>8, <1>9, <1>10, <1>11
     DEF Next, ProcessEnds, User, ScanStep

LEMMA InitNewest == Init => NewestAgrees
<1> SUFFICES ASSUME Init PROVE NewestAgrees
  OBVIOUS
<1>1. Len(outputs) = 0
  BY EmptySeq DEF Init, S!Init
<1>2. tainted \/ Consistent
  BY DEF Init, Consistent
<1>3. SampleUsed
  BY <1>1, <1>2 DEF SampleUsed
<1> QED BY <1>3 DEF NewestAgrees

\* For any number of access points, scans, refreshes and commands: when nothing
\* is under way, the device shows the status of the interface and its networks
\* show the access point named beside it
\* (parseIfconfigOutput, processScanLines), except where SettledAgrees says.
THEOREM SettledDeviceAgrees == Spec => []SettledAgrees
<1>1. TypeOK /\ NewestAgrees => SettledAgrees
  <2> SUFFICES ASSUME TypeOK, NewestAgrees, events = 0, S!Idle, downs = 0, ~tainted
               PROVE  Consistent
    BY DEF SettledAgrees, Consistent
  <2>1. asked["refresh"] = 0 /\ outputs = << >>
    BY DEF S!Idle
  <2>2. Len(outputs) = 0
    BY <2>1, EmptySeq
  <2>3. ~SampleToCome /\ ~SampleRead
    BY <2>1, <2>2 DEF SampleToCome, SampleRead
  <2> QED BY <2>3 DEF NewestAgrees, SampleUsed
<1>2. IInv => TypeOK
  BY DEF IInv
<1> QED
  BY <1>1, <1>2, InitIInv, StepIInv, InitNewest, StepNewest, PTL DEF Spec
-----------------------------------------------------------------------------
(* Liveness.  The provers cannot look into ENABLED.  What the theorem needs  *)
(* to know of it is a hypothesis: a step whose guard holds can be taken.    *)

HasOutput(k) == \E n \in DOMAIN outputs : outputs[n].kind = k

RefreshReady ==
  /\ HasOutput("refresh") => ENABLED <<RefreshFinished>>_vars
  /\ asked["refresh"] > 0 => ENABLED <<ProcessReads("refresh")>>_vars
  /\ downs > 0 /\ ~S!Running("refresh") => ENABLED <<DownFinished>>_vars

(* What stands between a device that is to be disconnected and its end,     *)
(* latest stage first: the output of a refresh, a refresh that will give    *)
(* one, a down process, which is followed by a refresh.                     *)
Waiting == bState = "Disconnecting" /\ ~tainted
Sampled == Waiting /\ HasOutput("refresh")
Asked   == Waiting /\ ~HasOutput("refresh") /\ asked["refresh"] > 0
DownDue == Waiting /\ ~S!Running("refresh") /\ downs > 0

(* Something of this stands between, as long as the disconnect is backed.   *)
LEMMA SomeStage == IInv /\ Waiting => Sampled \/ Asked \/ DownDue
  BY DEF IInv, DeviceBacked, S!Running, HasOutput, Waiting, Sampled, Asked, DownDue

(* The steps that touch the sampler.                                        *)
LEMMA SamplerMoves ==
  ASSUME TypeOK, [Next]_vars
  PROVE  \/ RefreshFinished
         \/ \E s \in Scan : QueryFinished(s)
         \/ sampler' = sampler
         \/ \E k \in {"refresh", "query"} : S!Ask(k) \/ \E v \in Link \cup {Error} : S!Read(k, v)
<1>1. CASE handleInterfaceEvent \/ DownFinished
  BY <1>1 DEF handleInterfaceEvent, DownFinished, updateStateFromIfconfig
<1>2. ASSUME NEW s \in Scan, RequestFinished(s) \/ SettleTimeout(s) \/ ResultsFinished(s)
                             \/ ResultsFailed(s) \/ NextChunk(s)
      PROVE  sampler' = sampler
  BY <1>2 DEF RequestFinished, SettleTimeout, StageBecomes, ResultsFinished, ResultsFailed, NextChunk
<1>3. ASSUME NEW enabled \in BOOLEAN, setScannerEnabled(enabled)
      PROVE  sampler' = sampler \/ S!Ask("query")
  BY <1>3 DEF setScannerEnabled, triggerScan, sampler
<1>4. ASSUME NEW k \in {"refresh", "query"}, ProcessReads(k)
      PROVE  \E v \in Link \cup {Error} : S!Read(k, v)
  BY <1>4 DEF ProcessReads, TypeOK
<1>5. CASE disconnect \/ LinkChange \/ LoaderFinished \/ WpaCliFinished \/ UNCHANGED vars
  BY <1>5 DEF disconnect, LinkChange, LoaderFinished, WpaCliFinished, vars, sampler
<1>6. ASSUME NEW b \in Bssid, NEW exitOk \in BOOLEAN,
             connect(b) \/ disconnectNetwork(b) \/ forget(b) \/ DisconnectFinished(b) \/ ConnectFinished(b, exitOk)
      PROVE  sampler' = sampler
  BY <1>6 DEF connect, disconnectNetwork, forget, DisconnectFinished, ConnectFinished
<1> QED
  BY <1>1, <1>2, <1>3, <1>4, <1>5, <1>6 DEF Next, ProcessEnds, User, ScanStep

(* An output stays until one of its kind is collected.                      *)
LEMMA ReadLeavesOutput ==
  ASSUME TypeOK, NEW k \in {"refresh", "query"}, NEW v \in Link \cup {Error}, S!Read(k, v)
  PROVE  /\ HasOutput(k)'
         /\ \A j \in {"refresh", "query"} : HasOutput(j) => HasOutput(j)'
<1> DEFINE new == [kind |-> k, value |-> v, late |-> FALSE]
<1>1. outputs \in Seq(S!Output) /\ new \in S!Output /\ outputs' = Append(outputs, new)
  BY DEF TypeOK, S!TypeOK, S!Output, S!Read
<1>2. DOMAIN outputs = 1 .. Len(outputs) /\ Len(outputs) \in Nat
  BY <1>1
<1>3. /\ DOMAIN outputs' = 1 .. Len(outputs) + 1
      /\ \A j \in DOMAIN outputs : j \in DOMAIN outputs' /\ outputs'[j] = outputs[j]
      /\ outputs'[Len(outputs) + 1] = new
  BY <1>1, <1>2, AppendProperties
<1> QED
  BY <1>2, <1>3 DEF HasOutput

LEMMA CollectLeavesOutputs ==
  ASSUME TypeOK, NEW n \in DOMAIN outputs, S!Collect(n), NEW k, outputs[n].kind # k, HasOutput(k)
  PROVE  HasOutput(k)'
<1>1. PICK m \in DOMAIN outputs : outputs[m].kind = k
  BY DEF HasOutput
<1> DEFINE j == IF m < n THEN m ELSE m - 1
<1>2. /\ DOMAIN outputs' = 1 .. Len(outputs) - 1
      /\ \A i \in DOMAIN outputs' : outputs'[i].kind = outputs[IF i < n THEN i ELSE i + 1].kind
  BY CollectKinds DEF TypeOK, S!TypeOK
<1>3. DOMAIN outputs = 1 .. Len(outputs) /\ Len(outputs) \in Nat
  BY DEF TypeOK, S!TypeOK
<1>4. j \in DOMAIN outputs' /\ m = IF j < n THEN j ELSE j + 1
  BY <1>1, <1>2, <1>3
<1>5. outputs'[j].kind = k
  BY <1>1, <1>2, <1>4
<1> QED
  BY <1>4, <1>5 DEF HasOutput

(* Collecting a refresh shows what it says, or that it failed.              *)
LEMMA CollectedEnds == RefreshFinished => ~Waiting'
<1>1. RefreshFinished => tainted' = TRUE \/ \E o : parseIfconfigOutput(o)
  BY DEF RefreshFinished
<1> QED
  BY <1>1 DEF parseIfconfigOutput, Shows, Waiting

(* No step takes a waiting device back a stage.                             *)
LEMMA StagesGoOn ==
  ASSUME IInv, [Next]_vars
  PROVE  /\ Sampled => Sampled' \/ ~Waiting'
         /\ Asked   => Asked' \/ Sampled' \/ ~Waiting'
         /\ DownDue => DownDue' \/ Asked' \/ Sampled' \/ ~Waiting'
<1>1. TypeOK
  BY DEF IInv
<1>2. Waiting' => Sampled' \/ Asked' \/ DownDue'
  <2>1. IInv'
    BY StepIInv
  <2> QED
    BY <2>1 DEF IInv, DeviceBacked, S!Running, HasOutput, Waiting, Sampled, Asked, DownDue
<1>3. CASE RefreshFinished
  BY <1>3, CollectedEnds
<1>4. CASE ~RefreshFinished
  <2>1. \/ sampler' = sampler
        \/ \E k \in {"refresh", "query"} : S!Ask(k) \/ \E v \in Link \cup {Error} : S!Read(k, v)
        \/ UNCHANGED asked /\ \E n \in DOMAIN outputs : outputs[n].kind = "query" /\ S!Collect(n)
    BY <1>1, <1>4, SamplerMoves DEF QueryFinished
  <2>2. S!Running("refresh") => S!Running("refresh")'
    BY <1>1, <2>1, RefreshRuns
  <2>3. HasOutput("refresh") => HasOutput("refresh")'
    <3>1. CASE sampler' = sampler \/ \E k \in {"refresh", "query"} : S!Ask(k)
      BY <3>1 DEF S!Ask, sampler, HasOutput
    <3>2. CASE \E k \in {"refresh", "query"} : \E v \in Link \cup {Error} : S!Read(k, v)
      BY <1>1, <3>2, ReadLeavesOutput
    <3>3. CASE \E n \in DOMAIN outputs : outputs[n].kind = "query" /\ S!Collect(n)
      BY <1>1, <3>3, CollectLeavesOutputs
    <3> QED
      BY <2>1, <3>1, <3>2, <3>3
  <2> QED
    BY <1>2, <2>2, <2>3 DEF Sampled, Asked, DownDue, S!Running, HasOutput
<1> QED
  BY <1>3, <1>4

(* The code owes a step that leaves each stage.                             *)
LEMMA StagesEnd ==
  ASSUME IInv, [Next]_vars
  PROVE  /\ Asked /\ ProcessReads("refresh") => Sampled' \/ ~Waiting'
         /\ DownDue /\ DownFinished => Asked' \/ Sampled' \/ ~Waiting'
<1>1. TypeOK /\ asked \in [{"refresh", "query"} -> Nat]
  BY DEF IInv, TypeOK, S!TypeOK
<1>2. ASSUME ProcessReads("refresh") PROVE HasOutput("refresh")'
  <2>1. PICK v \in Link \cup {Error} : S!Read("refresh", v)
    BY <1>1, <1>2 DEF ProcessReads, TypeOK
  <2> QED
    BY <1>1, <2>1, ReadLeavesOutput
<1>3. DownFinished => asked'["refresh"] > 0
  BY <1>1 DEF DownFinished, updateStateFromIfconfig, S!Ask
<1> QED
  BY <1>2, <1>3 DEF Sampled, Asked

\* A disconnect ends, whatever refreshes, scans and commands overlap and however
\* the association changes meanwhile, unless a refresh fails: FairSpec gets the
\* device through the stages above, provided that a step whose guard holds can
\* be taken.
THEOREM DisconnectsEnd == FairSpec /\ []RefreshReady => DisconnectEnds
<1> DEFINE Fair == WF_vars(RefreshFinished) /\ WF_vars(DownFinished) /\ WF_vars(ProcessReads("refresh"))
<1>1. FairSpec => Spec /\ Fair
  BY PTL DEF FairSpec
<1>2. IInv /\ [Next]_vars =>
        /\ Sampled => Sampled' \/ ~Waiting'
        /\ Asked   => Asked' \/ Sampled' \/ ~Waiting'
        /\ DownDue => DownDue' \/ Asked' \/ Sampled' \/ ~Waiting'
  BY StagesGoOn
<1>3. <<RefreshFinished>>_vars => ~Waiting'
  BY CollectedEnds
<1>4. IInv /\ [Next]_vars /\ Asked /\ <<ProcessReads("refresh")>>_vars => Sampled' \/ ~Waiting'
  BY StagesEnd
<1>5. IInv /\ [Next]_vars /\ DownDue /\ <<DownFinished>>_vars => Asked' \/ Sampled' \/ ~Waiting'
  BY StagesEnd
<1>6. RefreshReady =>
        /\ Sampled => ENABLED <<RefreshFinished>>_vars
        /\ Asked   => ENABLED <<ProcessReads("refresh")>>_vars
        /\ DownDue => ENABLED <<DownFinished>>_vars
  BY DEF RefreshReady, Sampled, Asked, DownDue
<1>7. Waiting <=> ~(bState # "Disconnecting" \/ tainted)
  BY DEF Waiting
<1> DEFINE Run == []IInv /\ [][Next]_vars /\ Fair /\ []RefreshReady
<1>8. Run => (Sampled ~> ~Waiting)
  BY <1>2, <1>3, <1>6, PTL
<1>9. Run => (Asked ~> (Sampled \/ ~Waiting))
  BY <1>2, <1>4, <1>6, PTL
<1>10. Run => (DownDue ~> (Asked \/ Sampled \/ ~Waiting))
  BY <1>2, <1>5, <1>6, PTL
<1> QED
  BY <1>1, <1>7, <1>8, <1>9, <1>10, AlwaysIInv, SomeStage, PTL DEF Spec, DisconnectEnds

-----------------------------------------------------------------------------
(* Scans.  One pipeline at most is under way, so its stage needs no name of  *)
(* the pipeline.                                                            *)
At(x) == \E s \in Scan : stage[s] = x

(* A pipeline that waits for its query has a process to wait for.           *)
QueryBacked == At("query") => S!Running("query")

(* A query runs until its pipeline collects it.                             *)
LEMMA QueryRuns ==
  ASSUME TypeOK, [Next]_vars, S!Running("query"), ~ \E s \in Scan : QueryFinished(s)
  PROVE  S!Running("query")' /\ (HasOutput("query") => HasOutput("query")')
<1>1. asked \in [{"refresh", "query"} -> Nat]
  BY DEF TypeOK, S!TypeOK
<1>2. CASE RefreshFinished
  <2>1. PICK n \in DOMAIN outputs : outputs[n].kind = "refresh" /\ S!Collect(n)
    BY <1>2 DEF RefreshFinished
  <2>2. HasOutput("query") => HasOutput("query")'
    BY <2>1, CollectLeavesOutputs
  <2> QED
    BY <1>2, <2>2 DEF RefreshFinished, S!Running, HasOutput
<1>3. CASE sampler' = sampler
  BY <1>3 DEF sampler, S!Running, HasOutput
<1>4. ASSUME NEW k \in {"refresh", "query"}, S!Ask(k) PROVE S!Running("query")' /\ outputs' = outputs
  BY <1>1, <1>4 DEF S!Ask, S!Running
<1>5. ASSUME NEW k \in {"refresh", "query"}, NEW v \in Link \cup {Error}, S!Read(k, v)
      PROVE  S!Running("query")' /\ (HasOutput("query") => HasOutput("query")')
  <2>1. /\ HasOutput(k)'
        /\ HasOutput("query") => HasOutput("query")'
    BY <1>5, ReadLeavesOutput
  <2>2. k = "refresh" => asked'["query"] = asked["query"]
    BY <1>1, <1>5 DEF S!Read
  <2> QED
    BY <2>1, <2>2 DEF S!Running, HasOutput
<1> QED
  BY <1>2, <1>3, <1>4, <1>5, SamplerMoves DEF HasOutput

(* Pipelines move by their own steps, or start when none is under way.      *)
LEMMA StageMoves ==
  ASSUME [Next]_vars
  PROVE  \/ \E s \in Scan : ScanStep(s)
         \/ UNCHANGED pipeline
         \/ ~mScanPending /\ S!Ask("query")
<1>1. CASE handleInterfaceEvent \/ RefreshFinished \/ DownFinished \/ LoaderFinished \/ WpaCliFinished
  BY <1>1 DEF handleInterfaceEvent, RefreshFinished, DownFinished, LoaderFinished, WpaCliFinished, pipeline
<1>2. ASSUME NEW enabled \in BOOLEAN, setScannerEnabled(enabled)
      PROVE  UNCHANGED pipeline \/ (~mScanPending /\ S!Ask("query"))
  BY <1>2 DEF setScannerEnabled, triggerScan, pipeline
<1>3. CASE disconnect \/ LinkChange \/ UNCHANGED vars
  BY <1>3 DEF disconnect, LinkChange, vars, pipeline
<1>4. ASSUME NEW k \in {"refresh", "query"}, ProcessReads(k) PROVE UNCHANGED pipeline
  BY <1>4 DEF ProcessReads, pipeline
<1>5. ASSUME NEW b \in Bssid, NEW exitOk \in BOOLEAN,
             connect(b) \/ disconnectNetwork(b) \/ forget(b) \/ DisconnectFinished(b) \/ ConnectFinished(b, exitOk)
      PROVE  UNCHANGED pipeline
  BY <1>5 DEF connect, disconnectNetwork, forget, DisconnectFinished, ConnectFinished, pipeline
<1> QED
  BY <1>1, <1>2, <1>3, <1>4, <1>5 DEF Next, ProcessEnds, User

(* The step of a pipeline takes the only one that is under way to its next  *)
(* stage; the results are walked through, or the lock is released.          *)
LEMMA ScanMoves ==
  ASSUME TypeOK, ScanInv, NEW s \in Scan, ScanStep(s)
  PROVE  /\ At("query") => At("request")' /\ QueryFinished(s)
         /\ At("request") => At("settle")'
         /\ At("settle") => At("results")'
         /\ At("results") => At("lines")' \/ ~mScanPending'
         /\ ~At("query")'
<1>1. stage[s] # "idle" /\ \A t \in Scan \ {s} : stage[t] = "idle"
  <2>1. stage[s] # "idle"
    BY DEF ScanStep, QueryFinished, RequestFinished, SettleTimeout, StageBecomes, ResultsFinished,
           ResultsFailed, NextChunk
  <2> QED
    BY <2>1 DEF ScanInv, ScanLock
<1>2. \A x \in ScanStage \ {"idle"} : At(x) => stage[s] = x
  BY <1>1 DEF At
<1>3. ASSUME NEW to \in ScanStage, stage' = [stage EXCEPT ![s] = to]
      PROVE  At(to)' /\ (to # "query" => ~At("query")')
  BY <1>1, <1>3 DEF At, TypeOK
<1>4. CASE QueryFinished(s)
  <2>1. stage[s] = "query" /\ stage' = [stage EXCEPT ![s] = "request"]
    BY <1>4 DEF QueryFinished
  <2> QED
    BY <1>2, <1>3, <1>4, <2>1 DEF ScanStage
<1>5. CASE RequestFinished(s)
  <2>1. stage[s] = "request" /\ stage' = [stage EXCEPT ![s] = "settle"]
    BY <1>5 DEF RequestFinished, StageBecomes
  <2> QED
    BY <1>2, <1>3, <2>1 DEF ScanStage
<1>6. CASE SettleTimeout(s)
  <2>1. stage[s] = "settle" /\ stage' = [stage EXCEPT ![s] = "results"]
    BY <1>6 DEF SettleTimeout, StageBecomes
  <2> QED
    BY <1>2, <1>3, <2>1 DEF ScanStage
<1>7. CASE ResultsFinished(s) \/ NextChunk(s) \/ ResultsFailed(s)
  <2>1. stage[s] \in {"results", "lines"}
    BY <1>7 DEF ResultsFinished, NextChunk, ResultsFailed
  <2>2. \/ stage' = [stage EXCEPT ![s] = "lines"]
        \/ stage' = [stage EXCEPT ![s] = "idle"] /\ mScanPending' = FALSE
    BY <1>7 DEF ResultsFinished, NextChunk, ResultsFailed, processScanLines
  <2> QED
    BY <1>2, <1>3, <2>1, <2>2 DEF ScanStage
<1> QED
  BY <1>4, <1>5, <1>6, <1>7 DEF ScanStep

LEMMA StepQuery == IInv /\ QueryBacked /\ [Next]_vars => QueryBacked'
<1> SUFFICES ASSUME IInv, QueryBacked, [Next]_vars, At("query")' PROVE S!Running("query")'
  BY DEF QueryBacked
<1>1. TypeOK /\ ScanInv /\ asked \in [{"refresh", "query"} -> Nat]
  BY DEF IInv, TypeOK, S!TypeOK
<1>2. ~ \E s \in Scan : ScanStep(s)
  BY <1>1, ScanMoves
<1>3. CASE UNCHANGED pipeline
  <2>1. S!Running("query")
    BY <1>3 DEF pipeline, At, QueryBacked
  <2> QED
    BY <1>1, <1>2, <2>1, QueryRuns DEF ScanStep
<1>4. CASE S!Ask("query")
  BY <1>1, <1>4 DEF S!Ask, S!Running
<1> QED
  BY <1>2, <1>3, <1>4, StageMoves

(* A pipeline stays where it is until it takes a step, and keeps its query. *)
LEMMA ScanKeeps ==
  ASSUME IInv, [Next]_vars, mScanPending, ~ \E s \in Scan : ScanStep(s)
  PROVE  /\ mScanPending' /\ \A x \in ScanStage : At(x) => At(x)'
         /\ HasOutput("query") => HasOutput("query")'
<1>1. UNCHANGED <<mScanPending, stage>>
  BY StageMoves DEF pipeline
<1>2. HasOutput("query") => HasOutput("query")'
  BY QueryRuns DEF IInv, ScanStep, S!Running, HasOutput
<1> QED
  BY <1>1, <1>2 DEF At

(* As above, the guards of the steps in the place of ENABLED.               *)
ScanReady ==
  /\ At("query") /\ HasOutput("query") => ENABLED <<\E s \in Scan : ScanStep(s)>>_vars
  /\ At("request") \/ At("settle") \/ At("results") => ENABLED <<\E s \in Scan : ScanStep(s)>>_vars
  /\ asked["query"] > 0 => ENABLED <<ProcessReads("query")>>_vars

\* A scan gets to its results, or ends, whatever its processes return and
\* whatever is done meanwhile: the query it waits for is never lost, and no
\* other pipeline takes its output.
THEOREM ScanComesToResults == FairSpec /\ []ScanReady => (mScanPending ~> (At("lines") \/ ~mScanPending))
<1> DEFINE Step == \E s \in Scan : ScanStep(s)
           Answered == At("query") /\ HasOutput("query")
           Querying == At("query") /\ ~HasOutput("query")
           Over     == At("lines") \/ ~mScanPending
<1>1. Init => QueryBacked
  BY DEF Init, QueryBacked, At
<1>2. Spec => [](IInv /\ QueryBacked)
  BY <1>1, AlwaysIInv, StepQuery, PTL DEF Spec
<1>3. IInv /\ QueryBacked => Answered \/ Querying \/ At("request") \/ At("settle") \/ At("results") \/ Over
  BY DEF IInv, ScanInv, ScanLock, TypeOK, ScanStage, At
<1>4. IInv /\ [Next]_vars /\ mScanPending /\ ~Step =>
        /\ mScanPending'
        /\ At("query")   => (At("query"))'
        /\ At("request") => (At("request"))'
        /\ At("settle")  => (At("settle"))'
        /\ At("results") => (At("results"))'
        /\ HasOutput("query") => (HasOutput("query"))'
  BY ScanKeeps DEF ScanStage
<1>5. IInv /\ Step =>
        /\ At("query")   => (At("request"))'
        /\ At("request") => (At("settle"))'
        /\ At("settle")  => (At("results"))'
        /\ At("results") => Over'
  BY ScanMoves DEF IInv
<1>6. IInv /\ (At("query") \/ At("request") \/ At("settle") \/ At("results")) => mScanPending
  BY DEF IInv, ScanInv, ScanLock, At
<1>7. IInv /\ QueryBacked /\ Querying => asked["query"] > 0
  BY DEF QueryBacked, S!Running, HasOutput
<1>8. IInv /\ ProcessReads("query") => (HasOutput("query"))'
  <2> SUFFICES ASSUME IInv, ProcessReads("query") PROVE (HasOutput("query"))'
    OBVIOUS
  <2>1. PICK v \in Link \cup {Error} : S!Read("query", v)
    BY DEF ProcessReads, IInv, TypeOK
  <2> QED
    BY <2>1, ReadLeavesOutput DEF IInv
<1>9. ScanReady =>
        /\ Answered => ENABLED <<Step>>_vars
        /\ At("request") \/ At("settle") \/ At("results") => ENABLED <<Step>>_vars
        /\ asked["query"] > 0 => ENABLED <<ProcessReads("query")>>_vars
  BY DEF ScanReady
<1>10. <<Step>>_vars => Step
  OBVIOUS
<1>11. <<ProcessReads("query")>>_vars => ProcessReads("query")
  OBVIOUS
<1> DEFINE Fair == WF_vars(Step) /\ WF_vars(ProcessReads("query"))
           Run  == [](IInv /\ QueryBacked) /\ [][Next]_vars /\ Fair /\ []ScanReady
<1>12. Run => (At("results") ~> Over)
  BY <1>4, <1>5, <1>6, <1>9, <1>10, PTL
<1>13. Run => (At("settle") ~> At("results"))
  BY <1>4, <1>5, <1>6, <1>9, <1>10, PTL
<1>14. Run => (At("request") ~> At("settle"))
  BY <1>4, <1>5, <1>6, <1>9, <1>10, PTL
<1>15. Run => (Answered ~> At("request"))
  BY <1>4, <1>5, <1>6, <1>9, <1>10, PTL
<1>16. Run => (Querying ~> (Answered \/ At("request")))
  BY <1>4, <1>5, <1>6, <1>7, <1>8, <1>9, <1>10, <1>11, PTL
<1>17. FairSpec => Spec /\ Fair
  BY PTL DEF FairSpec
<1> QED
  BY <1>2, <1>3, <1>12, <1>13, <1>14, <1>15, <1>16, <1>17, PTL DEF Spec

(* A chunk of results that are not empty shortens them.                     *)
LEMMA ChunkShortens ==
  ASSUME TypeOK, NEW s \in Scan, lines[s] # <<>>, NextChunk(s)
  PROVE  Len(lines'[s]) < Len(lines[s])
<1> DEFINE results == lines[s]
           end  == IF Len(results) < ChunkSize THEN Len(results) ELSE ChunkSize
           rest == SubSeq(results, end + 1, Len(results))
<1>1. results \in Seq(Line) /\ Len(results) \in Nat
  BY DEF TypeOK
<1>2. Len(results) > 0
  BY <1>1, EmptySeq
<1>3. end \in 1 .. Len(results)
  BY <1>1, <1>2, WifiAssumption DEF WifiAssumption
<1>4. Len(rest) = Len(results) - end
  <2>1. \A i \in end + 1 .. Len(results) : results[i] \in Line
    BY <1>1, <1>3, ElementOfSeq
  <2> QED
    BY <1>1, <1>3, <2>1, SubSeqProperties
<1>5. lines'[s] = rest
  BY DEF NextChunk, processScanLines, TypeOK
<1> QED
  BY <1>1, <1>3, <1>4, <1>5

\* The walk through the results advances and is disturbed by nobody: every turn
\* leaves fewer lines than it found, and no other step touches them, or the
\* pipeline that walks.
THEOREM WalkAdvances ==
  Spec => [][\A s \in Scan : stage[s] = "lines" =>
               IF NextChunk(s) THEN Len(lines'[s]) < Len(lines[s])
                               ELSE stage'[s] = "lines" /\ lines'[s] = lines[s]]_vars
<1> DEFINE Walk == \A s \in Scan : stage[s] = "lines" =>
                     IF NextChunk(s) THEN Len(lines'[s]) < Len(lines[s])
                                     ELSE stage'[s] = "lines" /\ lines'[s] = lines[s]
<1>1. IInv /\ [Next]_vars => Walk
  <2> SUFFICES ASSUME IInv, [Next]_vars, NEW s \in Scan, stage[s] = "lines"
               PROVE  IF NextChunk(s) THEN Len(lines'[s]) < Len(lines[s])
                                      ELSE stage'[s] = "lines" /\ lines'[s] = lines[s]
    OBVIOUS
  <2>1. TypeOK /\ lines[s] # <<>> /\ mScanPending /\ \A t \in Scan \ {s} : stage[t] = "idle"
    BY DEF IInv, ListMirrorsMap, ScanInv, ScanLock
  <2>2. CASE NextChunk(s)
    BY <2>1, <2>2, ChunkShortens
  <2>3. ASSUME ~NextChunk(s), NEW t \in Scan, ScanStep(t) PROVE FALSE
    BY <2>1, <2>3 DEF ScanStep, QueryFinished, RequestFinished, SettleTimeout, StageBecomes,
                      ResultsFinished, ResultsFailed, NextChunk
  <2>4. CASE ~ \E t \in Scan : ScanStep(t)
    BY <2>1, <2>4, StageMoves DEF pipeline, NextChunk, ScanStep
  <2> QED
    BY <2>2, <2>3, <2>4
<1> QED
  BY <1>1, AlwaysIInv, PTL DEF Spec
=============================================================================
