-------------------------------- MODULE Oss --------------------------------
(***************************************************************************)
(* The sound devices and jacks (plugin/src/oss, class OSS): devd notices   *)
(* debounced by a single-shot timer into rescans of the mixers, the        *)
(* default device read from /dev/sndstat, and jack events followed in      *)
(* /var/log/messages with a kqueue.  Everything runs on the event loop,    *)
(* but a scan, the boot and a batch of log lines take many system calls:   *)
(* each is a chain of steps (pc) between which the kernel moves on and no  *)
(* other callback runs.  Levels and mutes are in OssMixer.tla.             *)
(***************************************************************************)
EXTENDS Integers, Sequences, FiniteSets

CONSTANTS
  Unit,        \* numbers of mixer units
  Nid,         \* pins that are jacks
  Headphone,   \* the pins sysctl describes as headphones
  MaxUnread    \* bound: log lines the client has not read

ASSUME OssAssumption == Unit \in SUBSET Nat /\ Headphone \in SUBSET Nid

VARIABLES
  mAvailable,            \* /dev/sndstat existed when the object was made
  pc,                    \* where the event loop is: "idle" or inside a chain of steps
  booting,               \* the constructor has not returned
  todo,                  \* units the scan has still to look at
  mDevices,              \* units that have a device object
  isDefault,             \* those whose isDefault flag is set
  mDefaultDevice,        \* the defaultDevice property, or NoUnit
  mRescanTimer,          \* the debounce timer is active
  mJackStates,           \* per pin: "unknown", TRUE or FALSE as text
  mHeadphonesConnected,  \* the headphonesConnected property
  hpConnected,           \* what the widget shows (Devices.qml)
  watching,              \* the kqueue is registered
  kq,                    \* kernel: the kqueue has an event
  unread,                \* log lines after mLogFilePosition
  deaf,                  \* the open log is not the one written: rotated, or never opened
  units,                 \* kernel: mixers that exist
  defaultUnit,           \* kernel: hw.snd.default_unit
  notices,               \* devd notices on the way to the client
  plugged,               \* hardware: what is in each jack
  excused,               \* history: a notice or a look at the system failed since the last scan began
  lost,                  \* history: pins whose last event the client cannot have read
  mute                   \* history: pins whose change was not shown, as sysctl did not answer

NoUnit == -1

State(b) == IF b THEN "in" ELSE "out"

devices == <<todo, mDevices, isDefault, mDefaultDevice>>
jacks == <<mJackStates, mHeadphonesConnected, hpConnected, watching, deaf, mute>>
logged == <<kq, unread, plugged, lost>>
kernel == <<units, defaultUnit>>
vars == <<mAvailable, pc, booting, devices, mRescanTimer, jacks, logged, kernel, notices, excused>>

Least(S) == CHOOSE u \in S : \A v \in S : u <= v

-----------------------------------------------------------------------------
(* Rescans.                                                                 *)

scanDevices_KeepsDefault ==  \* mutant: the default device is not reset before the devices are deleted
  /\ pc' = "scan" /\ todo' = Unit
  /\ mDevices' = {} /\ isDefault' = {} /\ excused' = FALSE
  /\ UNCHANGED mDefaultDevice

scanDevices ==
  /\ pc' = "scan" /\ todo' = Unit
  /\ mDevices' = {} /\ isDefault' = {} /\ mDefaultDevice' = NoUnit
  /\ excused' = FALSE

RescanTimeout ==
  /\ pc = "idle" /\ mRescanTimer /\ mAvailable
  /\ mRescanTimer' = FALSE
  /\ scanDevices
  /\ UNCHANGED <<mAvailable, booting, jacks, logged, kernel, notices>>

\* A unit is looked at once, in order.  Its mixer may fail to open, and its
\* line of /dev/sndstat may fail to be read.
Probe ==
  /\ pc = "scan" /\ todo # {}
  /\ LET u == Least(todo) IN
       /\ todo' = todo \ {u}
       /\ \/ /\ u \notin units
             /\ UNCHANGED <<mDevices, isDefault, excused>>
          \/ /\ u \in units
             /\ excused' = TRUE
             /\ UNCHANGED <<mDevices, isDefault>>
          \/ /\ u \in units
             /\ mDevices' = mDevices \cup {u}
             /\ isDefault' \in {isDefault, isDefault \cup ({u} \cap {defaultUnit})}
             /\ UNCHANGED excused
  /\ UNCHANGED <<mAvailable, pc, booting, mDefaultDevice, mRescanTimer, jacks, logged, kernel, notices>>

DefaultLine(unit, readable) == IF readable THEN {unit} \cap units ELSE {}

\* Without a default line nothing is unmarked; without a default among the
\* devices the first of them is marked.
updateDefault(unit, readable) ==
  LET line   == DefaultLine(unit, readable)
      listed == line \cap mDevices
      first  == IF listed = {} /\ mDevices # {} THEN {Least(mDevices)} ELSE {} IN
  /\ isDefault' = (IF line = {} THEN isDefault ELSE listed) \cup first
  /\ mDefaultDevice' = IF mDevices = {} THEN NoUnit ELSE Least(listed \cup first)
  /\ excused' = (excused \/ ~readable)

ScanEnds ==
  /\ pc = "scan" /\ todo = {}
  /\ \E readable \in BOOLEAN : updateDefault(defaultUnit, readable)
  /\ pc' = IF booting THEN "jacks" ELSE "idle"
  /\ UNCHANGED <<mAvailable, booting, todo, mDevices, mRescanTimer, jacks, logged, kernel, notices>>

handleDevdEvent_Cdev(n) ==  \* mutant: only the DEVFS notices count
  /\ pc = "idle" /\ n \in notices
  /\ notices' = notices \ {n}
  /\ mRescanTimer' = (mRescanTimer \/ n = "cdev")
  /\ UNCHANGED <<mAvailable, pc, booting, devices, jacks, logged, kernel, excused>>

handleDevdEvent_Toggles(n) ==  \* mutant: a notice while the timer runs stops it
  /\ pc = "idle" /\ n \in notices
  /\ notices' = notices \ {n}
  /\ mRescanTimer' = ~mRescanTimer
  /\ UNCHANGED <<mAvailable, pc, booting, devices, jacks, logged, kernel, excused>>

\* Both kinds ask for a rescan; an active timer is left to run out.
handleDevdEvent(n) ==
  /\ pc = "idle" /\ n \in notices
  /\ notices' = notices \ {n}
  /\ mRescanTimer' = TRUE
  /\ UNCHANGED <<mAvailable, pc, booting, devices, jacks, logged, kernel, excused>>

-----------------------------------------------------------------------------
(* The user, and other programs.  A change sends a notice, which a client   *)
(* that is not connected to devd misses.                                    *)

Notify(n) ==
  \/ notices' = notices \cup {n} /\ UNCHANGED excused
  \/ UNCHANGED notices /\ excused' = TRUE

setDefaultDevice(u) ==
  /\ pc = "idle" /\ u \in mDevices /\ u \in units
  /\ defaultUnit' = u /\ notices' = notices \cup {"default"}
  /\ \E readable \in BOOLEAN : updateDefault(u, readable)
  /\ UNCHANGED <<mAvailable, pc, booting, todo, mDevices, mRescanTimer, jacks, logged, units>>

refresh ==
  /\ pc = "idle" /\ mAvailable
  /\ \E readable \in BOOLEAN : updateDefault(defaultUnit, readable)
  /\ UNCHANGED <<mAvailable, pc, booting, todo, mDevices, mRescanTimer, jacks, logged, kernel, notices>>

Attach(u) ==
  /\ u \notin units /\ units' = units \cup {u} /\ Notify("cdev")
  /\ UNCHANGED <<mAvailable, pc, booting, devices, mRescanTimer, jacks, logged, defaultUnit>>

Detach(u) ==
  /\ u \in units /\ units' = units \ {u} /\ Notify("cdev")
  /\ UNCHANGED <<mAvailable, pc, booting, devices, mRescanTimer, jacks, logged, defaultUnit>>

DefaultChanges(u) ==
  /\ u # defaultUnit /\ defaultUnit' = u /\ Notify("default")
  /\ UNCHANGED <<mAvailable, pc, booting, devices, mRescanTimer, jacks, logged, units>>

-----------------------------------------------------------------------------
(* Jacks at boot: the list of pins, the end of the log, the headphones, and *)
(* only then the end of the log is found and watched.                       *)

readRecentLogMessages(recent) ==
  mJackStates' = [n \in Nid |-> State(n \in recent /\ plugged[n])]

\* The property ends as the state of the last headphone pin that sysctl
\* describes, in the order of a hash.
syncJackProperties(answers) ==
  IF answers = {} THEN {FALSE} ELSE {mJackStates'[n] = "in" : n \in answers}

initializeJackStates ==
  /\ pc = "jacks" /\ pc' = "seek"
  /\ \/ UNCHANGED <<mJackStates, mHeadphonesConnected, hpConnected, mute>> /\ lost' = Nid
     \/ \E recent \in SUBSET Nid, answers \in SUBSET Headphone :
          /\ readRecentLogMessages(recent)
          /\ lost' = {n \in Nid \ recent : plugged[n]}
          /\ mHeadphonesConnected' \in syncJackProperties(answers)
          /\ hpConnected' = mHeadphonesConnected'
          /\ mute' = Headphone \ answers
  /\ UNCHANGED <<mAvailable, booting, devices, mRescanTimer, watching, deaf, kq, unread, plugged,
                 kernel, notices, excused>>

setupJackDetection_Seek ==
  /\ pc = "seek"
  /\ \/ pc' = "watch" /\ UNCHANGED <<booting, deaf, lost>>
     \/ pc' = "idle" /\ booting' = FALSE /\ deaf' = TRUE /\ lost' = Nid
  /\ unread' = <<>>
  /\ UNCHANGED <<mAvailable, devices, mRescanTimer, mJackStates, mHeadphonesConnected, hpConnected,
                 watching, mute, kq, plugged, kernel, notices, excused>>

setupJackDetection_Watch ==
  /\ pc = "watch" /\ pc' = "idle" /\ booting' = FALSE
  /\ watching' = TRUE
  /\ UNCHANGED <<mAvailable, devices, mRescanTimer, mJackStates, mHeadphonesConnected, hpConnected,
                 deaf, mute, logged, kernel, notices, excused>>

-----------------------------------------------------------------------------
(* Jacks afterwards: an event of the kqueue reads the log to its end.       *)

handleKqueueEvent ==
  /\ pc = "idle" /\ watching /\ kq
  /\ kq' = FALSE
  /\ pc' = IF unread = <<>> THEN "idle" ELSE "lines"
  /\ UNCHANGED <<mAvailable, booting, devices, mRescanTimer, jacks, unread, plugged, lost, kernel,
                 notices, excused>>

parseLogLine_First ==  \* mutant: a batch ends after its first line, the position at its end
  /\ pc = "lines" /\ pc' = "idle"
  /\ LET line == Head(unread) IN
       /\ mJackStates' = [mJackStates EXCEPT ![line.nid] = State(line.in)]
       /\ hpConnected' = IF line.nid \in Headphone THEN line.in ELSE hpConnected
  /\ unread' = <<>>
  /\ UNCHANGED <<mAvailable, booting, devices, mRescanTimer, mHeadphonesConnected, watching, deaf,
                 mute, kq, plugged, lost, kernel, notices, excused>>

\* identifyJackType asks sysctl for the kind of pin, and waits 100 ms at most;
\* its signal carries the state the widget shows.
parseLogLine ==
  /\ pc = "lines"
  /\ LET line == Head(unread) IN
       IF mJackStates[line.nid] = State(line.in) THEN UNCHANGED <<mJackStates, hpConnected, mute>>
       ELSE /\ mJackStates' = [mJackStates EXCEPT ![line.nid] = State(line.in)]
            /\ \/ /\ hpConnected' = IF line.nid \in Headphone THEN line.in ELSE hpConnected
                  /\ mute' = mute \ {line.nid}
               \/ UNCHANGED hpConnected /\ mute' = mute \cup {line.nid}
  /\ unread' = Tail(unread)
  /\ pc' = IF Len(unread) = 1 THEN "idle" ELSE "lines"
  /\ UNCHANGED <<mAvailable, booting, devices, mRescanTimer, mHeadphonesConnected, watching, deaf,
                 kq, plugged, lost, kernel, notices, excused>>

\* A line written before the log's end was sought is not read, one written
\* before the kqueue was registered waits for the next line of any kind.
JackChanges(n) ==
  /\ mAvailable /\ Len(unread) < MaxUnread
  /\ plugged' = [plugged EXCEPT ![n] = ~@]
  /\ \/ /\ booting /\ pc = "scan"
        /\ UNCHANGED <<unread, kq, lost>>
     \/ /\ booting /\ pc = "jacks"
        /\ UNCHANGED <<unread, kq, lost>>
     \/ /\ pc = "seek" \/ deaf
        /\ lost' = lost \cup {n}
        /\ UNCHANGED <<unread, kq>>
     \/ /\ ~deaf /\ (pc = "watch" \/ ~booting)
        /\ unread' = Append(unread, [nid |-> n, in |-> plugged'[n]])
        /\ kq' = watching
        /\ lost' = lost \ {n}
  /\ UNCHANGED <<mAvailable, pc, booting, devices, mRescanTimer, jacks, kernel, notices, excused>>

OtherLine ==
  /\ watching /\ ~deaf /\ kq' = TRUE
  /\ UNCHANGED <<mAvailable, pc, booting, devices, mRescanTimer, jacks, unread, plugged, lost, kernel,
                 notices, excused>>

\* newsyslog moves the log away: the descriptor stays with the old file.
LogRotates ==
  /\ watching /\ ~deaf /\ deaf' = TRUE
  /\ UNCHANGED <<mAvailable, pc, booting, devices, mRescanTimer, mJackStates, mHeadphonesConnected,
                 hpConnected, watching, mute, logged, kernel, notices, excused>>

-----------------------------------------------------------------------------

Init ==
  /\ mAvailable \in BOOLEAN
  /\ pc = (IF mAvailable THEN "scan" ELSE "idle")
  /\ booting = mAvailable
  /\ todo = (IF mAvailable THEN Unit ELSE {})
  /\ mDevices = {} /\ isDefault = {} /\ mDefaultDevice = NoUnit
  /\ mRescanTimer = FALSE
  /\ mJackStates = [n \in Nid |-> "unknown"]
  /\ mHeadphonesConnected = FALSE /\ hpConnected = FALSE
  /\ watching = FALSE /\ kq = FALSE /\ unread = <<>> /\ deaf = FALSE
  /\ units \in SUBSET Unit /\ defaultUnit \in Unit /\ notices = {}
  /\ plugged \in [Nid -> BOOLEAN]
  /\ excused = FALSE /\ lost = {} /\ mute = {}

Chain ==
  \/ Probe \/ ScanEnds
  \/ initializeJackStates \/ setupJackDetection_Seek \/ setupJackDetection_Watch
  \/ parseLogLine

Next ==
  \/ RescanTimeout \/ refresh \/ handleKqueueEvent
  \/ \E n \in {"cdev", "default"} : handleDevdEvent(n)
  \/ Chain
  \/ \E u \in Unit : setDefaultDevice(u) \/ Attach(u) \/ Detach(u) \/ DefaultChanges(u)
  \/ OtherLine \/ LogRotates
  \/ \E n \in Nid : JackChanges(n)

Spec == Init /\ [][Next]_vars

(* A chain of system calls goes on, and a batch of log lines comes to its   *)
(* end, as the log is not for ever written faster than it is read; between  *)
(* chains the event loop delivers notices and serves the timer, however     *)
(* busy the rest is.                                                        *)
FairSpec ==
  /\ Spec
  /\ WF_vars(Chain)
  /\ []<>(pc # "lines")
  /\ SF_vars(\E n \in {"cdev", "default"} : handleDevdEvent(n))
  /\ SF_vars(RescanTimeout)

-----------------------------------------------------------------------------
(* Properties *)

\* Every variable has the type of its member in oss.hpp; only a scan works
\* through units, and only one that has a device is marked as the default.
TypeOK ==
  /\ mAvailable \in BOOLEAN /\ booting \in BOOLEAN /\ mRescanTimer \in BOOLEAN
  /\ pc \in {"idle", "scan", "jacks", "seek", "watch", "lines"}
  /\ todo \in SUBSET Unit /\ (todo # {} => pc = "scan")
  /\ mDevices \in SUBSET Unit /\ isDefault \in SUBSET mDevices
  /\ mDefaultDevice \in mDevices \cup {NoUnit}
  /\ mJackStates \in [Nid -> {"unknown", "in", "out"}]
  /\ mHeadphonesConnected \in BOOLEAN /\ hpConnected \in BOOLEAN
  /\ watching \in BOOLEAN /\ kq \in BOOLEAN /\ deaf \in BOOLEAN
  /\ unread \in Seq([nid : Nid, in : BOOLEAN])
  /\ units \in SUBSET Unit /\ defaultUnit \in Unit /\ notices \in SUBSET {"cdev", "default"}
  /\ plugged \in [Nid -> BOOLEAN]
  /\ excused \in BOOLEAN /\ lost \in SUBSET Nid /\ mute \in SUBSET Nid

\* Nothing is left to do and no notice or system call failed: the bar lists
\* the kernel's devices and marks exactly one as the default, the kernel's if
\* that exists.  So no change slips between the debounce timer and the scan
\* that it starts, wherever in the scan it falls (oss.cpp:360, 410).
SettledAgrees ==
  mAvailable /\ pc = "idle" /\ ~mRescanTimer /\ notices = {} /\ ~excused =>
    /\ mDevices = units
    /\ units # {} =>
         /\ mDefaultDevice = IF defaultUnit \in units THEN defaultUnit ELSE Least(units)
         /\ isDefault = {mDefaultDevice}

\* A notice about sound is always followed by a rescan.
NoticeRescans == notices # {} /\ mAvailable ~> pc = "scan"

\* A jack shows what was last logged about it, once the log is read, except
\* for what was logged where the client does not look: beyond the end of the
\* log at boot, between its two looks at it, and after a rotation.
JacksFollowLog ==
  pc = "idle" /\ watching /\ unread = <<>> =>
    \A n \in Nid \ lost :
      /\ mJackStates[n] = State(plugged[n])
      /\ n \in Headphone \ mute /\ Headphone = {n} => hpConnected = plugged[n]

\* "headphonesConnected: audio jack detection", notified by headphonesChanged
\* (oss.hpp:139-155): the property says what was last logged about the jack.
HeadphonesConnectedFollows ==
  pc = "idle" /\ watching /\ unread = <<>> =>
    \A n \in Headphone \ (lost \cup mute) : mHeadphonesConnected = plugged[n]
=============================================================================
