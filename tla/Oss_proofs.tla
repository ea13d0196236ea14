----------------------------- MODULE Oss_proofs -----------------------------
(***************************************************************************)
(* Proofs about the sound devices: wherever in a scan a device comes, goes  *)
(* or becomes the default, the list agrees with the kernel in the end; the  *)
(* default device is never one that is not listed; a jack shows what was    *)
(* last logged about it; a notice is followed by a scan.  The last section  *)
(* is about the controls of a mixer.                                        *)
(***************************************************************************)
EXTENDS Oss, OssMixer, SequenceTheorems, WellFoundedInduction, TLAPS

(* Nothing is left to do, and nothing failed since the last scan began.     *)
Quiet == mAvailable /\ ~mRescanTimer /\ notices = {} /\ ~excused

(* What a scan has listed so far: the mixers it has passed.                 *)
Scanned == mDevices = units \ todo /\ isDefault \subseteq {defaultUnit} \cap mDevices

Settled ==
  /\ mDevices = units
  /\ units # {} =>
       /\ mDefaultDevice = IF defaultUnit \in units THEN defaultUnit ELSE Least(units)
       /\ isDefault = {mDefaultDevice}

(* SettledAgrees says nothing inside a chain of steps: a quiet scan must    *)
(* have passed exactly the units the kernel has now.                        *)
IInv ==
  /\ units \in SUBSET Unit
  /\ Quiet => IF pc = "scan" THEN Scanned ELSE Settled

-----------------------------------------------------------------------------
(* A set of units that is not empty has a least unit.                       *)
LEMMA LeastIsMember ==
  ASSUME NEW S \in SUBSET Nat, S # {}
  PROVE  Least(S) \in S /\ \A v \in S : Least(S) <= v
<1> DEFINE R == OpToRel(<, Nat)
<1>1. IsWellFoundedOn(R, Nat)
  BY NatLessThanWellFounded, Zenon
<1>2. \A x, y \in Nat : y < x => <<y, x>> \in R
  BY Zenon DEF OpToRel
<1> HIDE DEF R
<1>3. PICK x \in S : \A y \in S : ~(<<y, x>> \in R)
  BY <1>1, WFMin, Zenon
<1>4. ASSUME NEW y \in S PROVE x <= y
  <2>1. x \in Nat /\ y \in Nat
    OBVIOUS
  <2>2. ~(y < x)
    BY <1>2, <1>3, <2>1, Zenon
  <2> QED BY <2>1, <2>2
<1> QED BY <1>3, <1>4 DEF Least

LEMMA LeastOfOne ==
  ASSUME NEW n \in Nat
  PROVE  Least({n}) = n
  BY LeastIsMember

(* The default chosen among complete devices, from a readable status.       *)
LEMMA DefaultChosen ==
  ASSUME units \in SUBSET Unit, mDevices = units, UNCHANGED <<mDevices, units, defaultUnit>>,
         updateDefault(defaultUnit, TRUE),
         Settled \/ isDefault \subseteq {defaultUnit} \cap mDevices
  PROVE  Settled'
<1>1. units \in SUBSET Nat
  BY OssAssumption DEF OssAssumption
<1>2. CASE units = {}
  BY <1>2 DEF Settled
<1>3. CASE defaultUnit \in units
  <2>1. isDefault' = {defaultUnit} /\ mDefaultDevice' = Least({defaultUnit})
    BY <1>3 DEF updateDefault, DefaultLine
  <2>2. Least({defaultUnit}) = defaultUnit
    BY <1>1, <1>3, LeastOfOne
  <2> QED BY <1>3, <2>1, <2>2 DEF Settled
<1>4. CASE units # {} /\ defaultUnit \notin units
  <2>1. Least(units) \in Nat
    BY <1>1, <1>4, LeastIsMember
  <2>2. isDefault' = isDefault \cup {Least(units)} /\ mDefaultDevice' = Least({Least(units)})
    BY <1>4 DEF updateDefault, DefaultLine
  <2>3. isDefault \subseteq {Least(units)}
    BY <1>4 DEF Settled
  <2>4. Least({Least(units)}) = Least(units)
    BY <2>1, LeastOfOne
  <2> QED BY <1>4, <2>2, <2>3, <2>4 DEF Settled
<1> QED BY <1>2, <1>3, <1>4

-----------------------------------------------------------------------------
LEMMA InitIInv == Init => IInv
  BY DEF Init, IInv, Quiet, Scanned, Settled

(* The steps of the jacks leave the devices alone and no scan begins.       *)
LEMMA JackStep ==
  ASSUME IInv, UNCHANGED <<mAvailable, devices, mRescanTimer, kernel, notices, excused>>,
         (pc' = "scan") <=> (pc = "scan")
  PROVE  IInv'
  BY DEF IInv, Quiet, Scanned, Settled, devices, kernel

LEMMA NextIInv == IInv /\ [Next]_vars => IInv'
<1> SUFFICES ASSUME IInv, [Next]_vars PROVE IInv'
  OBVIOUS
<1>1. CASE RescanTimeout
  <2>1. pc' = "scan" /\ todo' = Unit /\ mDevices' = {} /\ isDefault' = {} /\ UNCHANGED kernel
    BY <1>1 DEF RescanTimeout, scanDevices
  <2> QED BY <2>1 DEF IInv, Scanned, kernel
<1>2. CASE refresh
  <2>1. PICK readable \in BOOLEAN : updateDefault(defaultUnit, readable)
    BY <1>2 DEF refresh
  <2>2. pc = "idle" /\ UNCHANGED <<mAvailable, pc, mDevices, mRescanTimer, kernel, notices>>
    BY <1>2 DEF refresh
  <2>3. excused' = (excused \/ ~readable)
    BY <2>1 DEF updateDefault
  <2>4. ASSUME Quiet' PROVE Settled'
    <3>1. readable = TRUE /\ Quiet
      BY <2>2, <2>3, <2>4 DEF Quiet
    <3>2. Settled
      BY <2>2, <3>1 DEF IInv
    <3> QED BY <2>1, <2>2, <3>1, <3>2, DefaultChosen DEF IInv, Settled, kernel
  <2> QED BY <2>2, <2>4 DEF IInv, kernel
<1>3. CASE Probe
  <2>1. pc = "scan" /\ UNCHANGED <<mAvailable, pc, mRescanTimer, kernel, notices>>
    BY <1>3 DEF Probe
  <2>2. ASSUME Quiet' PROVE Scanned'
    <3> DEFINE u == Least(todo)
    <3>1. todo' = todo \ {u} /\ UNCHANGED <<units, defaultUnit>>
      BY <1>3 DEF Probe, kernel
    <3>2. \/ u \notin units /\ UNCHANGED <<mDevices, isDefault, excused>>
          \/ /\ u \in units /\ mDevices' = mDevices \cup {u} /\ UNCHANGED excused
             /\ isDefault' \in {isDefault, isDefault \cup ({u} \cap {defaultUnit})}
      BY <1>3, <2>2 DEF Probe, Quiet
    <3>3. Scanned
      BY <2>1, <2>2, <3>2 DEF Quiet, IInv
    <3> HIDE DEF u
    <3> QED BY <3>1, <3>2, <3>3 DEF Scanned
  <2> QED BY <2>1, <2>2 DEF IInv, kernel
<1>4. CASE ScanEnds
  <2>1. PICK readable \in BOOLEAN : updateDefault(defaultUnit, readable)
    BY <1>4 DEF ScanEnds
  <2>2. pc = "scan" /\ todo = {} /\ pc' # "scan"
        /\ UNCHANGED <<mAvailable, mDevices, mRescanTimer, kernel, notices>>
    BY <1>4 DEF ScanEnds
  <2>3. excused' = (excused \/ ~readable)
    BY <2>1 DEF updateDefault
  <2>4. ASSUME Quiet' PROVE Settled'
    <3>1. readable = TRUE /\ Quiet
      BY <2>2, <2>3, <2>4 DEF Quiet
    <3>2. mDevices = units /\ isDefault \subseteq {defaultUnit} \cap mDevices
      BY <2>2, <3>1 DEF IInv, Scanned
    <3> QED BY <2>1, <2>2, <3>1, <3>2, DefaultChosen DEF IInv, kernel
  <2> QED BY <2>2, <2>4 DEF IInv, kernel
<1>5. ASSUME NEW n \in {"cdev", "default"}, handleDevdEvent(n) PROVE IInv'
  BY <1>5 DEF handleDevdEvent, IInv, Quiet, kernel
<1>6. ASSUME NEW u \in Unit, setDefaultDevice(u) PROVE IInv'
  BY <1>6 DEF setDefaultDevice, IInv, Quiet
<1>7. ASSUME NEW u \in Unit, Attach(u) \/ Detach(u) \/ DefaultChanges(u) PROVE IInv'
  <2>1. units' \in SUBSET Unit
    BY <1>7 DEF Attach, Detach, DefaultChanges, IInv
  <2>2. notices' # {} \/ excused'
    BY <1>7 DEF Attach, Detach, DefaultChanges, Notify
  <2> QED BY <2>1, <2>2 DEF IInv, Quiet
<1>8. CASE handleKqueueEvent
  BY <1>8, JackStep DEF handleKqueueEvent
<1>9. CASE initializeJackStates
  BY <1>9, JackStep DEF initializeJackStates
<1>10. CASE setupJackDetection_Seek \/ setupJackDetection_Watch
  BY <1>10, JackStep DEF setupJackDetection_Seek, setupJackDetection_Watch
<1>11. CASE parseLogLine
  BY <1>11, JackStep DEF parseLogLine
<1>12. CASE OtherLine \/ LogRotates
  BY <1>12, JackStep DEF OtherLine, LogRotates
<1>13. ASSUME NEW n \in Nid, JackChanges(n) PROVE IInv'
  BY <1>13, JackStep DEF JackChanges
<1>14. CASE UNCHANGED vars
  BY <1>14, JackStep DEF vars
<1> QED
  BY <1>1, <1>2, <1>3, <1>4, <1>5, <1>6, <1>7, <1>8, <1>9, <1>10, <1>11, <1>12, <1>13, <1>14
  DEF Next, Chain

(* Once nothing is left to do and nothing failed, the bar lists the kernel's *)
(* devices and marks the kernel's default, or the first, wherever in a scan  *)
(* the kernel changed (scanDevices, updateDefault, handleDevdEvent).         *)
THEOREM SettledAgreesHolds == Spec => []SettledAgrees
<1>1. IInv => SettledAgrees
  BY DEF IInv, SettledAgrees, Quiet, Settled
<1> QED BY InitIInv, NextIInv, <1>1, PTL DEF Spec

-----------------------------------------------------------------------------
(* The types.  What is worth saying is that no device is the default that   *)
(* was deleted, and that a batch of log lines in progress has a line left.  *)
TypeInv == TypeOK /\ (pc = "lines" => unread # <<>>)

LogLine == [nid : Nid, in : BOOLEAN]

(* Whoever chooses the default chooses among the devices.                   *)
LEMMA DefaultIsDevice ==
  ASSUME TypeOK, NEW unit \in Unit, NEW readable \in BOOLEAN, updateDefault(unit, readable),
         mDevices' = mDevices
  PROVE  isDefault' \in SUBSET mDevices' /\ mDefaultDevice' \in mDevices' \cup {NoUnit}
         /\ excused' \in BOOLEAN
<1>1. mDevices \in SUBSET Nat /\ isDefault \in SUBSET mDevices /\ excused \in BOOLEAN
  BY OssAssumption DEF OssAssumption, TypeOK
<1> DEFINE line == DefaultLine(unit, readable)
           listed == line \cap mDevices
           first == IF listed = {} /\ mDevices # {} THEN {Least(mDevices)} ELSE {}
<1>2. /\ isDefault' = (IF line = {} THEN isDefault ELSE listed) \cup first
      /\ mDefaultDevice' = IF mDevices = {} THEN NoUnit ELSE Least(listed \cup first)
      /\ excused' = (excused \/ ~readable)
  BY DEF updateDefault
<1>3. mDevices # {} => Least(mDevices) \in mDevices
  BY <1>1, LeastIsMember
<1>4. first \in SUBSET mDevices /\ listed \in SUBSET mDevices /\ (mDevices # {} => listed \cup first # {})
  BY <1>3
<1> HIDE DEF line, listed, first
<1>5. mDevices # {} => Least(listed \cup first) \in listed \cup first
  BY <1>1, <1>4, LeastIsMember
<1> QED BY <1>1, <1>2, <1>4, <1>5

LEMMA InitType == Init => TypeInv
<1> SUFFICES ASSUME Init PROVE TypeInv
  OBVIOUS
<1>1. unread \in Seq(LogLine) /\ unread = <<>>
  BY DEF Init
<1>2. mJackStates \in [Nid -> {"unknown", "in", "out"}]
  BY DEF Init
<1> QED BY <1>1, <1>2 DEF Init, TypeInv, TypeOK, LogLine

LEMMA NextType == TypeInv /\ [Next]_vars => TypeInv'
<1> SUFFICES ASSUME TypeInv, [Next]_vars PROVE TypeInv'
  OBVIOUS
<1> USE DEF TypeInv, TypeOK
<1>1. CASE RescanTimeout
  BY <1>1 DEF RescanTimeout, scanDevices, jacks, logged, kernel
<1>2. CASE Probe
  <2>1. UNCHANGED <<mAvailable, pc, booting, mDefaultDevice, mRescanTimer, jacks, logged, kernel, notices>>
    BY <1>2 DEF Probe
  <2>2. todo' \in SUBSET todo /\ mDevices' \in {mDevices, mDevices \cup {Least(todo)}}
        /\ (mDevices' # mDevices => Least(todo) \in units)
        /\ isDefault' \in {isDefault, isDefault \cup ({Least(todo)} \cap {defaultUnit})}
        /\ (isDefault' # isDefault => mDevices' = mDevices \cup {Least(todo)})
        /\ excused' \in {excused, TRUE}
    BY <1>2 DEF Probe
  <2>3. mDevices' \in SUBSET Unit /\ isDefault' \in SUBSET mDevices' /\ mDefaultDevice' \in mDevices' \cup {NoUnit}
    BY <2>1, <2>2
  <2> QED BY <1>2, <2>1, <2>2, <2>3 DEF Probe, jacks, logged, kernel
<1>3. CASE ScanEnds
  <2>1. PICK readable \in BOOLEAN : updateDefault(defaultUnit, readable)
    BY <1>3 DEF ScanEnds
  <2>2. isDefault' \in SUBSET mDevices' /\ mDefaultDevice' \in mDevices' \cup {NoUnit} /\ excused' \in BOOLEAN
    BY <1>3, <2>1, DefaultIsDevice DEF ScanEnds
  <2> QED BY <1>3, <2>2 DEF ScanEnds, jacks, logged, kernel
<1>4. CASE refresh
  <2>1. PICK readable \in BOOLEAN : updateDefault(defaultUnit, readable)
    BY <1>4 DEF refresh
  <2>2. isDefault' \in SUBSET mDevices' /\ mDefaultDevice' \in mDevices' \cup {NoUnit} /\ excused' \in BOOLEAN
    BY <1>4, <2>1, DefaultIsDevice DEF refresh
  <2> QED BY <1>4, <2>2 DEF refresh, jacks, logged, kernel
<1>5. ASSUME NEW u \in Unit, setDefaultDevice(u) PROVE TypeInv'
  <2>1. PICK readable \in BOOLEAN : updateDefault(u, readable)
    BY <1>5 DEF setDefaultDevice
  <2>2. isDefault' \in SUBSET mDevices' /\ mDefaultDevice' \in mDevices' \cup {NoUnit} /\ excused' \in BOOLEAN
    BY <1>5, <2>1, DefaultIsDevice DEF setDefaultDevice
  <2> QED BY <1>5, <2>2 DEF setDefaultDevice, jacks, logged
<1>6. ASSUME NEW n \in {"cdev", "default"}, handleDevdEvent(n) PROVE TypeInv'
  BY <1>6 DEF handleDevdEvent, devices, jacks, logged, kernel
<1>7. ASSUME NEW u \in Unit, Attach(u) \/ Detach(u) \/ DefaultChanges(u) PROVE TypeInv'
  <2>1. notices' \in SUBSET {"cdev", "default"} /\ excused' \in BOOLEAN
    BY <1>7 DEF Attach, Detach, DefaultChanges, Notify
  <2>2. units' \in SUBSET Unit /\ defaultUnit' \in Unit
    BY <1>7 DEF Attach, Detach, DefaultChanges
  <2>3. UNCHANGED <<mAvailable, pc, booting, devices, mRescanTimer, jacks, logged>>
    BY <1>7 DEF Attach, Detach, DefaultChanges
  <2> QED BY <2>1, <2>2, <2>3 DEF devices, jacks, logged
<1>8. CASE initializeJackStates
  <2>1. /\ mJackStates' \in [Nid -> {"unknown", "in", "out"}]
        /\ mHeadphonesConnected' \in BOOLEAN /\ hpConnected' \in BOOLEAN
        /\ lost' \in SUBSET Nid /\ mute' \in SUBSET Nid
    <3>1. CASE UNCHANGED <<mJackStates, mHeadphonesConnected, hpConnected, mute>> /\ lost' = Nid
      BY <3>1
    <3>2. ASSUME NEW recent \in SUBSET Nid, NEW answers \in SUBSET Headphone,
                 readRecentLogMessages(recent), lost' = {n \in Nid \ recent : plugged[n]},
                 mHeadphonesConnected' \in syncJackProperties(answers),
                 hpConnected' = mHeadphonesConnected', mute' = Headphone \ answers
          PROVE  /\ mJackStates' \in [Nid -> {"unknown", "in", "out"}]
                 /\ mHeadphonesConnected' \in BOOLEAN /\ hpConnected' \in BOOLEAN
                 /\ lost' \in SUBSET Nid /\ mute' \in SUBSET Nid
      <4>1. mJackStates' \in [Nid -> {"unknown", "in", "out"}]
        BY <3>2 DEF readRecentLogMessages, State
      <4>2. mHeadphonesConnected' \in BOOLEAN
        BY <3>2 DEF syncJackProperties
      <4> QED BY <3>2, <4>1, <4>2, OssAssumption
    <3> QED BY <1>8, <3>1, <3>2 DEF initializeJackStates
  <2> QED BY <1>8, <2>1 DEF initializeJackStates, devices, kernel
<1>9. CASE setupJackDetection_Seek
  <2>1. unread' \in Seq(LogLine)
    BY <1>9 DEF setupJackDetection_Seek
  <2> QED BY <1>9, <2>1 DEF setupJackDetection_Seek, devices, kernel, LogLine
<1>10. CASE setupJackDetection_Watch
  BY <1>10 DEF setupJackDetection_Watch, devices, kernel, logged
<1>11. CASE handleKqueueEvent
  BY <1>11 DEF handleKqueueEvent, devices, jacks, kernel
<1>12. CASE parseLogLine
  <2> DEFINE line == Head(unread)
  <2>1. unread \in Seq(LogLine) /\ unread # <<>> /\ pc = "lines"
    BY <1>12 DEF parseLogLine, LogLine
  <2>2. line \in LogLine /\ unread' = Tail(unread) /\ unread' \in Seq(LogLine)
        /\ (Len(unread) # 1 => unread' # <<>>)
    <3>1. unread' = Tail(unread)
      BY <1>12 DEF parseLogLine
    <3>2. line \in LogLine /\ Tail(unread) \in Seq(LogLine) /\ Len(Tail(unread)) = Len(unread) - 1
      BY <2>1, HeadTailProperties
    <3>3. Len(unread) \in Nat
      BY <2>1
    <3> DEFINE rest == Tail(unread)
    <3> HIDE DEF rest
    <3>4. rest \in Seq(LogLine) /\ Len(rest) = Len(unread) - 1
      BY <3>2 DEF rest
    <3>5. Len(unread) # 1 => rest # <<>>
      BY <3>3, <3>4, EmptySeq
    <3> QED BY <3>1, <3>2, <3>5 DEF rest
  <2>3. line.nid \in Nid /\ line.in \in BOOLEAN
    BY <2>2 DEF LogLine
  <2> HIDE DEF line
  <2>4. mJackStates' \in {mJackStates, [mJackStates EXCEPT ![line.nid] = State(line.in)]}
        /\ hpConnected' \in {hpConnected, line.in}
        /\ mute' \in {mute, mute \ {line.nid}, mute \cup {line.nid}}
    BY <1>12 DEF parseLogLine, line
  <2>5. State(line.in) \in {"in", "out"}
    BY DEF State
  <2>6. mJackStates' \in [Nid -> {"unknown", "in", "out"}] /\ hpConnected' \in BOOLEAN /\ mute' \in SUBSET Nid
    BY <2>3, <2>4, <2>5
  <2> QED BY <1>12, <2>1, <2>2, <2>6 DEF parseLogLine, devices, kernel, LogLine
<1>13. CASE OtherLine \/ LogRotates
  <2>1. CASE OtherLine
    BY <2>1 DEF OtherLine, devices, jacks, kernel
  <2>2. CASE LogRotates
    BY <2>2 DEF LogRotates, devices, logged, kernel
  <2> QED BY <1>13, <2>1, <2>2
<1>14. ASSUME NEW n \in Nid, JackChanges(n) PROVE TypeInv'
  <2>1. plugged' = [plugged EXCEPT ![n] = ~@]
    BY <1>14 DEF JackChanges
  <2>2. plugged' \in [Nid -> BOOLEAN]
    BY <2>1
  <2>3. [nid |-> n, in |-> plugged'[n]] \in LogLine
    BY <2>2 DEF LogLine
  <2>4. unread' \in {unread, Append(unread, [nid |-> n, in |-> plugged'[n]])}
        /\ lost' \in {lost, lost \cup {n}, lost \ {n}} /\ kq' \in {kq, watching}
    BY <1>14 DEF JackChanges
  <2>5. unread' \in Seq(LogLine) /\ (unread # <<>> => unread' # <<>>)
    <3> DEFINE line == [nid |-> n, in |-> plugged'[n]]
    <3>1. unread \in Seq(LogLine)
      BY DEF LogLine
    <3>2. Append(unread, line) \in Seq(LogLine) /\ Len(Append(unread, line)) > 0
      BY <2>3, <3>1
    <3>3. Append(unread, line) # <<>>
      BY <3>2
    <3> QED BY <2>4, <3>1, <3>2, <3>3
  <2> QED BY <1>14, <2>2, <2>4, <2>5 DEF JackChanges, devices, jacks, kernel, LogLine
<1>15. CASE UNCHANGED vars
  BY <1>15 DEF vars, devices, jacks, logged, kernel
<1> QED
  BY <1>1, <1>2, <1>3, <1>4, <1>5, <1>6, <1>7, <1>8, <1>9, <1>10, <1>11, <1>12, <1>13, <1>14, <1>15
  DEF Next, Chain

(* For any set of units the default device is one that is listed, also in   *)
(* the middle of a scan that has deleted them all (oss.cpp:677-760).        *)
THEOREM TypeCorrect == Spec => []TypeOK
<1>1. TypeInv => TypeOK
  BY DEF TypeInv
<1> QED BY InitType, NextType, <1>1, PTL DEF Spec
-----------------------------------------------------------------------------
(* Jacks.  JacksFollowLog speaks of a log that is read.  In general the     *)
(* last unread line about a pin tells the truth, or there is none and the   *)
(* truth is what was taken from the one before it.                          *)

LineTells(n) ==
  \E i \in 1..Len(unread) :
    /\ unread[i].nid = n /\ State(unread[i].in) = State(plugged[n])
    /\ \A j \in i+1..Len(unread) : unread[j].nid # n

StateTells(n) ==
  /\ \A i \in 1..Len(unread) : unread[i].nid # n
  /\ mJackStates[n] = State(plugged[n])

(* Until the end of the log is sought there are no lines to rely on.        *)
Followed ==
  /\ watching => ~booting
  /\ pc \in {"jacks", "seek", "watch"} => booting
  /\ pc = "seek" => \A n \in Nid \ lost : mJackStates[n] = State(plugged[n])
  /\ watching \/ pc = "watch" => \A n \in Nid \ lost : LineTells(n) \/ StateTells(n)

(* The widget shows what is known of the only headphone jack, unless sysctl *)
(* did not say that it is one.                                              *)
WidgetFollows ==
  \A n \in Nid : Headphone = {n} /\ n \notin mute => (hpConnected <=> mJackStates[n] = "in")

JackInv == Followed /\ WidgetFollows

LEMMA StatesDiffer == State(TRUE) = "in" /\ State(FALSE) = "out"
  BY DEF State

LEMMA InitJacks == Init => JackInv
  BY DEF Init, JackInv, Followed, WidgetFollows

(* Steps of the scans leave the jacks alone.                                *)
LEMMA JacksUntouched ==
  ASSUME JackInv, UNCHANGED <<booting, mJackStates, hpConnected, watching, mute, unread, plugged>>,
         lost \subseteq lost',
         \/ pc' = pc
         \/ pc' \in {"idle", "scan", "lines"}
         \/ pc' = "jacks" /\ booting
  PROVE  JackInv'
<1>1. Followed'
  <2>1. \A n : (LineTells(n) <=> LineTells(n)') /\ (StateTells(n) <=> StateTells(n)')
    BY DEF LineTells, StateTells
  <2> QED BY <2>1 DEF JackInv, Followed
<1>2. WidgetFollows'
  BY DEF JackInv, WidgetFollows
<1> QED BY <1>1, <1>2 DEF JackInv

(* A line is written about pin p.                                           *)
LEMMA LineWritten ==
  ASSUME TypeInv, NEW p \in Nid, plugged' = [plugged EXCEPT ![p] = ~@],
         unread' = Append(unread, [nid |-> p, in |-> plugged'[p]]), lost' = lost \ {p},
         UNCHANGED <<pc, booting, mJackStates, hpConnected, watching, mute>>,
         pc # "seek", JackInv
  PROVE  JackInv'
<1>1. unread \in Seq(LogLine) /\ plugged \in [Nid -> BOOLEAN]
  BY DEF TypeInv, TypeOK, LogLine
<1> DEFINE line == [nid |-> p, in |-> plugged'[p]]
<1>2. /\ Len(unread) \in Nat /\ Len(unread') = Len(unread) + 1
      /\ unread'[Len(unread) + 1] = line
      /\ \A i \in 1..Len(unread) : unread'[i] = unread[i]
  BY <1>1
<1>3. line.nid = p /\ line.in = plugged'[p]
  OBVIOUS
<1> HIDE DEF line
<1>4. LineTells(p)'
  <2> DEFINE i == Len(unread) + 1
  <2>1. i \in 1..Len(unread') /\ unread'[i] = line /\ \A j \in i+1..Len(unread') : FALSE
    BY <1>2
  <2> HIDE DEF i
  <2>2. unread'[i].nid = p /\ State(unread'[i].in) = State(plugged'[p])
    BY <1>3, <2>1
  <2> QED BY <2>1, <2>2 DEF LineTells, State
<1>5. ASSUME NEW n \in Nid, n # p, LineTells(n) \/ StateTells(n) PROVE (LineTells(n) \/ StateTells(n))'
  <2>1. plugged'[n] = plugged[n]
    BY <1>1, <1>5
  <2>2. CASE LineTells(n)
    <3>1. PICK i \in 1..Len(unread) :
            /\ unread[i].nid = n /\ State(unread[i].in) = State(plugged[n])
            /\ \A j \in i+1..Len(unread) : unread[j].nid # n
      BY <2>2 DEF LineTells
    <3>2. i \in 1..Len(unread') /\ unread'[i].nid = n /\ State(unread'[i].in) = State(plugged'[n])
      BY <1>2, <2>1, <3>1
    <3>3. ASSUME NEW j \in i+1..Len(unread') PROVE unread'[j].nid # n
      <4>1. j = Len(unread) + 1 \/ (j \in i+1..Len(unread) /\ j \in 1..Len(unread))
        BY <1>2
      <4> QED BY <1>2, <1>3, <1>5, <3>1, <4>1
    <3>4. LineTells(n)'
      BY <3>2, <3>3 DEF LineTells, State
    <3> QED BY <3>4
  <2>3. CASE StateTells(n)
    <3>1. ASSUME NEW i \in 1..Len(unread') PROVE unread'[i].nid # n
      <4>1. i = Len(unread) + 1 \/ i \in 1..Len(unread)
        BY <1>2
      <4> QED BY <1>2, <1>3, <1>5, <2>3, <4>1 DEF StateTells
    <3>2. mJackStates'[n] = State(plugged'[n])
      BY <2>1, <2>3 DEF StateTells
    <3>3. StateTells(n)'
      BY <3>1, <3>2 DEF StateTells, State
    <3> QED BY <3>3
  <2> QED BY <1>5, <2>2, <2>3
<1>6. Followed'
  BY <1>4, <1>5 DEF JackInv, Followed
<1>7. WidgetFollows'
  BY DEF JackInv, WidgetFollows
<1> QED BY <1>6, <1>7 DEF JackInv

(* A jack changes where the client does not look.                           *)
LEMMA LineMissed ==
  ASSUME TypeInv, NEW p \in Nid, plugged' = [plugged EXCEPT ![p] = ~@], lost' = lost \cup {p},
         UNCHANGED <<pc, booting, mJackStates, hpConnected, watching, mute, unread>>,
         JackInv
  PROVE  JackInv'
<1>1. \A n \in Nid \ lost' : plugged'[n] = plugged[n] /\ n \notin lost
  BY DEF TypeInv, TypeOK
<1>2. ASSUME NEW n \in Nid \ lost', LineTells(n) \/ StateTells(n) PROVE (LineTells(n) \/ StateTells(n))'
  <2>1. (LineTells(n) => LineTells(n)') /\ (StateTells(n) => StateTells(n)')
    BY <1>1 DEF LineTells, StateTells, State
  <2> QED BY <1>2, <2>1
<1>3. Followed'
  BY <1>1, <1>2 DEF JackInv, Followed, State
<1>4. WidgetFollows'
  BY DEF JackInv, WidgetFollows
<1> QED BY <1>3, <1>4 DEF JackInv

(* A line is read: if it was the last about its pin, the pin's state is now *)
(* the truth.                                                               *)
LEMMA LineRead ==
  ASSUME TypeInv, JackInv, parseLogLine
  PROVE  JackInv'
<1> DEFINE line == Head(unread)
<1>1. unread \in Seq(LogLine) /\ unread # <<>> /\ unread' = Tail(unread)
  BY DEF parseLogLine, TypeInv, TypeOK, LogLine
<1>2. /\ Len(unread) \in Nat \ {0} /\ Len(unread') = Len(unread) - 1
      /\ line = unread[1] /\ line \in LogLine
      /\ \A i \in 1..Len(unread') : i + 1 \in 1..Len(unread) /\ unread'[i] = unread[i + 1]
  BY <1>1, HeadTailProperties, EmptySeq
<1>3. line.nid \in Nid /\ line.in \in BOOLEAN
  BY <1>2 DEF LogLine
<1>4. UNCHANGED <<booting, watching, plugged, lost>> /\ pc = "lines" /\ pc' \in {"idle", "lines"}
  BY DEF parseLogLine
<1>5. \/ mJackStates[line.nid] = State(line.in) /\ UNCHANGED <<mJackStates, hpConnected, mute>>
      \/ /\ mJackStates' = [mJackStates EXCEPT ![line.nid] = State(line.in)]
         /\ \/ /\ hpConnected' = IF line.nid \in Headphone THEN line.in ELSE hpConnected
               /\ mute' = mute \ {line.nid}
            \/ UNCHANGED hpConnected /\ mute' = mute \cup {line.nid}
  BY DEF parseLogLine
<1> HIDE DEF line
<1>6. mJackStates \in [Nid -> {"unknown", "in", "out"}]
  BY DEF TypeInv, TypeOK
<1>7. mJackStates'[line.nid] = State(line.in) /\ \A n \in Nid : n # line.nid => mJackStates'[n] = mJackStates[n]
  BY <1>3, <1>5, <1>6
<1>8. ASSUME NEW n \in Nid, LineTells(n) \/ StateTells(n) PROVE (LineTells(n) \/ StateTells(n))'
  <2>1. CASE LineTells(n)
    <3>1. PICK i \in 1..Len(unread) :
            /\ unread[i].nid = n /\ State(unread[i].in) = State(plugged[n])
            /\ \A j \in i+1..Len(unread) : unread[j].nid # n
      BY <2>1 DEF LineTells
    <3>2. CASE i = 1
      <4>1. ASSUME NEW j \in 1..Len(unread') PROVE unread'[j].nid # n
        <5>1. j + 1 \in i+1..Len(unread)
          BY <1>2, <3>2
        <5> QED BY <1>2, <3>1, <5>1
      <4>2. mJackStates'[n] = State(plugged[n])
        BY <1>2, <1>7, <3>1, <3>2
      <4>3. StateTells(n)'
        BY <1>4, <4>1, <4>2 DEF StateTells, State
      <4> QED BY <4>3
    <3>3. CASE i # 1
      <4> DEFINE k == i - 1
      <4>1. k \in 1..Len(unread') /\ k + 1 = i
        BY <1>2, <3>3
      <4> HIDE DEF k
      <4>2. unread'[k].nid = n /\ State(unread'[k].in) = State(plugged[n])
        BY <1>2, <3>1, <4>1
      <4>3. ASSUME NEW j \in k+1..Len(unread') PROVE unread'[j].nid # n
        <5>1. j \in 1..Len(unread') /\ j + 1 \in i+1..Len(unread)
          BY <1>2, <4>1
        <5> QED BY <1>2, <3>1, <5>1
      <4>4. LineTells(n)'
        BY <1>4, <4>1, <4>2, <4>3 DEF LineTells, State
      <4> QED BY <4>4
    <3> QED BY <3>2, <3>3
  <2>2. CASE StateTells(n)
    <3>1. n # line.nid
      BY <1>2, <2>2 DEF StateTells
    <3>2. \A i \in 1..Len(unread') : unread'[i].nid # n
      BY <1>2, <2>2 DEF StateTells
    <3>3. mJackStates'[n] = State(plugged[n])
      BY <1>7, <2>2, <3>1 DEF StateTells
    <3>4. StateTells(n)'
      BY <1>4, <3>2, <3>3 DEF StateTells, State
    <3> QED BY <3>4
  <2> QED BY <1>8, <2>1, <2>2
<1>9. Followed'
  BY <1>4, <1>8 DEF JackInv, Followed
<1>10. WidgetFollows'
  <2> SUFFICES ASSUME NEW n \in Nid, Headphone = {n}, n \notin mute'
               PROVE  hpConnected' <=> mJackStates'[n] = "in"
    BY DEF WidgetFollows
  <2>1. CASE UNCHANGED <<mJackStates, hpConnected, mute>>
    BY <2>1 DEF JackInv, WidgetFollows
  <2>2. CASE n = line.nid /\ hpConnected' = IF line.nid \in Headphone THEN line.in ELSE hpConnected
    <3>1. hpConnected' = line.in
      BY <2>2
    <3>2. line.in <=> State(line.in) = "in"
      BY <1>3 DEF State
    <3> QED BY <1>7, <2>2, <3>1, <3>2
  <2>3. CASE n # line.nid /\ n \notin mute /\ hpConnected' = hpConnected
    BY <1>7, <2>3 DEF JackInv, WidgetFollows
  <2> QED BY <1>5, <2>1, <2>2, <2>3
<1> QED BY <1>9, <1>10 DEF JackInv

LEMMA BootRead ==
  ASSUME JackInv, initializeJackStates, mJackStates' \in [Nid -> {"unknown", "in", "out"}],
         plugged \in [Nid -> BOOLEAN]
  PROVE  JackInv'
<1>1. pc = "jacks" /\ pc' = "seek" /\ UNCHANGED <<booting, watching, plugged, unread>> /\ booting /\ ~watching
  BY DEF initializeJackStates, JackInv, Followed
<1>2. CASE UNCHANGED <<mJackStates, mHeadphonesConnected, hpConnected, mute>> /\ lost' = Nid
  BY <1>1, <1>2 DEF JackInv, Followed, WidgetFollows
<1>3. ASSUME NEW recent \in SUBSET Nid, NEW answers \in SUBSET Headphone,
             readRecentLogMessages(recent), lost' = {n \in Nid \ recent : plugged[n]},
             mHeadphonesConnected' \in syncJackProperties(answers),
             hpConnected' = mHeadphonesConnected',
             mute' = Headphone \ answers
      PROVE  JackInv'
  <2>1. \A n \in Nid \ lost' : mJackStates'[n] = State(plugged'[n])
    <3> SUFFICES ASSUME NEW n \in Nid \ lost' PROVE mJackStates'[n] = State(plugged[n])
      BY <1>1
    <3>1. mJackStates'[n] = State(n \in recent /\ plugged[n])
      BY <1>3 DEF readRecentLogMessages
    <3>2. n \in recent \/ ~plugged[n]
      BY <1>3
    <3> QED BY <3>1, <3>2 DEF State
  <2>2. Followed'
    BY <1>1, <2>1 DEF Followed
  <2>3. ASSUME NEW n \in Nid, Headphone = {n}, n \notin mute'
        PROVE  hpConnected' <=> mJackStates'[n] = "in"
    <3>1. answers = {n}
      BY <1>3, <2>3
    <3>2. syncJackProperties(answers) = {mJackStates'[n] = "in"}
      BY <3>1 DEF syncJackProperties
    <3> QED BY <1>3, <3>2
  <2> QED BY <2>2, <2>3 DEF JackInv, WidgetFollows
<1> QED BY <1>2, <1>3 DEF initializeJackStates

LEMMA NextJacks == TypeInv /\ TypeInv' /\ JackInv /\ [Next]_vars => JackInv'
<1> SUFFICES ASSUME TypeInv, TypeInv', JackInv, [Next]_vars PROVE JackInv'
  OBVIOUS
<1>1. CASE RescanTimeout
  BY <1>1, JacksUntouched DEF RescanTimeout, scanDevices, jacks, logged
<1>2. CASE Probe
  BY <1>2, JacksUntouched DEF Probe, jacks, logged
<1>3. CASE ScanEnds
  <2>1. pc' = (IF booting THEN "jacks" ELSE "idle") /\ UNCHANGED <<booting, jacks, logged>>
    BY <1>3 DEF ScanEnds
  <2> QED BY <2>1, JacksUntouched DEF jacks, logged
<1>4. ASSUME refresh \/ \E u \in Unit : setDefaultDevice(u) PROVE JackInv'
  <2>1. UNCHANGED <<pc, booting, jacks, logged>>
    BY <1>4 DEF refresh, setDefaultDevice
  <2> QED BY <2>1, JacksUntouched DEF jacks, logged
<1>5. ASSUME NEW n \in {"cdev", "default"}, handleDevdEvent(n) PROVE JackInv'
  BY <1>5, JacksUntouched DEF handleDevdEvent, jacks, logged
<1>6. ASSUME NEW u \in Unit, Attach(u) \/ Detach(u) \/ DefaultChanges(u) PROVE JackInv'
  <2>1. UNCHANGED <<pc, booting, jacks, logged>>
    BY <1>6 DEF Attach, Detach, DefaultChanges
  <2> QED BY <2>1, JacksUntouched DEF jacks, logged
<1>7. CASE initializeJackStates
  BY <1>7, BootRead DEF TypeInv, TypeOK
<1>8. CASE setupJackDetection_Seek
  <2>1. /\ pc = "seek" /\ unread' = <<>> /\ UNCHANGED <<mJackStates, hpConnected, watching, mute, plugged>>
        /\ \/ pc' = "watch" /\ UNCHANGED <<booting, lost>>
           \/ pc' = "idle" /\ booting' = FALSE
    BY <1>8 DEF setupJackDetection_Seek
  <2>2. booting /\ ~watching /\ \A n \in Nid \ lost : mJackStates[n] = State(plugged[n])
    BY <2>1 DEF JackInv, Followed
  <2>3. Len(unread') = 0
    BY <2>1, EmptySeq
  <2>4. \A n \in Nid \ lost : StateTells(n)'
    BY <2>1, <2>2, <2>3 DEF StateTells, State
  <2>5. Followed'
    BY <2>1, <2>2, <2>4 DEF Followed
  <2>6. WidgetFollows'
    BY <2>1 DEF JackInv, WidgetFollows
  <2> QED BY <2>5, <2>6 DEF JackInv
<1>9. CASE setupJackDetection_Watch
  <2>1. /\ pc = "watch" /\ pc' = "idle" /\ booting' = FALSE
        /\ UNCHANGED <<mJackStates, hpConnected, mute, plugged, unread, lost>>
    BY <1>9 DEF setupJackDetection_Watch, logged
  <2>2. \A n \in Nid \ lost : LineTells(n) \/ StateTells(n)
    BY <2>1 DEF JackInv, Followed
  <2>3. \A n : (LineTells(n) <=> LineTells(n)') /\ (StateTells(n) <=> StateTells(n)')
    BY <2>1 DEF LineTells, StateTells
  <2>4. Followed'
    BY <2>1, <2>2, <2>3 DEF Followed
  <2>5. WidgetFollows'
    BY <2>1 DEF JackInv, WidgetFollows
  <2> QED BY <2>4, <2>5 DEF JackInv
<1>10. CASE handleKqueueEvent
  <2>1. pc' \in {"idle", "lines"} /\ UNCHANGED <<booting, jacks, unread, plugged, lost>>
    BY <1>10 DEF handleKqueueEvent
  <2> QED BY <2>1, JacksUntouched DEF jacks
<1>11. CASE parseLogLine
  BY <1>11, LineRead
<1>12. CASE OtherLine \/ LogRotates
  <2>1. UNCHANGED <<pc, booting, mJackStates, hpConnected, watching, mute, unread, plugged, lost>>
    BY <1>12 DEF OtherLine, LogRotates, jacks, logged
  <2> QED BY <2>1, JacksUntouched
<1>13. ASSUME NEW p \in Nid, JackChanges(p) PROVE JackInv'
  <2>1. plugged' = [plugged EXCEPT ![p] = ~@] /\ UNCHANGED <<pc, booting, jacks>>
    BY <1>13 DEF JackChanges
  <2>2. UNCHANGED <<mJackStates, hpConnected, watching, mute>>
    BY <2>1 DEF jacks
  <2>3. CASE booting /\ pc \in {"scan", "jacks"} /\ UNCHANGED <<unread, lost>>
    <3>1. Followed'
      BY <2>1, <2>2, <2>3 DEF JackInv, Followed
    <3>2. WidgetFollows'
      BY <2>2 DEF JackInv, WidgetFollows
    <3> QED BY <3>1, <3>2 DEF JackInv
  <2>4. CASE lost' = lost \cup {p} /\ UNCHANGED unread
    BY <2>1, <2>2, <2>4, LineMissed
  <2>5. CASE /\ pc = "watch" \/ ~booting
             /\ unread' = Append(unread, [nid |-> p, in |-> plugged'[p]]) /\ lost' = lost \ {p}
    <3>1. pc # "seek"
      BY <2>5 DEF JackInv, Followed
    <3> QED BY <2>1, <2>2, <2>5, <3>1, LineWritten
  <2>6. \/ booting /\ pc \in {"scan", "jacks"} /\ UNCHANGED <<unread, lost>>
        \/ lost' = lost \cup {p} /\ UNCHANGED unread
        \/ /\ pc = "watch" \/ ~booting
           /\ unread' = Append(unread, [nid |-> p, in |-> plugged'[p]]) /\ lost' = lost \ {p}
    BY <1>13 DEF JackChanges
  <2> QED BY <2>3, <2>4, <2>5, <2>6
<1>14. CASE UNCHANGED vars
  BY <1>14, JacksUntouched DEF vars, jacks, logged
<1> QED
  BY <1>1, <1>2, <1>3, <1>4, <1>5, <1>6, <1>7, <1>8, <1>9, <1>10, <1>11, <1>12, <1>13, <1>14
     DEF Next, Chain

LEMMA JacksAgree == TypeInv /\ JackInv => JacksFollowLog
<1> SUFFICES ASSUME TypeInv, JackInv, watching, unread = <<>>, NEW n \in Nid \ lost
             PROVE  /\ mJackStates[n] = State(plugged[n])
                    /\ n \in Headphone \ mute /\ Headphone = {n} => hpConnected = plugged[n]
  BY DEF JacksFollowLog
<1>1. Len(unread) = 0
  BY EmptySeq
<1>2. ~LineTells(n)
  BY <1>1 DEF LineTells
<1>3. mJackStates[n] = State(plugged[n])
  BY <1>2 DEF JackInv, Followed, StateTells
<1>4. hpConnected \in BOOLEAN /\ plugged[n] \in BOOLEAN
  BY DEF TypeInv, TypeOK
<1>5. n \notin mute /\ Headphone = {n} => (hpConnected <=> mJackStates[n] = "in")
  BY DEF JackInv, WidgetFollows
<1>6. mJackStates[n] = "in" <=> plugged[n]
  BY <1>3, <1>4 DEF State
<1> QED BY <1>3, <1>4, <1>5, <1>6

(* For any jacks: once the log is read, a jack shows what was last logged   *)
(* about it where the client looks (parseLogLine, identifyJackType,         *)
(* initializeJackStates, setupJackDetection).                               *)
THEOREM JacksFollow == Spec => []JacksFollowLog
  BY InitType, NextType, InitJacks, NextJacks, JacksAgree, PTL DEF Spec

-----------------------------------------------------------------------------
(* Liveness.  The provers cannot look into ENABLED.  What the theorem needs  *)
(* to know of it is a hypothesis: a step whose guard holds can be taken.    *)

HandleNotice == \E n \in {"cdev", "default"} : handleDevdEvent(n)

StepsReady ==
  /\ pc \in {"jacks", "seek", "watch"} => ENABLED <<Chain>>_vars
  /\ pc = "idle" /\ notices # {} => ENABLED <<HandleNotice>>_vars
  /\ pc = "idle" /\ mRescanTimer /\ mAvailable => ENABLED <<RescanTimeout>>_vars

(* What a notice leaves behind until the scan: itself, then the timer.      *)
Noticed == mAvailable /\ notices # {}
TimerSet == mAvailable /\ mRescanTimer

(* The steps that move the event loop are those of its chain, the timer and *)
(* the kqueue; a notice is only taken by its handler, which sets the timer. *)
LEMMA WhatMoves ==
  ASSUME [Next]_vars
  PROVE  /\ UNCHANGED pc \/ Chain \/ RescanTimeout \/ handleKqueueEvent
         /\ notices \subseteq notices' \/ HandleNotice
         /\ UNCHANGED mRescanTimer \/ RescanTimeout \/ HandleNotice
         /\ UNCHANGED mAvailable
<1>1. CASE RescanTimeout \/ refresh \/ handleKqueueEvent
  BY <1>1 DEF RescanTimeout, refresh, handleKqueueEvent
<1>2. ASSUME NEW n \in {"cdev", "default"}, handleDevdEvent(n)
      PROVE  HandleNotice /\ UNCHANGED <<pc, mAvailable>>
  BY <1>2 DEF handleDevdEvent, HandleNotice
<1>3. CASE Chain
  BY <1>3 DEF Chain, Probe, ScanEnds, initializeJackStates, setupJackDetection_Seek,
              setupJackDetection_Watch, parseLogLine
<1>4. ASSUME NEW u \in Unit, setDefaultDevice(u) \/ Attach(u) \/ Detach(u) \/ DefaultChanges(u)
      PROVE  UNCHANGED <<pc, mRescanTimer, mAvailable>> /\ notices \subseteq notices'
  BY <1>4 DEF setDefaultDevice, Attach, Detach, DefaultChanges, Notify
<1>5. CASE OtherLine \/ LogRotates \/ UNCHANGED vars
  BY <1>5 DEF OtherLine, LogRotates, vars
<1>6. ASSUME NEW n \in Nid, JackChanges(n)
      PROVE  UNCHANGED <<pc, mRescanTimer, mAvailable, notices>>
  BY <1>6 DEF JackChanges
<1> QED
  BY <1>1, <1>2, <1>3, <1>4, <1>5, <1>6 DEF Next

(* Outside a scan a chain takes the event loop back to idle, step by step.  *)
LEMMA ChainGoesOn ==
  ASSUME Chain
  PROVE  /\ pc = "jacks" => pc' = "seek"
         /\ pc = "seek"  => pc' \in {"watch", "idle"}
         /\ pc = "watch" => pc' = "idle"
         /\ pc = "lines" => pc' \in {"lines", "idle"}
         /\ pc # "idle"
  BY DEF Chain, Probe, ScanEnds, initializeJackStates, setupJackDetection_Seek,
         setupJackDetection_Watch, parseLogLine

LEMMA OnlyChain ==
  ASSUME [Next]_vars, pc # "idle"
  PROVE  UNCHANGED pc \/ Chain
  BY WhatMoves DEF RescanTimeout, handleKqueueEvent

(* A notice is kept or has set the timer, which is kept up to the scan.     *)
LEMMA NoticeKept ==
  ASSUME [Next]_vars
  PROVE  /\ Noticed => Noticed' \/ TimerSet'
         /\ TimerSet => TimerSet' \/ pc' = "scan"
<1>1. HandleNotice => mRescanTimer' = TRUE
  BY DEF HandleNotice, handleDevdEvent
<1>2. RescanTimeout => pc' = "scan"
  BY DEF RescanTimeout, scanDevices
<1>3. /\ notices \subseteq notices' \/ HandleNotice
      /\ UNCHANGED mRescanTimer \/ RescanTimeout \/ HandleNotice
      /\ UNCHANGED mAvailable
  BY WhatMoves
<1> QED
  BY <1>1, <1>2, <1>3 DEF Noticed, TimerSet

\* A notice about sound is followed by a rescan, whatever chain of system calls
\* it falls into and however many notices follow it: the chain ends, the
\* handler sets the timer, and nothing but the rescan clears it.
THEOREM NoticeIsFollowed == FairSpec /\ []StepsReady => NoticeRescans
<1>1. Spec => []TypeInv
  BY InitType, NextType, PTL DEF Spec
<1>2. TypeInv => pc \in {"idle", "scan", "jacks", "seek", "watch", "lines"}
  BY DEF TypeInv, TypeOK
<1>3. [Next]_vars => /\ pc = "jacks" => (pc = "jacks" \/ pc = "seek")'
                     /\ pc = "seek"  => (pc = "seek" \/ pc = "watch" \/ pc = "idle")'
                     /\ pc = "watch" => (pc = "watch" \/ pc = "idle")'
                     /\ pc = "lines" => (pc = "lines" \/ pc = "idle")'
  BY OnlyChain, ChainGoesOn
<1>4. <<Chain>>_vars => /\ pc = "jacks" => (pc = "seek")'
                        /\ pc = "seek"  => (pc = "watch" \/ pc = "idle")'
                        /\ pc = "watch" => (pc = "idle")'
  BY ChainGoesOn
<1> DEFINE Boot == pc = "jacks" \/ pc = "seek" \/ pc = "watch"
<1>5. StepsReady => /\ Boot => ENABLED <<Chain>>_vars
                    /\ pc = "idle" /\ Noticed => ENABLED <<HandleNotice>>_vars
                    /\ pc = "idle" /\ TimerSet => ENABLED <<RescanTimeout>>_vars
  BY DEF StepsReady, Noticed, TimerSet
<1>6. [Next]_vars => /\ Noticed => Noticed' \/ TimerSet'
                     /\ TimerSet => TimerSet' \/ (pc = "scan")'
  BY NoticeKept
<1>7. <<RescanTimeout>>_vars => (pc = "scan")'
  BY DEF RescanTimeout, scanDevices
<1>8. [Next]_vars /\ Noticed /\ <<HandleNotice>>_vars => TimerSet'
  <2>1. HandleNotice => mRescanTimer' = TRUE /\ UNCHANGED mAvailable
    BY DEF HandleNotice, handleDevdEvent
  <2> QED
    BY <2>1 DEF Noticed, TimerSet
<1> DEFINE Run == /\ []TypeInv /\ [][Next]_vars /\ []StepsReady
                  /\ WF_vars(Chain) /\ []<>(pc # "lines")
                  /\ SF_vars(HandleNotice) /\ SF_vars(RescanTimeout)
<1>9. pc = "lines" => ~(pc # "lines")
  OBVIOUS
<1>10. Run => [](pc = "watch" => <>(pc = "idle"))
  BY <1>3, <1>4, <1>5, PTL
<1>11. Run => [](pc = "seek" => <>(pc = "idle"))
  BY <1>3, <1>4, <1>5, <1>10, PTL
<1>12. Run => [](pc = "jacks" => <>(pc = "idle"))
  BY <1>3, <1>4, <1>5, <1>11, PTL
<1>13. Run => [](pc = "lines" => <>(pc = "idle"))
  BY <1>3, <1>9, PTL
<1>14. Run => []<>(pc = "idle" \/ pc = "scan")
  <2>1. TypeInv => pc = "idle" \/ pc = "scan" \/ pc = "jacks" \/ pc = "seek" \/ pc = "watch" \/ pc = "lines"
    BY <1>2
  <2> QED
    BY <1>10, <1>11, <1>12, <1>13, <2>1, PTL
<1>15. Run => (TimerSet ~> pc = "scan")
  BY <1>5, <1>6, <1>7, <1>14, PTL
<1>16. Run => (Noticed ~> (TimerSet \/ pc = "scan"))
  BY <1>5, <1>6, <1>8, <1>14, PTL
<1>17. FairSpec /\ []StepsReady => Run
  BY <1>1, PTL DEF FairSpec, Spec, HandleNotice
<1>18. Noticed <=> notices # {} /\ mAvailable
  BY DEF Noticed
<1> QED
  BY <1>15, <1>16, <1>17, <1>18, PTL DEF NoticeRescans

-----------------------------------------------------------------------------
(***************************************************************************)
(* The controls of a mixer (OssMixer.tla), for any controls and levels.     *)
(***************************************************************************)
LevelAgrees(c) ==
  /\ mLeft[c] = level[c].left
  /\ mStereo[c] /\ level[c].right # 0 => mRight[c] = level[c].right

MuteAgrees(c) == mMuted[c] = (c \in muted)

MuteKept(c) == (c \in got) = (c \in muted)

(* FreshAgrees says nothing while an operation runs.  What carries it from  *)
(* one system call to the next: the level a refresh has read, and the level *)
(* a write has left, is the mixer's, and so is each other control's bit of  *)
(* the mask, as long as no other program touched the control since.  A      *)
(* control that was touched is not fresh.                                   *)
MixerInv ==
  /\ fresh \cap touched = {}
  /\ \A c \in fresh :
       call \in {"idle", "refresh"} \/ c # ctl => LevelAgrees(c) /\ MuteAgrees(c)
  /\ call = "refresh" /\ ctl \notin touched => got = level[ctl]
  /\ call \in {"readMask", "writeMask"} /\ ctl \notin touched => LevelAgrees(ctl)
  /\ call = "writeMask" => \A c \in Control \ ({ctl} \cup touched) : MuteKept(c)

(* A level that is asked for is brought into the range.                     *)
LEMMA ClampsIntoRange ==
  ASSUME NEW v \in Int
  PROVE  Clamp(v) \in Level
BY MixerAssumption DEF MixerAssumption, Clamp, Level

LEMMA InitMixerInv == ASSUME MixerInit PROVE MixerTypeOK /\ MixerInv
<1>1. PICK read \in SUBSET Control, masked \in SUBSET Control : masked \subseteq read /\ Constructed(read, masked)
  BY DEF MixerInit
<1>2. level \in [Control -> [left : Level, right : Level]] /\ 0 \in Level
  BY MixerAssumption DEF MixerInit, Level
<1>3. mLeft \in [Control -> Level] /\ mRight \in [Control -> Level]
  BY <1>1, <1>2 DEF Constructed
<1>4. MixerTypeOK
  BY <1>1, <1>2, <1>3 DEF MixerInit, MixerTypeOK, Constructed
<1>5. ASSUME NEW c \in masked PROVE LevelAgrees(c) /\ MuteAgrees(c)
  BY <1>1 DEF Constructed, LevelAgrees, MuteAgrees
<1>6. MixerInv
  BY <1>1, <1>5 DEF MixerInit, MixerInv, Constructed
<1> QED
  BY <1>4, <1>6

LEMMA StepMixerTypes ==
  ASSUME MixerTypeOK, [MixerNext]_mixerVars
  PROVE  MixerTypeOK'
<1> USE DEF MixerTypeOK, cache, mixer
<1>1. ASSUME NEW c \in Control, Refresh(c) PROVE MixerTypeOK'
  BY <1>1 DEF Refresh
<1>2. CASE updateValue
  <2>1. mLeft' \in [Control -> Level]
    BY <1>2 DEF updateValue
  <2>2. mRight' \in [Control -> Level] /\ mStereo' \in [Control -> BOOLEAN]
    BY <1>2 DEF updateValue
  <2>3. mMuted' \in [Control -> BOOLEAN] /\ fresh' \in SUBSET Control
    BY <1>2 DEF updateValue, Gives
  <2> QED
    BY <1>2, <2>1, <2>2, <2>3 DEF updateValue, Done
<1>3. ASSUME NEW c \in Control, NEW v \in Int, setLeft(c, v) \/ setRight(c, v)
      PROVE  MixerTypeOK'
  <2>1. Clamp(v) \in Level
    BY ClampsIntoRange
  <2> QED
    BY <1>3, <2>1 DEF setLeft, setRight, Begin
<1>4. ASSUME NEW c \in Control, setMuted(c) PROVE MixerTypeOK'
  BY <1>4 DEF setMuted, Begin
<1>5. CASE WriteLevel
  <2>1. [left |-> mLeft[ctl], right |-> IF mStereo[ctl] THEN mRight[ctl] ELSE mLeft[ctl]]
          \in [left : Level, right : Level]
    OBVIOUS
  <2>2. level' \in [Control -> [left : Level, right : Level]]
    BY <1>5, <2>1 DEF WriteLevel
  <2> QED
    BY <1>5, <2>2 DEF WriteLevel, Done, Gives
<1>6. CASE ReadMask
  BY <1>6 DEF ReadMask, Done, Gives
<1>7. CASE WriteMask
  BY <1>7 DEF WriteMask, NewMask, Done, Gives
<1>8. ASSUME NEW c \in Control, NEW l \in Level, NEW r \in Level, OthersSet(c, l, r)
      PROVE  MixerTypeOK'
  BY <1>8 DEF OthersSet
<1>9. ASSUME NEW c \in Control, OthersMute(c) PROVE MixerTypeOK'
  BY <1>9 DEF OthersMute
<1>10. CASE UNCHANGED mixerVars
  BY <1>10 DEF mixerVars
<1> QED
  BY <1>1, <1>2, <1>3, <1>4, <1>5, <1>6, <1>7, <1>8, <1>9, <1>10 DEF MixerNext

(* A refresh shows the level it read, as far as the cache can show it.      *)
LEMMA RefreshShows ==
  ASSUME MixerTypeOK, MixerInv, updateValue
  PROVE  MixerInv'
<1> USE DEF MixerTypeOK, Done
<1>1. PICK ok \in BOOLEAN : mMuted' = [mMuted EXCEPT ![ctl] = ok /\ ctl \in muted] /\ Gives(ok)
  BY DEF updateValue
<1>2. UNCHANGED <<ctl, level, muted, touched>> /\ call' = "idle"
  BY DEF updateValue, mixer
<1>3. ASSUME ctl \notin touched PROVE LevelAgrees(ctl)'
  <2>1. call = "refresh" /\ got = level[ctl]
    BY <1>3 DEF updateValue, MixerInv
  <2>2. mLeft'[ctl] = level[ctl].left
    BY <2>1 DEF updateValue
  <2>3. mStereo'[ctl] /\ level[ctl].right # 0 => mRight'[ctl] = level[ctl].right
    BY <2>1 DEF updateValue
  <2> QED
    BY <1>2, <2>2, <2>3 DEF LevelAgrees
<1>4. ASSUME ok PROVE MuteAgrees(ctl)'
  BY <1>1, <1>2, <1>4 DEF MuteAgrees
<1>5. ASSUME NEW c \in fresh, c # ctl PROVE LevelAgrees(c)' /\ MuteAgrees(c)'
  <2>1. LevelAgrees(c) /\ MuteAgrees(c)
    BY <1>5 DEF MixerInv
  <2>2. mLeft'[c] = mLeft[c] /\ mRight'[c] = mRight[c] /\ mStereo'[c] = mStereo[c] /\ mMuted'[c] = mMuted[c]
    BY <1>5 DEF updateValue
  <2> QED
    BY <1>2, <2>1, <2>2 DEF LevelAgrees, MuteAgrees
<1>6. \A c \in fresh' : (c = ctl /\ ok /\ ctl \notin touched) \/ (c \in fresh /\ c # ctl)
  BY <1>1 DEF Gives
<1> QED
  BY <1>2, <1>3, <1>4, <1>5, <1>6 DEF MixerInv

(* A setter changes the cache of its own control only, which is not trusted *)
(* before the write is over.                                                *)
LEMMA SetterKeeps ==
  ASSUME MixerTypeOK, MixerInv, NEW c \in Control, call = "idle", Begin(c),
         \A e \in Control \ {c} : mLeft'[e] = mLeft[e] /\ mRight'[e] = mRight[e]
                                    /\ mStereo'[e] = mStereo[e] /\ mMuted'[e] = mMuted[e]
  PROVE  MixerInv'
<1>1. /\ ctl' = c /\ touched' = {} /\ UNCHANGED <<level, muted>>
      /\ \/ call' = "writeLevel" /\ fresh' = fresh
         \/ call' = "idle" /\ fresh' = fresh \ {c}
  BY DEF Begin, mixer
<1>2. ASSUME NEW e \in fresh', e # c PROVE LevelAgrees(e)' /\ MuteAgrees(e)'
  <2>1. e \in fresh /\ e \in Control \ {c}
    BY <1>1, <1>2 DEF MixerTypeOK
  <2>2. LevelAgrees(e) /\ MuteAgrees(e)
    BY <2>1 DEF MixerInv
  <2> QED
    BY <1>1, <2>1, <2>2 DEF LevelAgrees, MuteAgrees
<1> QED
  BY <1>1, <1>2 DEF MixerInv

LEMMA WriteLevelKeeps ==
  ASSUME MixerTypeOK, MixerInv, WriteLevel
  PROVE  MixerInv'
<1> USE DEF MixerTypeOK
<1>1. UNCHANGED <<mLeft, mRight, mStereo, mMuted, muted, ctl>> /\ call = "writeLevel"
  BY DEF WriteLevel, cache, Done
<1>2. CASE /\ level' = [level EXCEPT ![ctl] =
                 [left  |-> mLeft[ctl],
                  right |-> IF mStereo[ctl] THEN mRight[ctl] ELSE mLeft[ctl]]]
           /\ call' = "readMask" /\ touched' = {} /\ UNCHANGED fresh
  <2>1. LevelAgrees(ctl)'
    BY <1>1, <1>2 DEF LevelAgrees
  <2>2. ASSUME NEW c \in fresh, c # ctl PROVE LevelAgrees(c)' /\ MuteAgrees(c)'
    <3>1. LevelAgrees(c) /\ MuteAgrees(c) /\ level'[c] = level[c]
      BY <1>2, <2>2 DEF MixerInv
    <3> QED
      BY <1>1, <3>1 DEF LevelAgrees, MuteAgrees
  <2> QED
    BY <1>1, <1>2, <2>1, <2>2 DEF MixerInv
<1>3. CASE call' = "idle" /\ fresh' = fresh \ {ctl} /\ UNCHANGED <<level, touched>>
  BY <1>1, <1>3 DEF MixerInv, LevelAgrees, MuteAgrees
<1> QED
  BY <1>2, <1>3 DEF WriteLevel, Done, Gives

LEMMA ReadMaskKeeps ==
  ASSUME MixerTypeOK, MixerInv, ReadMask
  PROVE  MixerInv'
<1> USE DEF MixerTypeOK
<1>1. /\ UNCHANGED <<mLeft, mRight, mStereo, mMuted, level, muted, ctl>> /\ call = "readMask"
      /\ touched' = touched \cap {ctl}
  BY DEF ReadMask, cache, mixer, Done
<1>2. CASE call' = "writeMask" /\ got' = muted /\ UNCHANGED fresh
  BY <1>1, <1>2 DEF MixerInv, LevelAgrees, MuteAgrees, MuteKept
<1>3. CASE call' = "idle" /\ fresh' = fresh \ {ctl}
  BY <1>1, <1>3 DEF MixerInv, LevelAgrees, MuteAgrees
<1> QED
  BY <1>2, <1>3 DEF ReadMask, Done, Gives

(* The mask that is written back changes the bit of its own control, and    *)
(* puts back what was read of the others.                                   *)
LEMMA MaskWritten ==
  ASSUME MixerTypeOK, MixerInv, WriteMask
  PROVE  \A c \in Control \ ({ctl} \cup touched) : (c \in muted') = (c \in muted)
<1>1. CASE muted' = NewMask
  <2> SUFFICES ASSUME NEW c \in Control \ ({ctl} \cup touched) PROVE (c \in muted') = (c \in muted)
    OBVIOUS
  <2>1. c \in muted' <=> c \in got
    BY <1>1 DEF NewMask
  <2>2. (c \in got) = (c \in muted)
    BY DEF WriteMask, MixerInv, MuteKept
  <2> QED
    BY <2>1, <2>2
<1>2. CASE UNCHANGED muted
  BY <1>2
<1> QED
  BY <1>1, <1>2 DEF WriteMask

LEMMA WriteMaskKeeps ==
  ASSUME MixerTypeOK, MixerInv, WriteMask
  PROVE  MixerInv'
<1> USE DEF MixerTypeOK
<1>1. /\ UNCHANGED <<mLeft, mRight, mStereo, mMuted, level, ctl, touched>>
      /\ call = "writeMask" /\ call' = "idle"
  BY DEF WriteMask, cache, Done
<1>2. ASSUME NEW c \in fresh, c # ctl PROVE LevelAgrees(c)' /\ MuteAgrees(c)'
  <2>1. LevelAgrees(c) /\ MuteAgrees(c) /\ c \notin touched
    BY <1>2 DEF MixerInv
  <2>2. (c \in muted') = (c \in muted)
    BY <1>2, <2>1, MaskWritten
  <2> QED
    BY <1>1, <2>1, <2>2 DEF LevelAgrees, MuteAgrees
<1>3. CASE muted' = NewMask /\ Gives(TRUE)
  <2>1. MuteAgrees(ctl)'
    BY <1>1, <1>3 DEF NewMask, MuteAgrees
  <2>2. ASSUME ctl \notin touched PROVE LevelAgrees(ctl)'
    BY <1>1, <2>2 DEF MixerInv, LevelAgrees
  <2> QED
    BY <1>1, <1>2, <1>3, <2>1, <2>2 DEF Gives, MixerInv
<1>4. CASE UNCHANGED muted /\ Gives(FALSE)
  BY <1>1, <1>2, <1>4 DEF Gives, MixerInv
<1> QED
  BY <1>3, <1>4 DEF WriteMask

(* What another program changes is no longer fresh, and is remembered as    *)
(* touched while the operation lasts.                                       *)
LEMMA OthersKeep ==
  ASSUME MixerTypeOK, MixerInv, NEW c \in Control,
         fresh' = fresh \ {c}, touched' = touched \cup {c},
         UNCHANGED <<mLeft, mRight, mStereo, mMuted, call, ctl, got>>,
         \A e \in Control \ {c} : level'[e] = level[e] /\ (e \in muted') = (e \in muted)
  PROVE  MixerInv'
<1> USE DEF MixerTypeOK
<1>1. (fresh \cap touched)' = {}
  BY DEF MixerInv
<1>2. ASSUME NEW e \in fresh', call \in {"idle", "refresh"} \/ e # ctl
      PROVE  LevelAgrees(e)' /\ MuteAgrees(e)'
  <2>1. e \in fresh /\ e \in Control \ {c}
    BY <1>2
  <2>2. LevelAgrees(e) /\ MuteAgrees(e)
    BY <1>2, <2>1 DEF MixerInv
  <2> QED
    BY <2>1, <2>2 DEF LevelAgrees, MuteAgrees
<1>3. ASSUME ctl \notin touched' PROVE ctl \notin touched /\ level'[ctl] = level[ctl]
  BY <1>3
<1>4. ASSUME call = "refresh", ctl \notin touched' PROVE got = level'[ctl]
  BY <1>3, <1>4 DEF MixerInv
<1>5. ASSUME call \in {"readMask", "writeMask"}, ctl \notin touched' PROVE LevelAgrees(ctl)'
  BY <1>3, <1>5 DEF MixerInv, LevelAgrees
<1>6. ASSUME call = "writeMask", NEW e \in Control \ ({ctl} \cup touched') PROVE MuteKept(e)'
  BY <1>6 DEF MixerInv, MuteKept
<1> QED
  BY <1>1, <1>2, <1>4, <1>5, <1>6 DEF MixerInv

LEMMA StepMixerInv ==
  ASSUME MixerTypeOK, MixerInv, [MixerNext]_mixerVars
  PROVE  MixerInv'
<1>1. ASSUME NEW c \in Control, Refresh(c) PROVE MixerInv'
  BY <1>1 DEF Refresh, cache, mixer, MixerInv, LevelAgrees, MuteAgrees
<1>2. ASSUME NEW c \in Control, NEW v \in Int, setLeft(c, v) \/ setRight(c, v) \/ setMuted(c)
      PROVE  MixerInv'
  <2>1. call = "idle" /\ Begin(c)
    BY <1>2 DEF setLeft, setRight, setMuted
  <2>2. \A e \in Control \ {c} : mLeft'[e] = mLeft[e] /\ mRight'[e] = mRight[e]
                                   /\ mStereo'[e] = mStereo[e] /\ mMuted'[e] = mMuted[e]
    BY <1>2 DEF setLeft, setRight, setMuted, MixerTypeOK
  <2> QED
    BY <2>1, <2>2, SetterKeeps
<1>3. ASSUME NEW c \in Control, NEW l, NEW r, OthersSet(c, l, r) \/ OthersMute(c) PROVE MixerInv'
  <2>1. /\ fresh' = fresh \ {c} /\ touched' = touched \cup {c}
        /\ UNCHANGED <<mLeft, mRight, mStereo, mMuted, call, ctl, got>>
    BY <1>3 DEF OthersSet, OthersMute, cache
  <2>2. \A e \in Control \ {c} : level'[e] = level[e] /\ (e \in muted') = (e \in muted)
    BY <1>3 DEF OthersSet, OthersMute, MixerTypeOK
  <2> QED
    BY <2>1, <2>2, OthersKeep
<1>4. CASE UNCHANGED mixerVars
  BY <1>4 DEF mixerVars, cache, mixer, MixerInv, LevelAgrees, MuteAgrees, MuteKept
<1>5. -1..MaxLevel + 1 \subseteq Int
  OBVIOUS
<1> QED
  BY <1>1, <1>2, <1>3, <1>4, <1>5, RefreshShows, WriteLevelKeeps, ReadMaskKeeps, WriteMaskKeeps DEF MixerNext

\* Levels stay within the mixer's range in every cache and in the kernel,
\* whatever is asked for, for any controls and any loudest level.
THEOREM MixerTypeCorrect == MixerSpec => []MixerTypeOK
BY InitMixerInv, StepMixerTypes, PTL DEF MixerSpec

LEMMA AlwaysMixerInv == MixerSpec => [](MixerTypeOK /\ MixerInv)
<1>1. MixerTypeOK /\ MixerInv /\ [MixerNext]_mixerVars => (MixerTypeOK /\ MixerInv)'
  BY StepMixerTypes, StepMixerInv
<1> QED
  BY <1>1, InitMixerInv, PTL DEF MixerSpec

\* A control that was read or written whole shows the mixer until another
\* program changes it, wherever between the system calls of a refresh or of a
\* write, of this control or of others, other programs step in.
THEOREM CacheShowsMixer == MixerSpec => []FreshAgrees
<1>1. MixerTypeOK /\ MixerInv => FreshAgrees
  BY DEF MixerInv, FreshAgrees, LevelAgrees, MuteAgrees
<1> QED
  BY <1>1, AlwaysMixerInv, PTL

\* Muting one control of any number never changes the mute of another, but for
\* those that other programs change between the two calls on the mask.
THEOREM WriteKeepsOtherMutes == MixerSpec => OtherMutesKept
<1>1. MixerTypeOK /\ MixerInv /\ [MixerNext]_mixerVars =>
        [call = "writeMask" /\ call' = "idle" =>
           \A c \in Control \ ({ctl} \cup touched) : (c \in muted') = (c \in muted)]_mixerVars
  <2> SUFFICES ASSUME MixerTypeOK, MixerInv, MixerNext, call = "writeMask", call' = "idle"
               PROVE  \A c \in Control \ ({ctl} \cup touched) : (c \in muted') = (c \in muted)
    OBVIOUS
  <2>1. WriteMask
    BY DEF MixerNext, updateValue, WriteLevel, ReadMask, Refresh, setMuted, setLeft,
           setRight, OthersSet, OthersMute
  <2> QED
    BY <2>1, MaskWritten
<1> QED
  BY <1>1, AlwaysMixerInv, PTL DEF MixerSpec, OtherMutesKept
=============================================================================
