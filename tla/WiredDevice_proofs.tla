------------------------ MODULE WiredDevice_proofs ------------------------
(***************************************************************************)
(* Proofs about the wired device: whatever refreshes overlap and in         *)
(* whatever order they are collected, the device ends up showing its        *)
(* interface, and Disconnecting is backed by something that will end it,    *)
(* and does.                                                                *)
(***************************************************************************)
EXTENDS WiredDevice, SequenceTheorems, TLAPS

-----------------------------------------------------------------------------
(* The sampler *)

(* A sequence has one length.                                               *)
LEMMA IntervalLength ==
  ASSUME NEW a \in Nat, NEW b \in Nat, 1 .. a = 1 .. b
  PROVE  a = b
<1>1. \A k \in Nat : (1 <= k /\ k <= a) <=> (1 <= k /\ k <= b)
  OBVIOUS
<1> QED
  BY <1>1

(* Collecting an output marks the older ones late and keeps the newer ones. *)
LEMMA CollectEntries ==
  ASSUME S!TypeOK, NEW n \in DOMAIN outputs, S!Collect(n)
  PROVE  /\ outputs' \in Seq(S!Output)
         /\ DOMAIN outputs' = 1 .. Len(outputs) - 1
         /\ Len(outputs') = Len(outputs) - 1
         /\ \A j \in DOMAIN outputs' : IF j < n THEN outputs'[j].late ELSE outputs'[j] = outputs[j + 1]
<1>1. outputs \in Seq(S!Output) /\ Len(outputs) \in Nat /\ DOMAIN outputs = 1 .. Len(outputs)
      /\ Len(outputs) - 1 \in Nat
  BY DEF S!TypeOK
<1>2. \A j \in 1 .. Len(outputs) - 1 : j \in DOMAIN outputs /\ j + 1 \in DOMAIN outputs
  BY <1>1
<1>3. ASSUME NEW j \in DOMAIN outputs
      PROVE  /\ outputs[j] \in S!Output
             /\ [outputs[j] EXCEPT !.late = TRUE] \in S!Output
             /\ [outputs[j] EXCEPT !.late = TRUE].late
  <2>1. outputs[j] \in S!Output
    BY ElementOfSeq, <1>1
  <2> QED
    BY <2>1 DEF S!Output
<1>4. outputs' \in [1 .. Len(outputs) - 1 -> S!Output]
  BY <1>2, <1>3 DEF S!Collect
<1>5. outputs' \in Seq(S!Output)
  BY <1>1, <1>4, SeqDef
<1>6. Len(outputs') = Len(outputs) - 1
  <2>1. DOMAIN outputs' = 1 .. Len(outputs')  /\ Len(outputs') \in Nat
    BY <1>5, LenProperties
  <2> QED
    BY <1>1, <1>4, <2>1, IntervalLength
<1>7. \A j \in DOMAIN outputs' : IF j < n THEN outputs'[j].late ELSE outputs'[j] = outputs[j + 1]
  BY <1>2, <1>3, <1>4 DEF S!Collect
<1> QED
  BY <1>4, <1>5, <1>6, <1>7

(* A reading is the last output.                                            *)
LEMMA ReadEntries ==
  ASSUME S!TypeOK, NEW v \in Interface \cup {Error}, S!Read("refresh", v)
  PROVE  /\ S!TypeOK'
         /\ DOMAIN outputs' = 1 .. Len(outputs) + 1
         /\ Len(outputs') = Len(outputs) + 1
         /\ \A j \in DOMAIN outputs : outputs'[j] = outputs[j]
         /\ outputs'[Len(outputs) + 1].value = v
         /\ outputs'[Len(outputs) + 1].late = FALSE
<1> DEFINE new == [kind |-> "refresh", value |-> v, late |-> FALSE]
<1>1. asked' \in [{"refresh"} -> Nat]
  BY DEF S!TypeOK, S!Read
<1>2. new \in S!Output /\ outputs' = Append(outputs, new) /\ outputs \in Seq(S!Output)
  BY DEF S!Output, S!Read, S!TypeOK
<1>3. /\ outputs' \in Seq(S!Output)
      /\ Len(outputs') = Len(outputs) + 1
      /\ \A j \in 1 .. Len(outputs) : outputs'[j] = outputs[j]
      /\ outputs'[Len(outputs) + 1] = new
  BY <1>2, AppendProperties
<1>4. DOMAIN outputs' = 1 .. Len(outputs) + 1 /\ DOMAIN outputs = 1 .. Len(outputs)
  BY <1>2, <1>3
<1> QED
  BY <1>1, <1>3, <1>4 DEF S!TypeOK

-----------------------------------------------------------------------------
(* Types *)

(* A new device has asked for its first sample.                             *)
LEMMA InitTypes == Init => TypeOK
<1> SUFFICES ASSUME Init PROVE TypeOK
  OBVIOUS
<1>1. S!TypeOK
  BY DEF Init, S!TypeOK
<1> QED
  BY <1>1 DEF Init, TypeOK, DeviceState

(* Every step keeps the types.                                              *)
LEMMA StepTypes == TypeOK /\ [Next]_vars => TypeOK'
<1> SUFFICES ASSUME TypeOK, [Next]_vars PROVE TypeOK'
  OBVIOUS
<1>0. S!TypeOK
  BY DEF TypeOK
<1>1. CASE handleInterfaceEvent \/ DownFinished
  <2>1. S!TypeOK'
    BY <1>0, <1>1 DEF handleInterfaceEvent, DownFinished, updateStateFromIfconfig, S!Ask, S!TypeOK
  <2> QED
    BY <1>1, <2>1 DEF TypeOK, handleInterfaceEvent, DownFinished
<1>2. CASE RefreshFinished
  <2>1. PICK n \in DOMAIN outputs :
          /\ S!Collect(n)
          /\ \/ outputs[n].value = Error /\ tainted' = TRUE /\ UNCHANGED bState
             \/ outputs[n].value # Error /\ parseIfconfigOutput(outputs[n].value) /\ tainted' = outputs[n].late
    BY <1>2 DEF RefreshFinished
  <2>2. S!TypeOK'
    BY <1>0, <1>2, <2>1, CollectEntries DEF RefreshFinished, S!TypeOK
  <2>3. outputs[n].late \in BOOLEAN
    <3>1. outputs[n] \in S!Output
      BY <1>0, ElementOfSeq DEF S!TypeOK
    <3> QED
      BY <3>1 DEF S!Output
  <2> QED
    BY <1>2, <2>1, <2>2, <2>3 DEF TypeOK, RefreshFinished, parseIfconfigOutput, DeviceState
<1>3. CASE disconnect
  <2>1. S!TypeOK'
    BY <1>0, <1>3 DEF disconnect, S!TypeOK
  <2> QED
    BY <1>3, <2>1 DEF TypeOK, disconnect, DeviceState
<1>4. CASE LinkChange
  <2>1. S!TypeOK'
    BY <1>0, <1>4 DEF LinkChange, S!TypeOK
  <2> QED
    BY <1>4, <2>1 DEF TypeOK, LinkChange, BecomesIface
<1>5. CASE DownActs
  <2>1. S!TypeOK'
    BY <1>0, <1>5 DEF DownActs, S!TypeOK
  <2>2. [iface EXCEPT !.up = FALSE] \in Interface
    BY DEF TypeOK, Interface
  <2>3. iface' \in Interface
    BY <1>5, <2>2, Zenon DEF DownActs, BecomesIface, TypeOK
  <2>4. events' \in {events, events + 1}
    BY <1>5, Zenon DEF DownActs, BecomesIface
  <2>5. downs' \in Nat /\ doneDowns' \in Nat /\ UNCHANGED <<bState, tainted>>
    BY <1>5 DEF TypeOK, DownActs
  <2> QED
    BY <2>1, <2>3, <2>4, <2>5 DEF TypeOK
<1>6. CASE ProcessReads
  <2>1. S!TypeOK'
    BY <1>0, <1>6, ReadEntries DEF ProcessReads, TypeOK
  <2> QED
    BY <1>6, <2>1 DEF TypeOK, ProcessReads
<1>7. CASE UNCHANGED vars
  BY <1>7 DEF vars, TypeOK, S!TypeOK
<1> QED
  BY <1>1, <1>2, <1>3, <1>4, <1>5, <1>6, <1>7 DEF Next

-----------------------------------------------------------------------------
(* SettledAgrees is about idle states only.  The invariant says what every   *)
(* state promises: another sample will be taken, or the newest one tells    *)
(* the truth, or it has been collected already.  In the last case the       *)
(* outputs that are left are older, and collecting them taints the device.  *)

Shown(i) == IF isConnected(i) THEN "Connected" ELSE "Disconnected"

SampleToCome == events > 0 \/ asked["refresh"] > 0 \/ downs + doneDowns > 0

NewestAgrees ==
  \/ SampleToCome
  \/ outputs # <<>> /\ (outputs[Len(outputs)].late \/ outputs[Len(outputs)].value \in {iface, Error})
  \/ outputs = <<>> /\ (tainted \/ bState = Shown(iface))

(* A refresh that is collected was the newest output or leaves it in place. *)
LEMMA CollectNewest ==
  ASSUME TypeOK, NewestAgrees, RefreshFinished
  PROVE  NewestAgrees'
<1> DEFINE L == Len(outputs)
<1>1. PICK n \in DOMAIN outputs :
        /\ S!Collect(n)
        /\ \/ outputs[n].value = Error /\ tainted' = TRUE /\ UNCHANGED bState
           \/ outputs[n].value # Error /\ parseIfconfigOutput(outputs[n].value) /\ tainted' = outputs[n].late
  BY DEF RefreshFinished
<1>2. UNCHANGED <<iface, events, asked, downs, doneDowns>>
  BY DEF RefreshFinished
<1>3. CASE SampleToCome
  BY <1>2, <1>3 DEF SampleToCome, NewestAgrees
<1>4. CASE ~SampleToCome
  <2>1. outputs \in Seq(S!Output) /\ L \in Nat /\ DOMAIN outputs = 1 .. L /\ n \in 1 .. L /\ n \in Nat /\ L >= 1
    BY DEF TypeOK, S!TypeOK
  <2>2. outputs # <<>>
    BY <2>1
  <2>3. outputs[L].late \/ outputs[L].value \in {iface, Error}
    BY <1>4, <2>2 DEF NewestAgrees
  <2>4. /\ outputs' \in Seq(S!Output) /\ Len(outputs') = L - 1 /\ DOMAIN outputs' = 1 .. L - 1
        /\ \A j \in DOMAIN outputs' : IF j < n THEN outputs'[j].late ELSE outputs'[j] = outputs[j + 1]
    BY <1>1, CollectEntries DEF TypeOK
  <2>5. CASE L = 1
    <3>1. outputs' = <<>>
      BY <2>4, <2>5, EmptySeq
    <3>2. n = L
      BY <2>1, <2>5
    <3>3. tainted' \/ bState' = Shown(iface)
      BY <1>1, <2>3, <3>2 DEF parseIfconfigOutput, Shown
    <3> QED
      BY <1>2, <3>1, <3>3 DEF NewestAgrees, Shown, isConnected
  <2>6. CASE L > 1
    <3>1. L - 1 \in DOMAIN outputs' /\ outputs' # <<>>
      BY <2>1, <2>4, <2>6
    <3>2. CASE n = L
      <4>1. outputs'[L - 1].late
        BY <2>1, <2>4, <3>1, <3>2
      <4> QED
        BY <2>4, <3>1, <4>1 DEF NewestAgrees
    <3>3. CASE n < L
      <4>1. ~(L - 1 < n) /\ (L - 1) + 1 = L
        BY <2>1, <3>3
      <4>2. outputs'[L - 1] = outputs[L]
        BY <2>4, <3>1, <4>1
      <4> QED
        BY <1>2, <2>3, <2>4, <3>1, <4>2 DEF NewestAgrees
    <3> QED
      BY <2>1, <3>2, <3>3
  <2> QED
    BY <2>1, <2>5, <2>6
<1> QED
  BY <1>3, <1>4

(* Every other step announces a sample, takes one, or changes nothing of it.*)
LEMMA StepNewest == TypeOK /\ NewestAgrees /\ [Next]_vars => NewestAgrees'
<1> SUFFICES ASSUME TypeOK, NewestAgrees, [Next]_vars PROVE NewestAgrees'
  OBVIOUS
<1>1. CASE handleInterfaceEvent \/ DownFinished
  <2>1. asked'["refresh"] > 0
    BY <1>1 DEF TypeOK, S!TypeOK, handleInterfaceEvent, DownFinished, updateStateFromIfconfig, S!Ask
  <2> QED
    BY <2>1 DEF NewestAgrees, SampleToCome
<1>2. CASE RefreshFinished
  BY <1>2, CollectNewest
<1>3. CASE disconnect \/ DownActs
  <2>1. downs' + doneDowns' > 0
    BY <1>3 DEF TypeOK, disconnect, DownActs
  <2> QED
    BY <2>1 DEF NewestAgrees, SampleToCome
<1>4. CASE LinkChange
  <2>1. events' > 0
    BY <1>4 DEF TypeOK, LinkChange, BecomesIface
  <2> QED
    BY <2>1 DEF NewestAgrees, SampleToCome
<1>5. CASE ProcessReads
  <2>1. PICK v \in {iface, Error} : S!Read("refresh", v)
    BY <1>5 DEF ProcessReads
  <2>2. /\ S!TypeOK'
        /\ Len(outputs') = Len(outputs) + 1
        /\ outputs'[Len(outputs) + 1].value = v
    BY <2>1, ReadEntries DEF TypeOK
  <2>3. outputs' # <<>>
    BY <2>2, EmptySeq DEF TypeOK, S!TypeOK
  <2>4. iface' = iface
    BY <1>5 DEF ProcessReads
  <2> QED
    BY <2>1, <2>2, <2>3, <2>4 DEF NewestAgrees
<1>6. CASE UNCHANGED vars
  BY <1>6 DEF vars, NewestAgrees, SampleToCome, Shown, isConnected
<1> QED
  BY <1>1, <1>2, <1>3, <1>4, <1>5, <1>6 DEF Next

-----------------------------------------------------------------------------
(* DisconnectBacked is inductive with the types.                            *)
LEMMA StepBacked == TypeOK /\ DisconnectBacked /\ [Next]_vars => DisconnectBacked'
<1> SUFFICES ASSUME TypeOK, DisconnectBacked, [Next]_vars PROVE DisconnectBacked'
  OBVIOUS
<1>1. CASE handleInterfaceEvent \/ DownFinished
  <2>1. asked'["refresh"] > 0
    BY <1>1 DEF TypeOK, S!TypeOK, handleInterfaceEvent, DownFinished, updateStateFromIfconfig, S!Ask
  <2> QED
    BY <2>1 DEF DisconnectBacked, S!Idle
<1>2. CASE RefreshFinished
  <2>1. tainted' = TRUE \/ bState' \in {"Connected", "Disconnected"}
    BY <1>2 DEF RefreshFinished, parseIfconfigOutput
  <2> QED
    BY <2>1 DEF DisconnectBacked
<1>3. CASE disconnect \/ DownActs
  <2>1. downs' + doneDowns' > 0
    BY <1>3 DEF TypeOK, disconnect, DownActs
  <2> QED
    BY <2>1 DEF DisconnectBacked
<1>4. CASE LinkChange \/ UNCHANGED vars
  BY <1>4 DEF LinkChange, vars, DisconnectBacked, S!Idle
<1>5. CASE ProcessReads
  <2>1. PICK v \in {iface, Error} : S!Read("refresh", v)
    BY <1>5 DEF ProcessReads
  <2>2. S!TypeOK' /\ Len(outputs') = Len(outputs) + 1
    BY <2>1, ReadEntries DEF TypeOK
  <2>3. outputs' # <<>>
    BY <2>2, EmptySeq DEF TypeOK, S!TypeOK
  <2> QED
    BY <2>3 DEF DisconnectBacked, S!Idle
<1> QED
  BY <1>1, <1>2, <1>3, <1>4, <1>5 DEF Next

-----------------------------------------------------------------------------
(* The inductive invariant and what follows from it *)

IInv == TypeOK /\ NewestAgrees /\ DisconnectBacked

(* A new device has its first sample to come.                               *)
LEMMA InitIInv == Init => IInv
<1> SUFFICES ASSUME Init PROVE IInv
  OBVIOUS
<1>1. asked["refresh"] > 0 /\ bState # "Disconnecting"
  BY DEF Init
<1> QED
  BY <1>1, InitTypes DEF IInv, NewestAgrees, SampleToCome, DisconnectBacked

(* The parts are kept together.                                             *)
LEMMA StepIInv == IInv /\ [Next]_vars => IInv'
BY StepTypes, StepNewest, StepBacked DEF IInv

\* Every variable of the wired device keeps its type.
THEOREM TypeCorrect == Spec => []TypeOK
<1>1. IInv => TypeOK
  BY DEF IInv
<1> QED
  BY <1>1, InitIInv, StepIInv, PTL DEF Spec

\* For any number of overlapping refreshes, disconnects and link changes: when
\* nothing is under way and the newest sample was neither failed nor late, the
\* device shows whether its interface is connected.
THEOREM SettledDeviceAgrees == Spec => []SettledAgrees
<1>1. IInv => SettledAgrees
  <2> SUFFICES ASSUME IInv, events = 0, S!Idle, downs + doneDowns = 0, ~tainted
               PROVE  bState = IF iface.up /\ iface.media # "no carrier" THEN "Connected" ELSE "Disconnected"
    BY DEF SettledAgrees
  <2>1. ~SampleToCome /\ outputs = <<>>
    BY DEF IInv, TypeOK, SampleToCome, S!Idle
  <2>2. bState = Shown(iface)
    BY <2>1 DEF IInv, NewestAgrees
  <2> QED
    BY <2>2 DEF Shown, isConnected
<1> QED
  BY <1>1, InitIInv, StepIInv, PTL DEF Spec

\* A device is never left Disconnecting without a down process, a refresh or a
\* failed refresh.
THEOREM NoOrphanedDisconnect == Spec => []DisconnectBacked
<1>1. IInv => DisconnectBacked
  BY DEF IInv
<1> QED
  BY <1>1, InitIInv, StepIInv, PTL DEF Spec

-----------------------------------------------------------------------------
(* Liveness.  The provers cannot look into ENABLED.  What the theorem needs  *)
(* to know of it is a hypothesis: a step whose guard holds can be taken.    *)

StepsReady ==
  /\ outputs # <<>> => ENABLED <<RefreshFinished>>_vars
  /\ asked["refresh"] > 0 => ENABLED <<ProcessReads>>_vars
  /\ doneDowns > 0 /\ S!Idle => ENABLED <<DownFinished>>_vars
  /\ downs > 0 => ENABLED <<DownActs>>_vars

Fairness ==
  /\ WF_vars(RefreshFinished) /\ WF_vars(ProcessReads)
  /\ WF_vars(DownFinished) /\ WF_vars(DownActs)

(* What stands between a device that is to be disconnected and its end,     *)
(* latest stage first: an output, a process that will give one, a down      *)
(* process that has acted, one that has not.                                *)
Waiting  == bState = "Disconnecting" /\ ~tainted
Sampled  == Waiting /\ outputs # <<>>
Asked    == Waiting /\ outputs = <<>> /\ asked["refresh"] > 0
DownDone == Waiting /\ S!Idle /\ doneDowns > 0
DownDue  == Waiting /\ S!Idle /\ doneDowns = 0 /\ downs > 0

(* Something of this stands between, as long as the disconnect is backed.   *)
LEMMA SomeStage == IInv /\ Waiting => Sampled \/ Asked \/ DownDone \/ DownDue
  BY DEF IInv, DisconnectBacked, TypeOK, S!TypeOK, S!Idle, Waiting, Sampled, Asked, DownDone, DownDue

(* Collecting an output shows what it says, or that it failed.              *)
LEMMA CollectedEnds == IInv /\ RefreshFinished => ~Waiting'
  BY DEF RefreshFinished, parseIfconfigOutput, Waiting

(* A process that reads the interface leaves an output.                     *)
LEMMA ReadSamples == IInv /\ ProcessReads => outputs' # <<>>
<1> SUFFICES ASSUME IInv, ProcessReads PROVE outputs' # <<>>
  OBVIOUS
<1>1. PICK v \in {iface, Error} : S!Read("refresh", v)
  BY DEF ProcessReads
<1>2. S!TypeOK' /\ Len(outputs') = Len(outputs) + 1
  BY <1>1, ReadEntries DEF IInv, TypeOK
<1>3. Len(outputs) \in Nat
  BY DEF IInv, TypeOK, S!TypeOK
<1> QED
  BY <1>2, <1>3, EmptySeq DEF S!TypeOK

(* Only collecting it removes an output, only reading ends a process, and   *)
(* down processes act and are collected once.                               *)
LEMMA StagesKeep ==
  ASSUME IInv, [Next]_vars
  PROVE  \/ RefreshFinished \/ ProcessReads
         \/ /\ UNCHANGED <<bState, tainted>> \/ disconnect
            /\ outputs' = outputs /\ asked'["refresh"] >= asked["refresh"]
            /\ DownFinished \/ doneDowns' >= doneDowns
            /\ DownActs \/ downs' >= downs
<1>1. asked["refresh"] \in Nat /\ asked \in [{"refresh"} -> Nat] /\ downs \in Nat /\ doneDowns \in Nat
  BY DEF IInv, TypeOK, S!TypeOK
<1>2. CASE handleInterfaceEvent \/ DownFinished
  BY <1>1, <1>2 DEF handleInterfaceEvent, DownFinished, updateStateFromIfconfig, S!Ask
<1>3. CASE disconnect
  BY <1>1, <1>3 DEF disconnect
<1>4. CASE LinkChange \/ UNCHANGED vars
  BY <1>1, <1>4 DEF LinkChange, vars
<1>5. CASE DownActs
  BY <1>1, <1>5 DEF DownActs
<1> QED
  BY <1>2, <1>3, <1>4, <1>5 DEF Next

(* No step takes a waiting device back a stage.                             *)
LEMMA StagesGoOn ==
  ASSUME IInv, [Next]_vars
  PROVE  /\ Sampled  => Sampled' \/ ~Waiting'
         /\ Asked    => Asked' \/ Sampled' \/ ~Waiting'
         /\ DownDone => DownDone' \/ Asked' \/ Sampled' \/ ~Waiting'
         /\ DownDue  => DownDue' \/ DownDone' \/ Asked' \/ Sampled' \/ ~Waiting'
<1>1. asked["refresh"] \in Nat /\ downs \in Nat /\ doneDowns \in Nat
  BY DEF IInv, TypeOK, S!TypeOK
<1>2. asked'["refresh"] \in Nat /\ downs' \in Nat /\ doneDowns' \in Nat
  BY StepTypes DEF IInv, TypeOK, S!TypeOK
<1>3. CASE RefreshFinished
  BY <1>3, CollectedEnds
<1>4. CASE ProcessReads
  BY <1>4, ReadSamples DEF Sampled
<1>5. CASE ~RefreshFinished /\ ~ProcessReads
  <2>1. /\ outputs' = outputs /\ asked'["refresh"] >= asked["refresh"]
        /\ DownFinished \/ doneDowns' >= doneDowns
        /\ DownActs \/ downs' >= downs
    BY <1>5, StagesKeep
  <2>2. DownFinished => asked'["refresh"] > 0
    BY <1>1 DEF DownFinished, updateStateFromIfconfig, S!Ask, IInv, TypeOK, S!TypeOK
  <2>3. DownActs => doneDowns' > 0
    BY <1>1 DEF DownActs
  <2> QED
    BY <1>1, <1>2, <2>1, <2>2, <2>3 DEF Sampled, Asked, DownDone, DownDue, S!Idle
<1> QED
  BY <1>3, <1>4, <1>5

(* Each stage is left by the step that the code owes it.                    *)
LEMMA StagesEnd ==
  ASSUME IInv
  PROVE  /\ Sampled /\ RefreshFinished => ~Waiting'
         /\ Asked /\ ProcessReads => Sampled' \/ ~Waiting'
         /\ DownDone /\ DownFinished => Asked' \/ Sampled' \/ ~Waiting'
         /\ DownDue /\ DownActs => DownDone' \/ Asked' \/ Sampled' \/ ~Waiting'
<1>1. asked \in [{"refresh"} -> Nat] /\ downs \in Nat /\ doneDowns \in Nat
  BY DEF IInv, TypeOK, S!TypeOK
<1>2. DownFinished => asked'["refresh"] > 0
  BY <1>1 DEF DownFinished, updateStateFromIfconfig, S!Ask
<1>3. DownActs => doneDowns' > 0 /\ UNCHANGED <<asked, outputs>>
  BY <1>1 DEF DownActs
<1> QED
  BY <1>1, <1>2, <1>3, CollectedEnds, ReadSamples DEF Sampled, Asked, DownDone, DownDue, S!Idle

\* A disconnect ends, whatever refreshes overlap and whatever the interface
\* does meanwhile, unless a refresh fails: FairSpec gets the device through
\* the stages above, provided that a step whose guard holds can be taken.
THEOREM DisconnectsEnd == FairSpec /\ []StepsReady => DisconnectEnds
<1>1. Spec => []IInv
  BY InitIInv, StepIInv, PTL DEF Spec
<1>2. IInv /\ [Next]_vars =>
        /\ Sampled  => Sampled' \/ ~Waiting'
        /\ Asked    => Asked' \/ Sampled' \/ ~Waiting'
        /\ DownDone => DownDone' \/ Asked' \/ Sampled' \/ ~Waiting'
        /\ DownDue  => DownDue' \/ DownDone' \/ Asked' \/ Sampled' \/ ~Waiting'
  BY StagesGoOn
<1>3. IInv /\ Sampled /\ <<RefreshFinished>>_vars => ~Waiting'
  BY StagesEnd
<1>4. IInv /\ Asked /\ <<ProcessReads>>_vars => Sampled' \/ ~Waiting'
  BY StagesEnd
<1>5. IInv /\ DownDone /\ <<DownFinished>>_vars => Asked' \/ Sampled' \/ ~Waiting'
  BY StagesEnd
<1>6. IInv /\ DownDue /\ <<DownActs>>_vars => DownDone' \/ Asked' \/ Sampled' \/ ~Waiting'
  BY StagesEnd
<1>7. StepsReady =>
        /\ Sampled  => ENABLED <<RefreshFinished>>_vars
        /\ Asked    => ENABLED <<ProcessReads>>_vars
        /\ DownDone => ENABLED <<DownFinished>>_vars
        /\ DownDue  => ENABLED <<DownActs>>_vars
  BY DEF StepsReady, Sampled, Asked, DownDone, DownDue
<1>8. Waiting <=> ~(bState # "Disconnecting" \/ tainted)
  BY DEF Waiting
<1>9. FairSpec => Spec /\ Fairness
  BY PTL DEF FairSpec, Fairness
<1> DEFINE Run == []IInv /\ [][Next]_vars /\ Fairness /\ []StepsReady
<1>10. Run => (Sampled ~> ~Waiting)
  BY <1>2, <1>3, <1>7, PTL DEF Fairness
<1>11. Run => (Asked ~> (Sampled \/ ~Waiting))
  BY <1>2, <1>4, <1>7, PTL DEF Fairness
<1>12. Run => (DownDone ~> (Asked \/ Sampled \/ ~Waiting))
  BY <1>2, <1>5, <1>7, PTL DEF Fairness
<1>13. Run => (DownDue ~> (DownDone \/ Asked \/ Sampled \/ ~Waiting))
  BY <1>2, <1>6, <1>7, PTL DEF Fairness
<1> QED
  BY <1>1, <1>8, <1>9, <1>10, <1>11, <1>12, <1>13, SomeStage, PTL DEF Spec, DisconnectEnds
=============================================================================
