------------------------------ MODULE OssMixer ------------------------------
(***************************************************************************)
(* The controls of one mixer (plugin/src/oss, class OSSMixerControl).  A   *)
(* control caches its level and its mute; writing it means three system    *)
(* calls on the mixer, the mutes of all controls being one mask that is    *)
(* read and written back, and refreshing it means two.  Other programs     *)
(* change the mixer between any two of them.                               *)
(***************************************************************************)
EXTENDS Integers

CONSTANTS
  Control,   \* the controls of the mixer
  MaxLevel   \* the loudest level, 100 in the code

ASSUME MixerAssumption == MaxLevel \in Nat

VARIABLES
  mLeft, mRight, mStereo, mMuted,  \* members of each control
  call,      \* the system call the bar makes next, "idle" if none
  ctl,       \* the control it is about
  got,       \* the level, or the mask, it has read
  level,     \* kernel: left and right level of each control
  muted,     \* kernel: the mute mask
  fresh,     \* history: controls last read or written whole, and not changed by others since
  touched    \* history: controls others changed since the operation, or its mask, was begun

cache == <<mLeft, mRight, mStereo, mMuted>>
mixer == <<level, muted>>
mixerVars == <<cache, call, ctl, got, mixer, fresh, touched>>

Level == 0..MaxLevel

Clamp_Below(v) ==  \* mutant: only negative levels are clamped
  IF v < 0 THEN 0 ELSE v

Clamp(v) == IF v < 0 THEN 0 ELSE IF v > MaxLevel THEN MaxLevel ELSE v

Done == call' = "idle" /\ ctl' = ctl /\ got' = {}

Gives(ok) == fresh' = IF ok /\ ctl \notin touched THEN fresh \cup {ctl} ELSE fresh \ {ctl}

-----------------------------------------------------------------------------
(* Refresh: the level, then the mask.  A mixer that does not open, or a     *)
(* level that is not read, leaves the cache as it is; a mask that is not    *)
(* read counts as empty.                                                    *)

Refresh(c) ==
  /\ call = "idle" /\ call' = "refresh" /\ ctl' = c /\ touched' = {}
  /\ got' = level[c]
  /\ UNCHANGED <<cache, mixer, fresh>>

updateValue ==
  /\ call = "refresh" /\ Done
  /\ \E ok \in BOOLEAN :
       /\ mMuted' = [mMuted EXCEPT ![ctl] = ok /\ ctl \in muted]
       /\ Gives(ok)
  /\ mLeft' = [mLeft EXCEPT ![ctl] = got.left]
  /\ \/ /\ got.right # 0 /\ mRight[ctl] # got.right
        /\ mRight' = [mRight EXCEPT ![ctl] = got.right]
        /\ mStereo' = [mStereo EXCEPT ![ctl] = TRUE]
     \/ /\ got.right = 0 /\ ~mStereo[ctl]
        /\ mRight' = [mRight EXCEPT ![ctl] = got.left]
        /\ UNCHANGED mStereo
     \/ /\ IF got.right # 0 THEN mRight[ctl] = got.right ELSE mStereo[ctl]
        /\ UNCHANGED <<mRight, mStereo>>
  /\ UNCHANGED <<mixer, touched>>

-----------------------------------------------------------------------------
(* Setters: the cache first, then the mixer, which may not open.            *)

Begin(c) ==
  /\ ctl' = c /\ got' = {} /\ touched' = {}
  /\ \/ call' = "writeLevel" /\ UNCHANGED fresh
     \/ call' = "idle" /\ fresh' = fresh \ {c}
  /\ UNCHANGED mixer

setLeft(c, v) ==
  /\ call = "idle" /\ mLeft[c] # Clamp(v)
  /\ mLeft' = [mLeft EXCEPT ![c] = Clamp(v)]
  /\ Begin(c)
  /\ UNCHANGED <<mRight, mStereo, mMuted>>

setRight(c, v) ==
  /\ call = "idle" /\ mRight[c] # Clamp(v)
  /\ mRight' = [mRight EXCEPT ![c] = Clamp(v)]
  /\ Begin(c)
  /\ UNCHANGED <<mLeft, mStereo, mMuted>>

setMuted(c) ==
  /\ call = "idle"
  /\ mMuted' = [mMuted EXCEPT ![c] = ~@]
  /\ Begin(c)
  /\ UNCHANGED <<mLeft, mRight, mStereo>>

\* A control that is not known to be stereo writes its left level to both.
WriteLevel ==
  /\ call = "writeLevel"
  /\ \/ /\ level' = [level EXCEPT ![ctl] =
             [left  |-> mLeft[ctl],
              right |-> IF mStereo[ctl] THEN mRight[ctl] ELSE mLeft[ctl]]]
        /\ call' = "readMask" /\ touched' = {} /\ UNCHANGED <<ctl, got, fresh>>
     \/ Done /\ Gives(FALSE) /\ UNCHANGED <<level, touched>>
  /\ UNCHANGED <<cache, muted>>

ReadMask ==
  /\ call = "readMask"
  /\ \/ call' = "writeMask" /\ got' = muted /\ UNCHANGED <<ctl, fresh>>
     \/ Done /\ Gives(FALSE)
  /\ touched' = touched \cap {ctl}
  /\ UNCHANGED <<cache, mixer>>

NewMask_OwnBit ==  \* mutant: the mask that was read is not used
  IF mMuted[ctl] THEN {ctl} ELSE {}

NewMask_NeverClears ==  \* mutant: the bit is set and never cleared
  IF mMuted[ctl] THEN got \cup {ctl} ELSE got

NewMask == IF mMuted[ctl] THEN got \cup {ctl} ELSE got \ {ctl}

WriteMask ==
  /\ call = "writeMask" /\ Done
  /\ \/ muted' = NewMask /\ Gives(TRUE)
     \/ UNCHANGED muted /\ Gives(FALSE)
  /\ UNCHANGED <<cache, level, touched>>

-----------------------------------------------------------------------------
(* Other programs.                                                          *)

OthersSet(c, l, r) ==
  /\ level' = [level EXCEPT ![c] = [left |-> l, right |-> r]]
  /\ fresh' = fresh \ {c} /\ touched' = touched \cup {c}
  /\ UNCHANGED <<cache, call, ctl, got, muted>>

OthersMute(c) ==
  /\ muted' = IF c \in muted THEN muted \ {c} ELSE muted \cup {c}
  /\ fresh' = fresh \ {c} /\ touched' = touched \cup {c}
  /\ UNCHANGED <<cache, call, ctl, got, level>>

-----------------------------------------------------------------------------
(* The constructor of a control refreshes it.  What could not be read keeps *)
(* its default.                                                             *)

Constructed(read, masked) ==
  /\ mLeft = [c \in Control |-> IF c \in read THEN level[c].left ELSE 0]
  /\ mRight = [c \in Control |->
       IF c \notin read THEN 0 ELSE IF level[c].right = 0 THEN level[c].left ELSE level[c].right]
  /\ mStereo = [c \in Control |-> c \in read /\ level[c].right # 0]
  /\ mMuted = [c \in Control |-> c \in masked \cap muted]
  /\ fresh = masked

MixerInit ==
  /\ level \in [Control -> [left : Level, right : Level]]
  /\ muted \in SUBSET Control
  /\ \E read \in SUBSET Control : \E masked \in SUBSET read : Constructed(read, masked)
  /\ call = "idle" /\ ctl \in Control /\ got = {}
  /\ touched = {}

MixerNext ==
  \/ updateValue \/ WriteLevel \/ ReadMask \/ WriteMask
  \/ \E c \in Control :
       \/ Refresh(c) \/ setMuted(c) \/ OthersMute(c)
       \/ \E v \in -1..MaxLevel + 1 : setLeft(c, v) \/ setRight(c, v)
       \/ \E l, r \in Level : OthersSet(c, l, r)

MixerSpec == MixerInit /\ [][MixerNext]_mixerVars

-----------------------------------------------------------------------------
(* Properties *)

\* Levels stay within 0..100 in the cache and in the mixer, whatever is asked
\* for, and the other variables have the types of their members in oss.hpp.
MixerTypeOK ==
  /\ mLeft \in [Control -> Level] /\ mRight \in [Control -> Level]
  /\ mStereo \in [Control -> BOOLEAN] /\ mMuted \in [Control -> BOOLEAN]
  /\ call \in {"idle", "refresh", "writeLevel", "readMask", "writeMask"} /\ ctl \in Control
  /\ call = "refresh" => got \in [left : Level, right : Level]
  /\ call = "writeMask" => got \in SUBSET Control
  /\ level \in [Control -> [left : Level, right : Level]] /\ muted \in SUBSET Control
  /\ fresh \in SUBSET Control /\ touched \in SUBSET Control

\* A control that was read or written whole shows the mixer as it is until
\* another program changes that control: no write of another control, and no
\* sequence of refreshes and writes, leaves it stale.  The exception is the
\* code's: a right level of 0 is taken for a missing one (oss.cpp:133).
FreshAgrees ==
  call = "idle" =>
    \A c \in fresh :
      /\ mLeft[c] = level[c].left
      /\ mMuted[c] = (c \in muted)
      /\ mStereo[c] /\ level[c].right # 0 => mRight[c] = level[c].right

\* Writing one control leaves the mutes of the others alone, except for one
\* that another program changed between the reading of the mask and its
\* writing (oss.cpp:175-182).
OtherMutesKept ==
  [][call = "writeMask" /\ call' = "idle" =>
       \A c \in Control \ ({ctl} \cup touched) : (c \in muted') = (c \in muted)]_mixerVars
=============================================================================
