----------------------------- MODULE RetryLink -----------------------------
(***************************************************************************)
(* What a client of a local daemon promises: a link that is lost is        *)
(* retried until it is up again.  A link that is not up at the start is    *)
(* either left alone ("idle", for good) or retried from the start.         *)
(* Devd.tla, MangoIpc.tla and NullspaceIpc.tla implement it.               *)
(***************************************************************************)

VARIABLES
  phase,     \* "idle": never up;  "up";  "retrying": not up, being retried
  reachable  \* the daemon accepts connections

vars == <<phase, reachable>>

Phase == {"idle", "up", "retrying"}

TypeOK == phase \in Phase /\ reachable \in BOOLEAN

Init == phase \in Phase /\ reachable \in BOOLEAN /\ (phase = "up" => reachable)

Retriable == phase = "retrying" /\ reachable

Establish == Retriable /\ phase' = "up" /\ UNCHANGED reachable

Lose == phase = "up" /\ phase' = "retrying" /\ UNCHANGED reachable

DaemonChanges == reachable' = ~reachable /\ UNCHANGED phase

Next == Establish \/ Lose \/ DaemonChanges

Spec == Init /\ [][Next]_vars

(* SF_vars(Establish), with the guard of Establish in place of ENABLED: a   *)
(* link that can be established again and again is.                         *)
Retried == []<>Retriable => []<><<Establish>>_vars

FairSpec == Spec /\ Retried
=============================================================================
