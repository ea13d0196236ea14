------------------------------ MODULE Sampler ------------------------------
(***************************************************************************)
(* The devices of plugin/src/network learn the state of their interface by  *)
(* running `ifconfig <if>` as a QProcess and parsing what it printed when   *)
(* its finished signal arrives.  Several processes may run at once: each    *)
(* reads the kernel at some moment of its own, and they may finish in any   *)
(* order, so an output may be collected after a newer one.                  *)
(***************************************************************************)
EXTENDS Naturals, Sequences

CONSTANTS
  Kind,   \* what a process was started for
  Value   \* what an output may say

VARIABLES
  asked,   \* processes that have not read the kernel yet, per kind
  outputs  \* outputs not collected yet, oldest reading first

Output == [kind : Kind, value : Value, late : BOOLEAN]

TypeOK == asked \in [Kind -> Nat] /\ outputs \in Seq(Output)

Init == asked = [k \in Kind |-> 0] /\ outputs = <<>>

(* updateStateFromIfconfig, or the first step of triggerScan.               *)
Ask(k) == asked' = [asked EXCEPT ![k] = @ + 1] /\ UNCHANGED outputs

(* The process looks at the interface.                                      *)
Read(k, v) ==
  /\ asked[k] > 0
  /\ asked' = [asked EXCEPT ![k] = @ - 1]
  /\ outputs' = Append(outputs, [kind |-> k, value |-> v, late |-> FALSE])

(* The n-th output is collected; those read before it are late from now on. *)
Collect(n) ==
  outputs' = [j \in 1 .. Len(outputs) - 1 |->
                IF j < n THEN [outputs[j] EXCEPT !.late = TRUE] ELSE outputs[j + 1]]

Idle == outputs = <<>> /\ \A k \in Kind : asked[k] = 0

Running(k) == asked[k] > 0 \/ \E n \in DOMAIN outputs : outputs[n].kind = k
=============================================================================
