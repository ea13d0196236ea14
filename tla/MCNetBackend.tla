---------------------------- MODULE MCNetBackend ----------------------------
(* Instances of NetBackend.  em0 is wired, wlan0 wireless and lo0 ignored.   *)
EXTENDS NetBackend, TLC

CONSTANTS em0, wlan0, lo0, d1, d2

One == {em0}
Two == {em0, wlan0}
MCWired == {em0}
MCWireless == {wlan0}
MCIgnored == {lo0}
MCFd == {3}
MCNoFd == 0
TwoDevices == {d1, d2}

(* Device objects are interchangeable. *)
Symmetry == Permutations(Dev)
=============================================================================
