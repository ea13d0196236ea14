---------------------------- MODULE MCWifiDevice ----------------------------
(* Instances of WifiDevice: two access points, one of them with a saved     *)
(* SSID, and two pipelines where the code must keep to one.                 *)
EXTENDS WifiDevice, TLC

CONSTANTS ap1, ap2, s1, s2

OneAp == {ap1}
TwoAps == {ap1, ap2}
MCSaved == {ap1}
NoneSaved == {}
OneScan == {s1}
TwoScans == {s1, s2}

(* Pipelines are interchangeable. *)
Symmetry == Permutations(Scan)
=============================================================================
