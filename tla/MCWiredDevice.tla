---------------------------- MODULE MCWiredDevice ----------------------------
(* One wired interface with two refreshes and two disconnects at a time.  *)
EXTENDS WiredDevice
=============================================================================
