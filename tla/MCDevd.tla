------------------------------- MODULE MCDevd -------------------------------
(* Two kinds of datagram, three descriptors, a socket buffer of two.        *)
EXTENDS Devd

MCEvent == {"ifnet", "snd"}
MCFd == 3..5
MCNoFd == 0
=============================================================================
