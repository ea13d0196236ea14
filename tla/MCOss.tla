------------------------------- MODULE MCOss -------------------------------
(* Two units, one jack.                                                     *)
EXTENDS Oss

MCUnit == {0, 1}
MCNid == {20}
MCHeadphone == {20}
=============================================================================
