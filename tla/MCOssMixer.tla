---------------------------- MODULE MCOssMixer ----------------------------
(* Two controls, levels from 0 to 1.                                        *)
EXTENDS OssMixer

MCControl == {0, 4}
=============================================================================
