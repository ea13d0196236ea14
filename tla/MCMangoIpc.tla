----------------------------- MODULE MCMangoIpc -----------------------------
(* One output that comes and goes, two tags.                                *)
EXTENDS MangoIpc

MCOutput == {"eDP-1"}
MCTag == {1, 2, 3}
MCUrgentTag == {1}
=============================================================================
