--------------------------- MODULE MCNullspaceIpc ---------------------------
(* Two spaces: the one marked at the start, and the one that is current.    *)
EXTENDS NullspaceIpc

MCSpace == {0, 1}
=============================================================================
