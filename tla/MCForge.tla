------------------------------ MODULE MCForge ------------------------------
(* Two threads, two tokens of each kind, two replies on their way.         *)
EXTENDS Forge, TLC

Symmetry == Permutations(Thread) \cup Permutations(Token) \cup Permutations(RefreshToken)
=============================================================================
