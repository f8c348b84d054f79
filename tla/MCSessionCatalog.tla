-------------------------- MODULE MCSessionCatalog --------------------------
(* SessionCatalog for TLC: sessions and callers are interchangeable. *)
EXTENDS SessionCatalog, TLC

Symmetry == Permutations(Wsids) \cup Permutations(Callers)
=============================================================================
