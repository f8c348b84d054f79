---------------------------- MODULE MCReplayIndex ----------------------------
(* ReplayIndex for TLC: sessions are interchangeable. *)
EXTENDS ReplayIndex, TLC

Symmetry == Permutations(Sessions)
=============================================================================
