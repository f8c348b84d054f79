---------------------------- MODULE MCWireFrames ----------------------------
(* The instances of WireFrames that TLC checks. *)
EXTENDS WireFrames, TLC

Interchangeable == Permutations(Sessions)
=============================================================================
