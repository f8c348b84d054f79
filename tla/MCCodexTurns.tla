---------------------------- MODULE MCCodexTurns ----------------------------
(* The instances of CodexTurns that TLC checks. *)
EXTENDS CodexTurns, TLC

Interchangeable == Permutations(Sessions)
=============================================================================
