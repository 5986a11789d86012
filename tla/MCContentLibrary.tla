-------------------------- MODULE MCContentLibrary --------------------------
(* Small instances of ContentLibrary. *)
EXTENDS ContentLibrary, TLC

ActorSymmetry == Permutations(Puts) \cup Permutations(Gets) \cup Permutations(Deletes)
=============================================================================
