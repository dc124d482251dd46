---------------------------- MODULE MCObjectStore ----------------------------
(* ObjectStore on a small instance: see the MCObjectStore*.cfg files. *)
EXTENDS ObjectStore, TLC

Symmetry == Permutations(Procs) \cup Permutations(Contents)
=============================================================================
