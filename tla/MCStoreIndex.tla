---------------------------- MODULE MCStoreIndex ----------------------------
(* StoreIndex on a small instance: see the MCStoreIndex*.cfg files. *)
EXTENDS StoreIndex, TLC
=============================================================================
