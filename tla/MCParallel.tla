----------------------------- MODULE MCParallel -----------------------------
(* Instances of Parallel for TLC; the cfg files give the bounds. *)
EXTENDS Parallel
=============================================================================
