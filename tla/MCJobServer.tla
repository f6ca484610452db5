----------------------------- MODULE MCJobServer -----------------------------
(* Instances of JobServer for TLC. *)
EXTENDS JobServer
CONSTANTS a, b

MCClients == {a, b}
=============================================================================
