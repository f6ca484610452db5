----------------------------- MODULE MCTVPlugin -----------------------------
(***************************************************************************)
(* Pipelines without batching over a named and an unnamed function; with   *)
(* -tv-check-pass over one function, deeper; and with batching, flat: what *)
(* a batch of nested passes does is a question of its own.                 *)
(***************************************************************************)
EXTENDS TVPlugin

Single    == [nfuncs |-> 2, anon |-> {2}, kinds |-> {"plain", "unsupported", "nop", "terminate"},
              first |-> {"plain", "unsupported", "nop", "terminate"}, maxPasses |-> 4, maxDepth |-> 3,
              vanish |-> TRUE, batch |-> FALSE, checkOnly |-> FALSE]
CheckPass == [nfuncs |-> 1, anon |-> {}, kinds |-> {"plain", "chosen", "unsupported", "nop"},
              first |-> {"plain", "chosen", "unsupported", "nop"}, maxPasses |-> 5, maxDepth |-> 3,
              vanish |-> FALSE, batch |-> FALSE, checkOnly |-> TRUE]
BatchFlat == [nfuncs |-> 1, anon |-> {}, kinds |-> {"plain", "unsupported", "nop"},
              first |-> {"plain", "nop"}, maxPasses |-> 6, maxDepth |-> 1,
              vanish |-> FALSE, batch |-> TRUE, checkOnly |-> FALSE]
MCSetups  == {Single, CheckPass, BatchFlat}
=============================================================================
