----------------------------- MODULE MCRedisCache -----------------------------
(* Instances of RedisCache for TLC. *)
EXTENDS RedisCache
CONSTANTS c1, c2, p, q, r

MCClients  == {c1, c2}
MCProgs    == {p, q, r}
MCVersions == {"v1", "v2"}
MCSame     == [c \in MCClients |-> "v1"]
MCDiffer   == [c \in MCClients |-> IF c = c1 THEN "v1" ELSE "v2"]
=============================================================================
