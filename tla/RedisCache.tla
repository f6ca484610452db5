------------------------------ MODULE RedisCache ------------------------------
(***************************************************************************)
(* cache/cache.cpp: alive processes that share a Redis server to skip      *)
(* refinement checks which were done before, with the caller of lookup()   *)
(* in tv/tv.cpp. Redis executes one command at a time, but the constructor *)
(* and lookup() are each a GET followed by a SET. A key is set before the  *)
(* check it stands for is made.                                            *)
(***************************************************************************)
EXTENDS Naturals, FiniteSets

CONSTANTS
  Clients,        \* alive processes
  Versions,       \* versions of Alive2
  VersionOf,      \* [Clients -> Versions]: util::alive_version of a process
  Progs,          \* Alive IR of functions, as printed
  MaxQueries,     \* bound: lookups per client
  MaxCrashes,     \* bound: processes that are killed or lose the connection
  AllowMismatch,  \* -tv-cache-allow-version-mismatch
  AlwaysVerify    \* -tv-always-verify

ASSUME RedisCacheAssumption ==
  /\ VersionOf \in [Clients -> Versions]
  /\ MaxQueries \in Nat /\ MaxCrashes \in Nat
  /\ AllowMismatch \in BOOLEAN /\ AlwaysVerify \in BOOLEAN

VARIABLES
  version,   \* the key Alive2_version: empty or one version
  keys,      \* the other keys that are set (all to "XXX")
  pc,        \* where a client is
  query,     \* the check lookup() was called for
  asked,     \* lookups of a client
  crashes,
  missed,    \* history: checks lookup() answered false to
  skipped,   \* history: checks answered "Skipping repeated query"
  verified   \* history: checks that were made to the end

vars == <<version, keys, pc, query, asked, crashes, missed, skipped, verified>>

PCs == {"connect", "newcache", "ready", "miss", "verify", "exited"}

\* A refinement check; equal programs never reach the cache unless
\* -tv-always-verify is given.
Queries == {q \in Progs \X Progs : AlwaysVerify \/ q[1] # q[2]}
NoQuery == << >>

\* Mutant: only the target goes into the key.
KeyOf_TargetOnly(q) == q[2]

\* The argument of lookup(), src_tostr + "===\n" + tgt_tostr, up to hash
\* collisions: with -tv-always-verify the caller leaves src_tostr empty.
KeyOf(q) == IF AlwaysVerify THEN q[2] ELSE q

Init ==
  /\ \E v \in Versions \cup {"none"} : version = IF v = "none" THEN {} ELSE {v}
  /\ keys = {}
  /\ pc = [c \in Clients |-> "connect"]
  /\ query = [c \in Clients |-> NoQuery]
  /\ asked = [c \in Clients |-> 0]
  /\ crashes = 0 /\ missed = {} /\ skipped = {} /\ verified = {}

\* Cache::Cache: GET Alive2_version
GetVersion(c) ==
  /\ pc[c] = "connect"
  /\ pc' = [pc EXCEPT ![c] =
       IF version = {} THEN "newcache"
       ELSE IF VersionOf[c] \in version \/ AllowMismatch THEN "ready" ELSE "exited"]
  /\ UNCHANGED <<version, keys, query, asked, crashes, missed, skipped, verified>>

\* Cache::Cache: no version there yet, SET Alive2_version
SetVersion(c) ==
  /\ pc[c] = "newcache"
  /\ version' = {VersionOf[c]}
  /\ pc' = [pc EXCEPT ![c] = "ready"]
  /\ UNCHANGED <<keys, query, asked, crashes, missed, skipped, verified>>

\* lookup: GET crc; on a hit verify() prints "Skipping repeated query"
Lookup(c, q) ==
  /\ pc[c] = "ready" /\ asked[c] < MaxQueries
  /\ asked' = [asked EXCEPT ![c] = @ + 1]
  /\ IF KeyOf(q) \in keys
     THEN /\ skipped' = skipped \cup {q}
          /\ UNCHANGED <<pc, query>>
     ELSE /\ pc' = [pc EXCEPT ![c] = "miss"]
          /\ query' = [query EXCEPT ![c] = q]
          /\ UNCHANGED skipped
  /\ UNCHANGED <<version, keys, crashes, missed, verified>>

\* Mutant: lookup() answers true on both branches.
SetKey_AnswersTrue(c) ==
  /\ pc[c] = "miss"
  /\ keys' = keys \cup {KeyOf(query[c])}
  /\ missed' = missed \cup {query[c]}
  /\ skipped' = skipped \cup {query[c]}
  /\ pc' = [pc EXCEPT ![c] = "ready"]
  /\ UNCHANGED <<version, query, asked, crashes, verified>>

\* lookup: SET crc "XXX", answer false
SetKey(c) ==
  /\ pc[c] = "miss"
  /\ keys' = keys \cup {KeyOf(query[c])}
  /\ missed' = missed \cup {query[c]}
  /\ pc' = [pc EXCEPT ![c] = "verify"]
  /\ UNCHANGED <<version, query, asked, crashes, skipped, verified>>

\* The check is made (in this process or in a child)
Verify(c) ==
  /\ pc[c] = "verify"
  /\ verified' = verified \cup {query[c]}
  /\ pc' = [pc EXCEPT ![c] = "ready"]
  /\ query' = [query EXCEPT ![c] = NoQuery]
  /\ UNCHANGED <<version, keys, asked, crashes, missed, skipped>>

\* Killed, out of memory, or exit(-1) on a Redis error
Crash(c) ==
  /\ pc[c] # "exited" /\ crashes < MaxCrashes
  /\ crashes' = crashes + 1
  /\ pc' = [pc EXCEPT ![c] = "exited"]
  /\ UNCHANGED <<version, keys, query, asked, missed, skipped, verified>>

\* The process has no more checks to make.
Exit(c) ==
  /\ pc[c] = "ready"
  /\ pc' = [pc EXCEPT ![c] = "exited"]
  /\ UNCHANGED <<version, keys, query, asked, crashes, missed, skipped, verified>>

Progress(c) == GetVersion(c) \/ SetVersion(c) \/ SetKey(c) \/ Verify(c)

Next ==
  \/ \E c \in Clients :
       \/ Progress(c)
       \/ \E q \in Queries : Lookup(c, q)
       \/ Crash(c)
       \/ Exit(c)
  \/ (\A c \in Clients : pc[c] = "exited") /\ UNCHANGED vars

Spec == Init /\ [][Next]_vars

\* Redis answers and a check ends; nobody is obliged to ask.
FairSpec == Spec /\ \A c \in Clients : WF_vars(Progress(c))
-----------------------------------------------------------------------------
(* Properties *)

\* A check is skipped only if this very check was started before, by any
\* process and in any interleaving ("When it hits a repeated refinement check").
SkipOnlyRepeated == skipped \subseteq missed

\* Whatever was skipped gets verified by somebody, unless a process dies, although
\* the key is set before the check is made.
SkippedGetsVerified ==
  \A q \in Queries : (q \in skipped) ~> (q \in verified \/ crashes > 0)
=============================================================================
