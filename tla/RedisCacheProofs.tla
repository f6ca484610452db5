-------------------------- MODULE RedisCacheProofs --------------------------
(***************************************************************************)
(* Proofs about RedisCache, for any number of processes, programs, lookups *)
(* and crashes.                                                            *)
(***************************************************************************)
EXTENDS RedisCache, TLAPS

\* Every key that is set belongs to a check lookup() answered false to: SET
\* follows the GET that missed, whatever other processes do in between.
KeysOfMissed == \A k \in keys : \E m \in missed : KeyOf(m) = k

\* A check is skipped only if a check with the same key was started before.
SkipOnlySameKey == \A q \in skipped : \E m \in missed : KeyOf(m) = KeyOf(q)

\* A check that was started has ended, is running, or some process died.
StartedIsRunning ==
  crashes = 0 =>
    \A m \in missed : m \in verified \/ \E c \in Clients : pc[c] = "verify" /\ query[c] = m

\* The types of what counts processes and their checks.
CountType == crashes \in Nat /\ pc \in [Clients -> PCs] /\ query \in [Clients -> Queries \cup {NoQuery}]

\* The inductive invariant.
IInv == CountType /\ KeysOfMissed /\ SkipOnlySameKey /\ StartedIsRunning

\* Nothing is skipped when the processes start.
LEMMA InitIInv == Init => IInv
BY DEF Init, IInv, CountType, KeysOfMissed, SkipOnlySameKey, StartedIsRunning, PCs

\* No command of any process breaks the inductive invariant.
LEMMA NextIInv == IInv /\ [Next]_vars => IInv'
<1> SUFFICES ASSUME IInv, [Next]_vars PROVE IInv'
  OBVIOUS
<1> USE DEF IInv, PCs
<1>1. ASSUME NEW c \in Clients, GetVersion(c) \/ SetVersion(c) \/ Exit(c) PROVE IInv'
  <2>1. /\ UNCHANGED <<keys, query, crashes, missed, skipped, verified>>
        /\ \E p \in {"newcache", "ready", "exited"} : pc' = [pc EXCEPT ![c] = p]
        /\ pc[c] # "verify"
    BY <1>1 DEF GetVersion, SetVersion, Exit
  <2>2. CountType' /\ KeysOfMissed' /\ SkipOnlySameKey'
    BY <2>1 DEF CountType, KeysOfMissed, SkipOnlySameKey
  <2>3. StartedIsRunning'
    BY <2>1 DEF StartedIsRunning, CountType
  <2>4. QED
    BY <2>2, <2>3
<1>2. ASSUME NEW c \in Clients, NEW q \in Queries, Lookup(c, q) PROVE IInv'
  <2>1. CountType' /\ KeysOfMissed'
    BY <1>2 DEF Lookup, CountType, KeysOfMissed
  <2>2. SkipOnlySameKey'
    BY <1>2 DEF Lookup, KeysOfMissed, SkipOnlySameKey
  <2>3. StartedIsRunning'
    BY <1>2 DEF Lookup, StartedIsRunning, CountType
  <2>4. QED
    BY <2>1, <2>2, <2>3
<1>3. ASSUME NEW c \in Clients, SetKey(c) PROVE IInv'
  <2>1. CountType' /\ KeysOfMissed' /\ SkipOnlySameKey'
    BY <1>3 DEF SetKey, CountType, KeysOfMissed, SkipOnlySameKey
  <2>2. StartedIsRunning'
    BY <1>3 DEF SetKey, StartedIsRunning, CountType
  <2>3. QED
    BY <2>1, <2>2
<1>4. ASSUME NEW c \in Clients, Verify(c) PROVE IInv'
  <2>1. CountType' /\ KeysOfMissed' /\ SkipOnlySameKey'
    BY <1>4 DEF Verify, CountType, KeysOfMissed, SkipOnlySameKey
  <2>2. StartedIsRunning'
    BY <1>4 DEF Verify, StartedIsRunning, CountType
  <2>3. QED
    BY <2>1, <2>2
<1>5. ASSUME NEW c \in Clients, Crash(c) PROVE IInv'
  BY <1>5 DEF Crash, CountType, KeysOfMissed, SkipOnlySameKey, StartedIsRunning
<1>6. CASE UNCHANGED vars
  BY <1>6 DEF vars, CountType, KeysOfMissed, SkipOnlySameKey, StartedIsRunning
<1>7. QED
  BY <1>1, <1>2, <1>3, <1>4, <1>5, <1>6 DEF Next, Progress

\* IInv is an invariant.
LEMMA Invariance == Spec => []IInv
BY InitIInv, NextIInv, PTL DEF Spec

-----------------------------------------------------------------------------
(* Results *)

\* Without -tv-always-verify lookup() lets a check be skipped only if this very
\* check was started before, for any number of processes and any interleaving
\* of their GETs and SETs.
THEOREM SkipsAreRepeated == ASSUME ~AlwaysVerify PROVE Spec => []SkipOnlyRepeated
<1>1. IInv => SkipOnlyRepeated
  BY DEF IInv, SkipOnlySameKey, SkipOnlyRepeated, KeyOf
<1>2. QED
  BY <1>1, Invariance, PTL

\* With any options, what is skipped has the key of a check that was started.
THEOREM SkipsHaveKnownKey == Spec => []SkipOnlySameKey
<1>1. IInv => SkipOnlySameKey
  BY DEF IInv
<1>2. QED
  BY <1>1, Invariance, PTL

\* As long as no process has died, a check that was skipped has been verified
\* or is being verified at this moment by the process that set its key: the
\* safety part of SkippedGetsVerified, although the SET comes before the check.
SkippedInWork ==
  crashes = 0 =>
    \A q \in skipped : q \in verified \/ \E c \in Clients : pc[c] = "verify" /\ query[c] = q

\* Without -tv-always-verify lookup() never loses a check to a process that set
\* its key and then forgot it: SkippedInWork always holds.
THEOREM SkipsAreInWork == ASSUME ~AlwaysVerify PROVE Spec => []SkippedInWork
<1>1. IInv => SkippedInWork
  BY DEF IInv, SkipOnlySameKey, StartedIsRunning, SkippedInWork, KeyOf
<1>2. QED
  BY <1>1, Invariance, PTL
=============================================================================
