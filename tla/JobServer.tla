------------------------------ MODULE JobServer ------------------------------
(***************************************************************************)
(* tools/alive-jobserver.cpp and its clients: compilers whose plugin runs  *)
(* with -tv-parallel=fifo (util/parallel_fifo.cpp). The FIFO is a shared   *)
(* counting semaphore. Tokens die with a child that is killed; once per    *)
(* second the server compares the number of runnable processes with the    *)
(* tokens it finds and adds the difference. Counting empties the FIFO and  *)
(* writes the tokens back, while clients go on taking and returning them.  *)
(*                                                                         *)
(* What a client does apart from tokens is in module Parallel.             *)
(***************************************************************************)
EXTENDS Integers, FiniteSets

CONSTANTS
  Clients,    \* compilers the command runs
  N,          \* the argument of -j
  MaxJobs,    \* bound: refinement checks per compiler
  MaxLeaks    \* bound: children that are killed while they hold a token

ASSUME JobServerAssumption ==
  /\ IsFiniteSet(Clients)
  /\ N \in Nat \ {0} /\ MaxJobs \in Nat /\ MaxLeaks \in Nat

VARIABLES
  fifo,      \* bytes in the FIFO
  js,        \* where the server is
  runnable,  \* count_runnable()'s answer
  toks,      \* tokens count_tokens() has read
  owed,      \* of these, not yet written back
  toAdd,     \* tokens_to_add still to be written
  cpc,       \* where a client is
  jobs,      \* checks a client has forked
  running,   \* children of a client that hold a token
  leaked,    \* history: tokens lost
  minted     \* history: tokens added by refill_tokens

jsVars     == <<js, runnable, toks, owed, toAdd, minted>>
clientVars == <<cpc, jobs, running, leaked>>
vars       == <<fifo, jsVars, clientVars>>

JsPCs     == {"check", "count", "drain", "writeback", "add", "gone"}
ClientPCs == {"compile", "token", "finish", "untoken", "done"}
Lending   == {"finish", "untoken"}

\* The process that is executed has a token for free.
nprocs == N - 1

\* The children that hold a token, the n-th of each compiler.
Children == {k \in Clients \X (1..MaxJobs) : k[2] <= running[k[1]]}

Init ==
  /\ fifo = nprocs
  /\ js = "check" /\ runnable = 0 /\ toks = 0 /\ owed = 0 /\ toAdd = 0 /\ minted = 0
  /\ cpc = [c \in Clients |-> "compile"]
  /\ jobs = [c \in Clients |-> 0] /\ running = [c \in Clients |-> 0]
  /\ leaked = 0

-----------------------------------------------------------------------------
(* A compiler and its children. *)

\* limitedFork reaches getToken()
Request(c) ==
  /\ cpc[c] = "compile" /\ jobs[c] < MaxJobs
  /\ cpc' = [cpc EXCEPT ![c] = "token"]
  /\ UNCHANGED <<fifo, jobs, running, leaked, jsVars>>

\* getToken() returns and the child that got the token is forked
Take(c) ==
  /\ cpc[c] = "token" /\ fifo > 0
  /\ fifo' = fifo - 1
  /\ jobs' = [jobs EXCEPT ![c] = @ + 1]
  /\ running' = [running EXCEPT ![c] = @ + 1]
  /\ cpc' = [cpc EXCEPT ![c] = "compile"]
  /\ UNCHANGED <<leaked, jsVars>>

\* finishChild: putToken(), verified or timed out
ChildDone(c) ==
  /\ running[c] > 0
  /\ fifo' = fifo + 1
  /\ running' = [running EXCEPT ![c] = @ - 1]
  /\ UNCHANGED <<cpc, jobs, leaked, jsVars>>

ChildKilled(c) ==
  /\ running[c] > 0 /\ leaked < MaxLeaks
  /\ running' = [running EXCEPT ![c] = @ - 1]
  /\ leaked' = leaked + 1
  /\ UNCHANGED <<fifo, cpc, jobs, jsVars>>

\* fifo::finishParent gives up the compiler's own token while it waits
StartFinish(c) ==
  /\ cpc[c] = "compile"
  /\ fifo' = fifo + 1
  /\ cpc' = [cpc EXCEPT ![c] = "finish"]
  /\ UNCHANGED <<jobs, running, leaked, jsVars>>

ChildrenEnded(c) ==
  /\ cpc[c] = "finish" /\ running[c] = 0
  /\ cpc' = [cpc EXCEPT ![c] = "untoken"]
  /\ UNCHANGED <<fifo, jobs, running, leaked, jsVars>>

\* ... and takes one back before it goes on
FinishParent(c) ==
  /\ cpc[c] = "untoken" /\ fifo > 0
  /\ fifo' = fifo - 1
  /\ cpc' = [cpc EXCEPT ![c] = "done"]
  /\ UNCHANGED <<jobs, running, leaked, jsVars>>

ClientNext(c) ==
  \/ Request(c) \/ Take(c) \/ ChildDone(c) \/ ChildKilled(c)
  \/ StartFinish(c) \/ ChildrenEnded(c) \/ FinishParent(c)
-----------------------------------------------------------------------------
(* The server: one turn of the loop in main(). *)

CommandEnded == \A c \in Clients : cpc[c] = "done"

\* waitpid() found that the command has ended: remove_fifo()
Stop ==
  /\ js = "check" /\ CommandEnded
  /\ js' = "gone"
  /\ UNCHANGED <<fifo, runnable, toks, owed, toAdd, minted, clientVars>>

\* What /proc/loadavg counts without the server: compilers that do not wait,
\* and children that verify.
RunnableNow == Cardinality({c \in Clients : cpc[c] = "compile"}) + Cardinality(Children)

\* count_runnable()
CountRunnable ==
  /\ js = "check" /\ ~CommandEnded
  /\ runnable' = RunnableNow
  /\ js' = "count"
  /\ UNCHANGED <<fifo, toks, owed, toAdd, minted, clientVars>>

\* desired_tokens <= 0: nothing to do; otherwise count the tokens
Decide ==
  /\ js = "count"
  /\ IF nprocs - runnable <= 0 THEN js' = "check" ELSE js' = "drain"
  /\ toks' = 0
  /\ UNCHANGED <<fifo, runnable, owed, toAdd, minted, clientVars>>

\* count_tokens: one successful read()
DrainOne ==
  /\ js = "drain" /\ fifo > 0
  /\ fifo' = fifo - 1
  /\ toks' = toks + 1
  /\ UNCHANGED <<js, runnable, owed, toAdd, minted, clientVars>>

\* Mutant: the loop that writes the tokens back starts at 1.
DrainEnd_OffByOne ==
  /\ js = "drain" /\ fifo = 0
  /\ owed' = IF toks > 0 THEN toks - 1 ELSE 0
  /\ js' = "writeback"
  /\ UNCHANGED <<fifo, runnable, toks, toAdd, minted, clientVars>>

\* count_tokens: read() would block, the tokens are owed to the FIFO
DrainEnd ==
  /\ js = "drain" /\ fifo = 0
  /\ owed' = toks
  /\ js' = "writeback"
  /\ UNCHANGED <<fifo, runnable, toks, toAdd, minted, clientVars>>

\* add_token of count_tokens
WriteBack ==
  /\ js = "writeback" /\ owed > 0
  /\ fifo' = fifo + 1
  /\ owed' = owed - 1
  /\ UNCHANGED <<js, runnable, toks, toAdd, minted, clientVars>>

\* Mutant: the tokens are counted and never added.
Compare_NeverAdds ==
  /\ js = "writeback" /\ owed = 0
  /\ toAdd' = 0
  /\ js' = "add"
  /\ toks' = 0
  /\ UNCHANGED <<fifo, runnable, owed, minted, clientVars>>

\* tokens_to_add = desired_tokens - current_tokens
Compare ==
  /\ js = "writeback" /\ owed = 0
  /\ toAdd' = LET d == nprocs - runnable - toks IN IF d > 0 THEN d ELSE 0
  /\ js' = "add"
  /\ toks' = 0
  /\ UNCHANGED <<fifo, runnable, owed, minted, clientVars>>

\* add_token of refill_tokens
AddToken ==
  /\ js = "add" /\ toAdd > 0
  /\ fifo' = fifo + 1
  /\ toAdd' = toAdd - 1
  /\ minted' = minted + 1
  /\ UNCHANGED <<js, runnable, toks, owed, clientVars>>

RefillEnd ==
  /\ js = "add" /\ toAdd = 0
  /\ js' = "check"
  /\ UNCHANGED <<fifo, runnable, toks, owed, toAdd, minted, clientVars>>

ServerNext ==
  \/ Stop \/ CountRunnable \/ Decide \/ DrainOne \/ DrainEnd \/ WriteBack
  \/ Compare \/ AddToken \/ RefillEnd

Next ==
  \/ \E c \in Clients : ClientNext(c)
  \/ ServerNext
  \/ js = "gone" /\ UNCHANGED vars

\* The kernel schedules every process. A client blocked in read() on the FIFO
\* is woken in the order of arrival when bytes come, so it is not overtaken for
\* ever: strong fairness for the two blocking reads. The server wakes up every
\* second, but nobody may depend on a refill unless tokens leaked (on other
\* systems than Linux there is none). Kills are never forced.
Fairness ==
  /\ \A c \in Clients : /\ WF_vars(Request(c) \/ StartFinish(c) \/ ChildrenEnded(c))
                        /\ WF_vars(ChildDone(c))
                        /\ SF_vars(Take(c)) /\ SF_vars(FinishParent(c))
  /\ WF_vars(ServerNext /\ (leaked = 0 => js' # "count"))

Spec == Init /\ [][Next]_vars
FairSpec == Spec /\ Fairness
-----------------------------------------------------------------------------
(* Properties *)

\* Tokens the server has read and not yet written back.
InServer == IF js = "drain" THEN toks ELSE owed

\* No interleaving of the clients with the server's count loses or duplicates a
\* token: those in the FIFO, in the server's hands, with children and leaked are
\* the initial ones, the ones added and the ones finishing compilers lend.
TokensAccounted ==
  fifo + InServer + Cardinality(Children) + leaked =
    nprocs + minted + Cardinality({c \in Clients : cpc[c] \in Lending})

\* Every compiler comes to its end and then the server does, although tokens
\* leak and the server empties the FIFO to count: nobody waits for a token for
\* ever. (usage(): N is in 1..max_procs)
AllEnd == <>(js = "gone")
=============================================================================
