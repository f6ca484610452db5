--------------------------- MODULE JobServerProofs ---------------------------
(***************************************************************************)
(* Proofs about JobServer, for any compilers, -j and bounds.               *)
(***************************************************************************)
EXTENDS JobServer, FiniteSetTheorems, TLAPS

\* The type invariant.
TypeInv ==
  /\ fifo \in Nat /\ toks \in Nat /\ owed \in Nat /\ toAdd \in Nat
  /\ leaked \in Nat /\ minted \in Nat /\ runnable \in Int
  /\ js \in JsPCs /\ cpc \in [Clients -> ClientPCs]
  /\ jobs \in [Clients -> Nat] /\ running \in [Clients -> Nat]
\* A compiler has at most as many children as it forked.
ChildrenInv ==
  \A c \in Clients : /\ running[c] <= jobs[c] /\ jobs[c] <= MaxJobs
                     /\ cpc[c] = "token" => jobs[c] < MaxJobs
\* Only while it writes them back does the server owe tokens to the FIFO.
OwedInv == js # "writeback" => owed = 0
\* The compilers that lend their own token while they wait for their children.
Lenders == {c \in Clients : cpc[c] \in Lending}
\* The inductive invariant: the accounts balance at every step of the count.
IInv == TypeInv /\ ChildrenInv /\ OwedInv /\ TokensAccounted

\* The two sets that are counted are finite.
LEMMA CountsType ==
  /\ IsFiniteSet(Children) /\ Cardinality(Children) \in Nat
  /\ \A S \in SUBSET Clients : IsFiniteSet(S) /\ Cardinality(S) \in Nat
<1> USE JobServerAssumption
<1>1. IsFiniteSet(1..MaxJobs)
  BY FS_Interval
<1>2. IsFiniteSet(Clients \X (1..MaxJobs))
  BY <1>1, FS_Product
<1>3. IsFiniteSet(Children)
  BY <1>2, FS_Subset DEF Children
<1>4. QED
  BY <1>3, FS_Subset, FS_CardinalityType

\* One child more or less with a compiler is one more or less in all.
LEMMA OneChild ==
  ASSUME TypeInv, ChildrenInv, NEW c \in Clients
  PROVE  /\ running' = [running EXCEPT ![c] = @ + 1] /\ running[c] < MaxJobs =>
              Cardinality(Children') = Cardinality(Children) + 1
         /\ running' = [running EXCEPT ![c] = @ - 1] /\ running[c] > 0 =>
              Cardinality(Children') = Cardinality(Children) - 1
<1> USE JobServerAssumption
<1>1. running \in [Clients -> Nat] /\ running[c] <= MaxJobs
  BY DEF TypeInv, ChildrenInv
<1>2. ASSUME running' = [running EXCEPT ![c] = @ + 1], running[c] < MaxJobs
      PROVE  Cardinality(Children') = Cardinality(Children) + 1
  <2>1. Children' = Children \cup {<<c, running[c] + 1>>}
    BY <1>1, <1>2 DEF Children
  <2>2. <<c, running[c] + 1>> \notin Children
    BY <1>1 DEF Children
  <2>3. QED
    BY <2>1, <2>2, CountsType, FS_AddElement
<1>3. ASSUME running' = [running EXCEPT ![c] = @ - 1], running[c] > 0
      PROVE  Cardinality(Children') = Cardinality(Children) - 1
  <2>1. Children' = Children \ {<<c, running[c]>>}
    BY <1>1, <1>3 DEF Children
  <2>2. <<c, running[c]>> \in Children
    BY <1>1, <1>3 DEF Children
  <2>3. QED
    BY <2>1, <2>2, CountsType, FS_RemoveElement
<1>4. QED
  BY <1>2, <1>3

\* Nobody lends and no child runs initially.
LEMMA InitIInv == Init => IInv
<1> SUFFICES ASSUME Init PROVE IInv
  OBVIOUS
<1> USE JobServerAssumption
<1>1. TypeInv /\ ChildrenInv /\ OwedInv
  BY DEF Init, TypeInv, ChildrenInv, OwedInv, JsPCs, ClientPCs, nprocs
<1>2. Children = {} /\ Lenders = {}
  BY DEF Init, Children, Lenders, Lending
<1>3. Cardinality(Children) = 0 /\ Cardinality(Lenders) = 0
  BY <1>2, FS_EmptySet
<1>4. TokensAccounted
  BY <1>3 DEF Init, TokensAccounted, InServer, Lenders, nprocs
<1>5. QED
  BY <1>1, <1>4 DEF IInv

\* The steps of a compiler and its children.
LEMMA ClientStep ==
  ASSUME IInv, NEW c \in Clients, ClientNext(c)
  PROVE  IInv'
<1> USE JobServerAssumption DEF IInv
<1>1. /\ Cardinality(Children) \in Nat /\ nprocs \in Nat
      /\ IsFiniteSet(Lenders) /\ Cardinality(Lenders) \in Nat
  BY CountsType DEF Lenders, nprocs
<1>2. UNCHANGED <<js, toks, owed, toAdd, minted, runnable>>
  BY DEF ClientNext, Request, Take, ChildDone, ChildKilled, StartFinish, ChildrenEnded, FinishParent, jsVars
<1>3. OwedInv' /\ InServer' = InServer /\ InServer \in Nat
  BY <1>2 DEF OwedInv, InServer, TypeInv
<1>4. fifo + InServer + Cardinality(Children) + leaked = nprocs + minted + Cardinality(Lenders)
  BY DEF TokensAccounted, Lenders
<1>5. TypeInv'
  BY <1>2 DEF TypeInv, ClientPCs, ClientNext, Request, Take, ChildDone, ChildKilled,
              StartFinish, ChildrenEnded, FinishParent
<1>6. ChildrenInv'
  BY DEF ChildrenInv, TypeInv, ClientNext, Request, Take, ChildDone, ChildKilled,
         StartFinish, ChildrenEnded, FinishParent
<1>7. SUFFICES fifo' + InServer + Cardinality(Children') + leaked' =
                 nprocs + minted + Cardinality(Lenders')
  BY <1>2, <1>3, <1>5, <1>6 DEF TokensAccounted, Lenders, nprocs
<1>8. CASE Request(c) \/ ChildrenEnded(c)
  <2>1. Children' = Children /\ Lenders' = Lenders /\ UNCHANGED <<fifo, leaked>>
    BY <1>8 DEF Request, ChildrenEnded, Children, Lenders, Lending, TypeInv
  <2>2. QED
    BY <1>4, <2>1
<1>9. CASE Take(c)
  <2>1. Lenders' = Lenders /\ fifo' = fifo - 1 /\ leaked' = leaked
    BY <1>9 DEF Take, Lenders, Lending, TypeInv
  <2>2. Cardinality(Children') = Cardinality(Children) + 1
    <3>1. running' = [running EXCEPT ![c] = @ + 1] /\ running[c] < MaxJobs
      BY <1>9 DEF Take, ChildrenInv, TypeInv
    <3>2. QED
      BY <3>1, OneChild
  <2>3. QED
    BY <1>1, <1>3, <1>4, <2>1, <2>2 DEF TypeInv
<1>10. CASE ChildDone(c) \/ ChildKilled(c)
  <2>1. Lenders' = Lenders
    BY <1>10 DEF ChildDone, ChildKilled, Lenders
  <2>2. Cardinality(Children') = Cardinality(Children) - 1
    BY <1>10, OneChild DEF ChildDone, ChildKilled
  <2>3. CASE fifo' = fifo + 1 /\ leaked' = leaked
    BY <1>1, <1>3, <1>4, <2>1, <2>2, <2>3 DEF TypeInv
  <2>4. CASE fifo' = fifo /\ leaked' = leaked + 1
    BY <1>1, <1>3, <1>4, <2>1, <2>2, <2>4 DEF TypeInv
  <2>5. QED
    BY <1>10, <2>3, <2>4 DEF ChildDone, ChildKilled
<1>11. CASE StartFinish(c)
  <2>1. Children' = Children /\ fifo' = fifo + 1 /\ leaked' = leaked
    BY <1>11 DEF StartFinish, Children
  <2>2. Lenders' = Lenders \cup {c} /\ c \notin Lenders
    BY <1>11 DEF StartFinish, Lenders, Lending, TypeInv
  <2>3. Cardinality(Lenders') = Cardinality(Lenders) + 1
    BY <1>1, <2>2, FS_AddElement
  <2>4. QED
    BY <1>1, <1>3, <1>4, <2>1, <2>3 DEF TypeInv
<1>12. CASE FinishParent(c)
  <2>1. Children' = Children /\ fifo' = fifo - 1 /\ leaked' = leaked
    BY <1>12 DEF FinishParent, Children
  <2>2. Lenders' = Lenders \ {c} /\ c \in Lenders
    BY <1>12 DEF FinishParent, Lenders, Lending, TypeInv
  <2>3. Cardinality(Lenders') = Cardinality(Lenders) - 1
    BY <1>1, <2>2, FS_RemoveElement
  <2>4. QED
    BY <1>1, <1>3, <1>4, <2>1, <2>3 DEF TypeInv
<1>13. QED
  BY <1>8, <1>9, <1>10, <1>11, <1>12 DEF ClientNext

\* The steps of the server's loop.
LEMMA ServerStep ==
  ASSUME IInv, ServerNext \/ UNCHANGED vars
  PROVE  IInv'
<1> USE JobServerAssumption DEF IInv
<1>1. Cardinality(Children) \in Nat /\ nprocs \in Nat /\ Cardinality(Lenders) \in Nat
  BY CountsType DEF Lenders, nprocs
<1>2. UNCHANGED <<cpc, jobs, running, leaked>>
  BY DEF ServerNext, Stop, CountRunnable, Decide, DrainOne, DrainEnd, WriteBack, Compare, AddToken,
         RefillEnd, clientVars, vars
<1>3. ChildrenInv' /\ Children' = Children /\ Lenders' = Lenders
  BY <1>2 DEF ChildrenInv, Children, Lenders
<1>4. fifo + InServer + Cardinality(Children) + leaked = nprocs + minted + Cardinality(Lenders)
  BY DEF TokensAccounted, Lenders
<1>5. RunnableNow \in Nat
  BY CountsType DEF RunnableNow
<1>6. TypeInv'
  BY <1>1, <1>2, <1>5 DEF TypeInv, JsPCs, ServerNext, Stop, CountRunnable, Decide, DrainOne, DrainEnd,
         WriteBack, Compare, AddToken, RefillEnd, vars, jsVars
<1>7. OwedInv'
  BY DEF OwedInv, ServerNext, Stop, CountRunnable, Decide, DrainOne, DrainEnd,
         WriteBack, Compare, AddToken, RefillEnd, vars, jsVars
<1>8. InServer \in Nat /\ fifo \in Nat /\ leaked \in Nat /\ minted \in Nat
  BY DEF InServer, TypeInv
<1>9. SUFFICES fifo' + InServer' + Cardinality(Children) + leaked = nprocs + minted' + Cardinality(Lenders)
  BY <1>2, <1>3, <1>6, <1>7 DEF TokensAccounted, Lenders, nprocs
<1>10. CASE UNCHANGED <<fifo, minted>> /\ InServer' = InServer
  BY <1>4, <1>10
<1>11. CASE fifo' = fifo - 1 /\ minted' = minted /\ InServer' = InServer + 1
  BY <1>1, <1>4, <1>8, <1>11
<1>12. CASE fifo' = fifo + 1 /\ minted' = minted /\ InServer' = InServer - 1
  BY <1>1, <1>4, <1>8, <1>12
<1>13. CASE fifo' = fifo + 1 /\ minted' = minted + 1 /\ InServer' = InServer
  BY <1>1, <1>4, <1>8, <1>13
<1>14. QED
  <2> USE <1>10, <1>11, <1>12, <1>13 DEF InServer, OwedInv, TypeInv
  <2>1. CASE DrainOne \/ WriteBack \/ AddToken
    BY <2>1 DEF DrainOne, WriteBack, AddToken
  <2>2. CASE Stop \/ CountRunnable \/ Decide \/ DrainEnd \/ Compare \/ RefillEnd \/ UNCHANGED vars
    BY <2>2 DEF Stop, CountRunnable, Decide, DrainEnd, Compare, RefillEnd, vars, jsVars
  <2>3. QED
    BY <2>1, <2>2 DEF ServerNext

\* No interleaving of the compilers, killed children and the server, which
\* empties the FIFO to count it, loses or duplicates a token.
THEOREM TokensAreAccounted == Spec => []TokensAccounted
<1>1. IInv /\ [Next]_vars => IInv'
  BY ClientStep, ServerStep DEF Next
<1>2. IInv => TokensAccounted
  BY DEF IInv
<1>3. QED
  BY <1>1, <1>2, InitIInv, PTL DEF Spec
=============================================================================
