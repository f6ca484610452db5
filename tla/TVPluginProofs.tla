--------------------------- MODULE TVPluginProofs ---------------------------
(***************************************************************************)
(* Proofs about the Clang plugin: which versions of a function a check     *)
(* compares, for any pipeline of passes.                                   *)
(***************************************************************************)
EXTENDS TVPlugin, TLAPS, FiniteSetTheorems, SequenceTheorems

\* The module has at most one function without a name.
OneAnon == \A f, g \in setup.anon : f = g

\* What an entry of fns can be.
Srcs == [f : Nat, v : Nat]

\* The types of the pipeline and of the plugin's own state.
TypeInv ==
  /\ setup \in Setups
  /\ vers \in [Funcs -> Seq(Version)] /\ \A f \in Funcs : Len(vers[f]) >= 1
  /\ stack \in Seq(Passes)
  /\ fns \in [Names -> Srcs]
  /\ started \in Nat
  /\ batch_started \in BOOLEAN /\ dont_verify \in BOOLEAN /\ is_clangtv_done \in BOOLEAN

\* The key of f in fns if at most one function has no name.
KeyOf(f) == IF f \in setup.anon THEN <<1, "anon">> ELSE <<f, "named">>

\* The entry of f.
Src(f) == fns[KeyOf(f)]

\* The entry of a function is one of its own versions.
SrcInv == \A f \in Funcs : Src(f) = NoSrc \/ \E v \in 1..Len(vers[f]) : Src(f) = [f |-> f, v |-> v]

\* A check is about an older and a newer version of one function.
CheckedInv ==
  \A c \in checked : \E f \in Funcs : \E v, w \in 1..Len(vers[f]) :
    v < w /\ c = <<[f |-> f, v |-> v], [f |-> f, v |-> w]>>

-----------------------------------------------------------------------------
(* Facts about setups, names and visits *)

\* What a setup is.
LEMMA SetupFacts ==
  ASSUME setup \in Setups
  PROVE  /\ setup.nfuncs \in Nat /\ setup.anon \subseteq Funcs
         /\ setup.kinds \subseteq PassKinds \ {"finalize"} /\ setup.first \subseteq setup.kinds
         /\ setup.vanish \in BOOLEAN /\ setup.batch \in BOOLEAN /\ setup.checkOnly \in BOOLEAN
BY TVPluginAssumption DEF Funcs

\* The functions of a unit.
LEMMA UnitFacts ==
  ASSUME setup \in Setups, NEW u \in 0..setup.nfuncs
  PROVE  FuncsOf(u) \subseteq Funcs
BY SetupFacts DEF FuncsOf, Funcs, Module

\* With at most one unnamed function every visit gives a function its own key.
LEMMA KeyFacts ==
  ASSUME setup \in Setups, OneAnon
  PROVE  /\ \A f \in Funcs : KeyOf(f) \in Names
         /\ \A f, g \in Funcs : KeyOf(f) = KeyOf(g) => f = g
         /\ \A u \in 0..setup.nfuncs : \A f \in FuncsOf(u) : NameIn(u, f) = KeyOf(f)
<1>0. setup.nfuncs \in Nat /\ setup.anon \subseteq Funcs
  BY SetupFacts
<1>1. ASSUME NEW f \in Funcs PROVE KeyOf(f) \in Names
  <2>1. 1 \in Funcs
    BY <1>0 DEF Funcs
  <2>2. QED
    BY <2>1 DEF KeyOf, Names
<1>2. ASSUME NEW f \in Funcs, NEW g \in Funcs, KeyOf(f) = KeyOf(g) PROVE f = g
  <2>1. CASE f \in setup.anon
    <3>1. g \in setup.anon
      BY <1>2, <2>1 DEF KeyOf
    <3>2. QED
      BY <2>1, <3>1 DEF OneAnon
  <2>2. CASE f \notin setup.anon
    <3>1. g \notin setup.anon
      BY <1>2, <2>2 DEF KeyOf
    <3>2. QED
      BY <1>2, <2>2, <3>1 DEF KeyOf
  <2>3. QED
    BY <2>1, <2>2
<1>3. ASSUME NEW u \in 0..setup.nfuncs, NEW f \in FuncsOf(u) PROVE NameIn(u, f) = KeyOf(f)
  <2>1. CASE f \in setup.anon
    <3>1. f \in Funcs /\ f \in Int
      BY <1>0, <2>1 DEF Funcs
    <3>2. {g \in FuncsOf(u) \cap setup.anon : g <= f} = {f}
      BY <2>1, <3>1 DEF OneAnon
    <3>3. Cardinality({f}) = 1
      BY FS_Singleton
    <3>4. QED
      BY <2>1, <3>2, <3>3 DEF NameIn, KeyOf
  <2>2. CASE f \notin setup.anon
    BY <2>2 DEF NameIn, KeyOf
  <2>3. QED
    BY <2>1, <2>2
<1>4. QED
  BY <1>1, <1>2, <1>3

\* What a visit to a unit does to the entries of its functions.
LEMMA VisitFacts ==
  ASSUME TypeInv, OneAnon, NEW fl, NEW u \in 0..setup.nfuncs, RunOn(fl, u), setup' = setup
  PROVE  /\ \A f \in FuncsOf(u) : Src(f)' = SrcAfter(fl, Src(f), f)
         /\ \A f \in Funcs : f \notin FuncsOf(u) => Src(f)' = Src(f)
         /\ checked' = checked \cup
              {<<Src(f), Current(f)>> : f \in {g \in FuncsOf(u) : Verifies(fl, Src(g), g)}}
<1>0. setup \in Setups /\ FuncsOf(u) \subseteq Funcs
  BY UnitFacts DEF TypeInv
<1>1. /\ \A f \in Funcs : KeyOf(f) \in Names
      /\ \A f, g \in Funcs : KeyOf(f) = KeyOf(g) => f = g
      /\ \A f \in FuncsOf(u) : NameIn(u, f) = KeyOf(f)
  BY <1>0, KeyFacts
<1>2. \A f : KeyOf(f)' = KeyOf(f)
  BY DEF KeyOf
<1>3. fns' = [n \in Names |->
       IF \E f \in FuncsOf(u) : NameIn(u, f) = n
       THEN SrcAfter(fl, fns[n], CHOOSE f \in FuncsOf(u) : NameIn(u, f) = n)
       ELSE fns[n]]
  BY DEF RunOn
<1>4. ASSUME NEW f \in FuncsOf(u) PROVE Src(f)' = SrcAfter(fl, Src(f), f)
  <2>1. KeyOf(f) \in Names /\ NameIn(u, f) = KeyOf(f)
    BY <1>0, <1>1
  <2>2. (CHOOSE g \in FuncsOf(u) : NameIn(u, g) = KeyOf(f)) = f
    BY <1>0, <1>1, <2>1
  <2>3. fns'[KeyOf(f)] = SrcAfter(fl, fns[KeyOf(f)], f)
    BY <1>3, <2>1, <2>2
  <2>4. QED
    BY <1>2, <2>3 DEF Src
<1>5. ASSUME NEW f \in Funcs, f \notin FuncsOf(u) PROVE Src(f)' = Src(f)
  <2>1. KeyOf(f) \in Names /\ ~\E g \in FuncsOf(u) : NameIn(u, g) = KeyOf(f)
    BY <1>0, <1>1, <1>5
  <2>2. fns'[KeyOf(f)] = fns[KeyOf(f)]
    BY <1>3, <2>1
  <2>3. QED
    BY <1>2, <2>2 DEF Src
<1>6. checked' = checked \cup
              {<<Src(f), Current(f)>> : f \in {g \in FuncsOf(u) : Verifies(fl, Src(g), g)}}
  <2>1. checked' = checked \cup
          {<<fns[NameIn(u, f)], Current(f)>> :
             f \in {g \in FuncsOf(u) : Verifies(fl, fns[NameIn(u, g)], g)}}
    BY DEF RunOn
  <2>2. \A f \in FuncsOf(u) : fns[NameIn(u, f)] = Src(f)
    BY <1>1 DEF Src
  <2>3. QED
    BY <2>1, <2>2
<1>7. QED
  BY <1>4, <1>5, <1>6

-----------------------------------------------------------------------------
(* Types *)

\* A visit leaves versions of functions in fns.
LEMMA RunType ==
  ASSUME TypeInv, NEW fl, NEW u \in 0..setup.nfuncs, RunOn(fl, u)
  PROVE  fns' \in [Names -> Srcs]
<1>1. NoSrc \in Srcs
  BY DEF NoSrc, Srcs
<1>2. ASSUME NEW f \in Funcs PROVE Current(f) \in Srcs
  <2>1. f \in Nat
    BY SetupFacts DEF TypeInv, Funcs
  <2>2. Len(vers[f]) \in Nat
    BY LenProperties DEF TypeInv
  <2>3. QED
    BY <2>1, <2>2 DEF Current, Srcs
<1>3. ASSUME NEW f \in Funcs, NEW s \in Srcs PROVE SrcAfter(fl, s, f) \in Srcs
  BY <1>1, <1>2 DEF SrcAfter
<1>4. FuncsOf(u) \subseteq Funcs
  BY UnitFacts DEF TypeInv
<1>5. ASSUME NEW n \in Names
      PROVE  (IF \E f \in FuncsOf(u) : NameIn(u, f) = n
              THEN SrcAfter(fl, fns[n], CHOOSE f \in FuncsOf(u) : NameIn(u, f) = n)
              ELSE fns[n]) \in Srcs
  <2>1. fns[n] \in Srcs
    BY DEF TypeInv
  <2>2. CASE \E f \in FuncsOf(u) : NameIn(u, f) = n
    <3>1. (CHOOSE f \in FuncsOf(u) : NameIn(u, f) = n) \in Funcs
      BY <1>4, <2>2
    <3>2. QED
      BY <1>3, <2>1, <2>2, <3>1
  <2>3. QED
    BY <2>1, <2>2
<1>6. QED
  BY <1>5 DEF RunOn

\* What a pass is when LLVM is about to run it.
LEMMA PassFacts ==
  ASSUME TypeInv, NEW p \in NewPasses
  PROVE  /\ p \in Passes /\ p.unit \in 0..setup.nfuncs /\ p.kind \in PassKinds /\ p.role = "fresh"
         /\ p.loop \in BOOLEAN /\ (p.loop => p.unit # Module /\ p.kind # "unsupported" /\ setup.vanish)
         /\ p.kind # "finalize" => p.kind \in setup.kinds
<1>1. /\ setup.kinds \subseteq PassKinds /\ setup.vanish \in BOOLEAN
  BY SetupFacts DEF TypeInv
<1>2. /\ p \in [kind : setup.kinds \cup {"finalize"}, unit : 0..setup.nfuncs, loop : {FALSE, setup.vanish},
                role : {"fresh"}]
      /\ p.loop => p.unit # Module /\ p.kind # "unsupported"
  BY DEF NewPasses
<1>3. QED
  BY <1>1, <1>2 DEF Passes, PassKinds

\* The pass on top of the stack.
LEMMA TopFacts ==
  ASSUME TypeInv, stack # <<>>
  PROVE  /\ Len(stack) \in Nat \ {0} /\ Top \in Passes /\ Top.unit \in 0..setup.nfuncs /\ Top.kind \in PassKinds
         /\ Top.loop \in BOOLEAN
<1>1. stack \in Seq(Passes)
  BY DEF TypeInv
<1>2. Len(stack) \in Nat \ {0}
  BY <1>1, EmptySeq, LenProperties
<1>3. Top \in Passes
  BY <1>1, <1>2, ElementOfSeq DEF Top
<1>4. QED
  BY <1>2, <1>3 DEF Passes

\* LLVM starts a pass: it goes on top of the stack, its caller learns its role.
LEMMA PushFacts ==
  ASSUME TypeInv, NEW p \in NewPasses, Enter(p)
  PROVE  /\ stack' \in Seq(Passes) /\ Len(stack') = Len(stack) + 1 /\ stack'[Len(stack) + 1] = p
         /\ \A i \in 1..Len(stack) : i # Len(stack) => stack'[i] = stack[i]
         /\ stack # <<>> => stack'[Len(stack)] = [Top EXCEPT !.role = RoleWith(Top, p)]
<1> DEFINE t == [i \in DOMAIN stack |->
                  IF i = Len(stack) THEN [Top EXCEPT !.role = RoleWith(Top, p)] ELSE stack[i]]
<1>1. p \in Passes
  BY PassFacts
<1>2. stack \in Seq(Passes) /\ Len(stack) \in Nat /\ DOMAIN stack = 1..Len(stack)
  BY LenProperties DEF TypeInv
<1>3. ASSUME NEW i \in 1..Len(stack) PROVE t[i] \in Passes
  <2>1. stack[i] \in Passes /\ stack # <<>>
    BY <1>2, ElementOfSeq
  <2>2. [Top EXCEPT !.role = RoleWith(Top, p)] \in Passes
    <3>1. Top \in Passes /\ RoleWith(Top, p) \in {"fresh", "leaf", "outer", "adaptor"}
      BY <2>1, TopFacts DEF RoleWith
    <3>2. QED
      BY <3>1 DEF Passes
  <2>3. QED
    BY <1>2, <2>1, <2>2
<1>4. t \in Seq(Passes) /\ Len(t) = Len(stack)
  <2>1. t \in [1..Len(stack) -> Passes]
    BY <1>2, <1>3
  <2>2. QED
    BY <1>2, <2>1, IsASeq, LenProperties
<1>5. \A i \in 1..Len(stack) : t[i] = IF i = Len(stack) THEN [Top EXCEPT !.role = RoleWith(Top, p)] ELSE stack[i]
  BY <1>2
<1> HIDE DEF t
<1>6. stack' = Append(t, p)
  BY DEF Enter, t
<1>7. /\ stack' \in Seq(Passes) /\ Len(stack') = Len(stack) + 1 /\ stack'[Len(stack) + 1] = p
      /\ \A i \in 1..Len(stack) : stack'[i] = t[i]
  BY <1>1, <1>4, <1>6, AppendProperties
<1>8. stack # <<>> => Len(stack) \in 1..Len(stack)
  BY TopFacts
<1>9. QED
  BY <1>5, <1>7, <1>8

\* The pass on top of the stack ends.
LEMMA PopFacts ==
  ASSUME TypeInv, stack # <<>>, stack' = SubSeq(stack, 1, Len(stack) - 1)
  PROVE  /\ stack' \in Seq(Passes) /\ Len(stack') = Len(stack) - 1
         /\ \A i \in 1..Len(stack) - 1 : stack'[i] = stack[i]
<1>1. stack \in Seq(Passes) /\ Len(stack) \in Nat \ {0}
  BY TopFacts DEF TypeInv
<1> DEFINE n == Len(stack) - 1
<1>2. n \in Nat /\ \A i \in 1..n : stack[i] \in Passes
  BY <1>1, ElementOfSeq
<1> HIDE DEF n
<1>3. /\ SubSeq(stack, 1, n) \in Seq(Passes) /\ Len(SubSeq(stack, 1, n)) = n
      /\ \A i \in 1..n : SubSeq(stack, 1, n)[i] = stack[i]
  BY <1>2
<1>4. QED
  BY <1>3 DEF n

\* The pass on top of the stack has done its work.
LEMMA MarkFacts ==
  ASSUME TypeInv, stack # <<>>, stack' = [stack EXCEPT ![Len(stack)].role = "leaf"]
  PROVE  /\ stack' \in Seq(Passes) /\ Len(stack') = Len(stack)
         /\ \A i \in 1..Len(stack) : i # Len(stack) => stack'[i] = stack[i]
         /\ stack'[Len(stack)] = [Top EXCEPT !.role = "leaf"]
<1>1. stack \in Seq(Passes) /\ Len(stack) \in Nat \ {0} /\ Top \in Passes
  BY TopFacts DEF TypeInv
<1>2. stack' = [stack EXCEPT ![Len(stack)] = [Top EXCEPT !.role = "leaf"]]
  BY DEF Top
<1>3. [Top EXCEPT !.role = "leaf"] \in Passes
  BY <1>1 DEF Passes
<1>4. Len(stack) \in 1..Len(stack)
  BY <1>1
<1> DEFINE n == Len(stack)
           e == [Top EXCEPT !.role = "leaf"]
<1> HIDE DEF n, e
<1>5. n \in 1..Len(stack) /\ e \in Passes /\ stack' = [stack EXCEPT ![n] = e]
  BY <1>2, <1>3, <1>4 DEF n, e
<1>6. /\ stack' \in Seq(Passes) /\ Len(stack') = Len(stack)
      /\ \A j \in 1..Len(stack) : stack'[j] = IF j = n THEN e ELSE stack[j]
  BY <1>1, <1>5, ExceptSeq
<1>7. QED
  BY <1>5, <1>6 DEF n, e

\* A pass changes functions of its unit: each gets one more version.
LEMMA ChangeFacts ==
  ASSUME TypeInv, Change
  PROVE  \E S \in SUBSET FuncsOf(Top.unit) :
           /\ \A f \in Funcs : f \notin S => vers'[f] = vers[f]
           /\ \A f \in S :
                /\ vers'[f] \in Seq(Version) /\ Len(vers'[f]) = Len(vers[f]) + 1
                /\ \A v \in 1..Len(vers[f]) : vers'[f][v] = vers[f][v]
                /\ vers'[f][Len(vers[f]) + 1].kind = Top.kind
                /\ vers'[f][Len(vers[f]) + 1].live => ~dont_verify /\ ~is_clangtv_done
<1>a. PICK S \in (SUBSET FuncsOf(Top.unit)) \ {{}} : \E ok \in [S -> BOOLEAN] :
        vers' = [f \in Funcs |-> IF f \notin S THEN vers[f] ELSE
                  Append(vers[f], [kind |-> Top.kind, ok |-> ok[f],
                                   live |-> ~dont_verify /\ ~is_clangtv_done])]
  BY DEF Change
<1>1. PICK ok \in [S -> BOOLEAN] :
        vers' = [f \in Funcs |-> IF f \notin S THEN vers[f] ELSE
                  Append(vers[f], [kind |-> Top.kind, ok |-> ok[f],
                                   live |-> ~dont_verify /\ ~is_clangtv_done])]
  BY <1>a
<1>2. Top \in Passes /\ Top.kind \in PassKinds /\ FuncsOf(Top.unit) \subseteq Funcs /\ S \subseteq FuncsOf(Top.unit)
  BY TopFacts, UnitFacts DEF Change, TypeInv
<1>3. ASSUME NEW f \in S
      PROVE  /\ vers'[f] \in Seq(Version) /\ Len(vers'[f]) = Len(vers[f]) + 1
             /\ \A v \in 1..Len(vers[f]) : vers'[f][v] = vers[f][v]
             /\ vers'[f][Len(vers[f]) + 1].kind = Top.kind
             /\ vers'[f][Len(vers[f]) + 1].live => ~dont_verify /\ ~is_clangtv_done
  <2> DEFINE x == [kind |-> Top.kind, ok |-> ok[f], live |-> ~dont_verify /\ ~is_clangtv_done]
  <2>1. f \in Funcs /\ vers[f] \in Seq(Version)
    BY <1>2 DEF TypeInv
  <2>2. x \in Version
    <3>1. ok[f] \in BOOLEAN /\ (~dont_verify /\ ~is_clangtv_done) \in BOOLEAN
      OBVIOUS
    <3>2. QED
      BY <1>2, <3>1 DEF Version
  <2>3. vers'[f] = Append(vers[f], x)
    BY <1>1, <2>1
  <2>4. x.kind = Top.kind /\ (x.live => ~dont_verify /\ ~is_clangtv_done)
    OBVIOUS
  <2> HIDE DEF x
  <2>5. QED
    BY <2>1, <2>2, <2>3, <2>4, AppendProperties
<1>4. QED
  BY <1>1, <1>2, <1>3

\* The plugin visits one unit, or none.
Visited == UNCHANGED <<fns, checked>> \/ \E u \in 0..setup.nfuncs : \E fl : RunOn(fl, u)

\* Every step but a change leaves the functions alone and visits at most one unit.
LEMMA StepFacts ==
  ASSUME TypeInv, [Next]_vars
  PROVE  /\ setup' = setup
         /\ Change \/ (vers' = vers /\ Visited)
<1>0. Module \in 0..setup.nfuncs
  BY SetupFacts DEF TypeInv, Module
<1>1. ASSUME RunBatch PROVE Visited
  BY <1>0, <1>1 DEF RunBatch, Visited
<1>2. ASSUME NEW k, NEW u \in 0..setup.nfuncs, RunSingle(k, u) PROVE Visited
  BY <1>2 DEF RunSingle, Visited
<1>3. ASSUME NEW q, q.unit \in 0..setup.nfuncs, SingleCallback(q) PROVE Visited
  BY <1>2, <1>3 DEF SingleCallback, NoRun, Visited
<1>4. ASSUME NEW p \in NewPasses, Enter(p) PROVE setup' = setup /\ vers' = vers /\ Visited
  <2>1. p.unit \in 0..setup.nfuncs
    BY PassFacts
  <2>2. CASE setup.batch
    BY <1>1, <1>4, <2>2 DEF Enter, BatchBefore, NoRun, Visited
  <2>3. CASE ~setup.batch
    BY <1>3, <1>4, <2>1, <2>3 DEF Enter
  <2>4. QED
    BY <1>4, <2>2, <2>3 DEF Enter
<1>5. ASSUME Leave PROVE setup' = setup /\ vers' = vers /\ Visited
  <2>1. Top.unit \in 0..setup.nfuncs
    BY <1>5, TopFacts DEF Leave
  <2>2. CASE setup.batch
    BY <1>5, <2>2 DEF Leave, BatchAfter, NoRun, Visited
  <2>3. CASE ~setup.batch
    BY <1>3, <1>5, <2>1, <2>3 DEF Leave
  <2>4. QED
    BY <1>5, <2>2, <2>3 DEF Leave
<1>6. ASSUME Finalize PROVE setup' = setup /\ vers' = vers /\ Visited
  BY <1>1, <1>6 DEF Finalize, NoRun, Visited
<1>7. ASSUME LeaveNoLoop \/ UNCHANGED vars PROVE setup' = setup /\ vers' = vers /\ Visited
  BY <1>7 DEF LeaveNoLoop, vars, tvVars, Visited
<1>8. ASSUME Change PROVE setup' = setup
  BY <1>8 DEF Change
<1>9. QED
  BY <1>4, <1>5, <1>6, <1>7, <1>8 DEF Next

\* Initially every function has one version and nothing runs.
LEMMA InitType == Init => TypeInv
<1> SUFFICES ASSUME Init PROVE TypeInv
  OBVIOUS
<1>1. setup \in Setups /\ started = 0 /\ stack = <<>>
  BY DEF Init
<1>2. ASSUME NEW f \in Funcs PROVE vers[f] \in Seq(Version) /\ Len(vers[f]) >= 1
  <2>1. PICK b \in BOOLEAN : vers[f] = <<[kind |-> NoName, ok |-> b, live |-> TRUE]>>
    BY DEF Init
  <2>2. [kind |-> NoName, ok |-> b, live |-> TRUE] \in Version
    BY DEF Version
  <2>3. QED
    BY <2>1, <2>2
<1>3. vers \in [Funcs -> Seq(Version)]
  <2>1. vers \in [Funcs -> {<<[kind |-> NoName, ok |-> b, live |-> TRUE]>> : b \in BOOLEAN}]
    BY DEF Init
  <2>2. QED
    BY <1>2, <2>1
<1>4. fns \in [Names -> Srcs]
  BY DEF Init, NoSrc, Srcs
<1>5. stack \in Seq(Passes)
  BY <1>1, EmptySeq
<1>6. batch_started \in BOOLEAN /\ dont_verify \in BOOLEAN /\ is_clangtv_done \in BOOLEAN
  BY DEF Init
<1>7. QED
  BY <1>1, <1>2, <1>3, <1>4, <1>5, <1>6 DEF TypeInv

\* Steps keep the types.
LEMMA TypeStep == TypeInv /\ [Next]_vars => TypeInv'
<1> SUFFICES ASSUME TypeInv, [Next]_vars PROVE TypeInv'
  OBVIOUS
<1>1. setup' = setup /\ (Change \/ (vers' = vers /\ Visited))
  BY StepFacts
<1>2. Funcs' = Funcs /\ Names' = Names /\ Version' = Version /\ Passes' = Passes /\ setup' \in Setups
  BY <1>1 DEF Funcs, Names, Version, Passes, TypeInv
<1>3. vers' \in [Funcs -> Seq(Version)] /\ \A f \in Funcs : Len(vers'[f]) >= 1
  <2>1. CASE Change
    <3>1. PICK S \in SUBSET FuncsOf(Top.unit) :
           /\ \A f \in Funcs : f \notin S => vers'[f] = vers[f]
           /\ \A f \in S : vers'[f] \in Seq(Version) /\ Len(vers'[f]) = Len(vers[f]) + 1
      BY <2>1, ChangeFacts
    <3>2. vers' = [f \in Funcs |-> vers'[f]]
      BY <2>1 DEF Change
    <3>3. ASSUME NEW f \in Funcs PROVE vers'[f] \in Seq(Version) /\ Len(vers'[f]) >= 1
      <4>1. vers[f] \in Seq(Version) /\ Len(vers[f]) \in Nat /\ Len(vers[f]) >= 1
        BY LenProperties DEF TypeInv
      <4>2. QED
        BY <3>1, <4>1
    <3>4. QED
      BY <3>2, <3>3
  <2>2. CASE vers' = vers
    BY <2>2 DEF TypeInv
  <2>3. QED
    BY <1>1, <2>1, <2>2
<1>4. fns' \in [Names -> Srcs]
  <2>1. CASE UNCHANGED fns
    BY <2>1 DEF TypeInv
  <2>2. CASE \E u \in 0..setup.nfuncs : \E fl : RunOn(fl, u)
    BY <2>2, RunType
  <2>3. QED
    BY <1>1, <2>1, <2>2 DEF Change, tvVars, Visited
<1>5. stack' \in Seq(Passes)
  <2>1. CASE \E p \in NewPasses : Enter(p)
    BY <2>1, PushFacts
  <2>2. CASE Leave \/ LeaveNoLoop
    BY <2>2, PopFacts DEF Leave, LeaveNoLoop
  <2>3. CASE Change \/ Finalize
    BY <2>3, MarkFacts DEF Change, Finalize
  <2>4. CASE UNCHANGED vars
    BY <2>4 DEF vars, TypeInv
  <2>5. QED
    BY <2>1, <2>2, <2>3, <2>4 DEF Next
<1>6. started' \in Nat
  <2>1. CASE \E p \in NewPasses : Enter(p)
    BY <2>1 DEF Enter, TypeInv
  <2>2. QED
    BY <2>1 DEF Next, Change, Finalize, Leave, LeaveNoLoop, vars, TypeInv
<1>7. is_clangtv_done' \in BOOLEAN
  BY DEF Next, Enter, Change, Finalize, Leave, LeaveNoLoop, vars, tvVars, TypeInv
<1>8. batch_started' \in BOOLEAN /\ dont_verify' \in BOOLEAN
  <2>1. ASSUME RunBatch \/ NoRun \/ UNCHANGED <<batch_started, dont_verify>>
               \/ \E k, u : RunSingle(k, u)
        PROVE  batch_started' \in BOOLEAN /\ dont_verify' \in BOOLEAN
    BY <2>1 DEF RunBatch, NoRun, RunSingle, TypeInv
  <2>2. CASE \E p \in NewPasses : Enter(p)
    BY <2>1, <2>2 DEF Enter, BatchBefore, SingleCallback
  <2>3. CASE Leave
    BY <2>1, <2>3 DEF Leave, BatchAfter, SingleCallback
  <2>4. CASE Finalize
    BY <2>1, <2>4 DEF Finalize
  <2>5. CASE Change \/ LeaveNoLoop \/ UNCHANGED vars
    BY <2>1, <2>5 DEF Change, LeaveNoLoop, vars, tvVars
  <2>6. QED
    BY <2>2, <2>3, <2>4, <2>5 DEF Next
<1>9. QED
  BY <1>2, <1>3, <1>4, <1>5, <1>6, <1>7, <1>8 DEF TypeInv

\* The types are invariant.
LEMMA TypeInvariance == Spec => []TypeInv
BY InitType, TypeStep, PTL DEF Spec

-----------------------------------------------------------------------------
(* A check compares two versions of one function *)

\* The entry of a function after a visit is the old one, the current version,
\* or none.
LEMMA SrcCases ==
  ASSUME NEW fl, NEW s, NEW f
  PROVE  SrcAfter(fl, s, f) \in {s, NoSrc, Current(f)}
BY DEF SrcAfter

\* Visits and changes keep the entries in order and add only checks that
\* compare an older version of a function with its current one.
LEMMA SrcStep ==
  ASSUME TypeInv, TypeInv', OneAnon, SrcInv, CheckedInv, [Next]_vars
  PROVE  SrcInv' /\ CheckedInv'
<1>0. setup' = setup /\ (Change \/ (vers' = vers /\ Visited)) /\ Funcs' = Funcs
  BY StepFacts DEF Funcs
<1>1. \A f \in Funcs : Len(vers[f]) \in Nat /\ Len(vers[f]) >= 1
  BY LenProperties DEF TypeInv
<1>2. CASE Change
  <2>1. PICK S \in SUBSET FuncsOf(Top.unit) :
           /\ \A f \in Funcs : f \notin S => vers'[f] = vers[f]
           /\ \A f \in S : vers'[f] \in Seq(Version) /\ Len(vers'[f]) = Len(vers[f]) + 1
    BY <1>2, ChangeFacts
  <2>2. UNCHANGED <<fns, checked>>
    BY <1>2 DEF Change, tvVars
  <2>3. \A f \in Funcs : Src(f)' = Src(f)
    BY <1>0, <2>2 DEF Src, KeyOf
  <2>4. ASSUME NEW f \in Funcs PROVE 1..Len(vers[f]) \subseteq 1..Len(vers'[f])
    BY <1>1, <2>1
  <2>5. SrcInv'
    BY <1>0, <2>3, <2>4 DEF SrcInv
  <2>6. CheckedInv'
    BY <1>0, <2>2, <2>4 DEF CheckedInv
  <2>7. QED
    BY <2>5, <2>6
<1>3. CASE vers' = vers /\ UNCHANGED <<fns, checked>>
  <2>1. \A f \in Funcs : Src(f)' = Src(f)
    BY <1>0, <1>3 DEF Src, KeyOf
  <2>2. QED
    BY <1>0, <1>3, <2>1 DEF SrcInv, CheckedInv
<1>4. CASE vers' = vers /\ \E u \in 0..setup.nfuncs : \E fl : RunOn(fl, u)
  <2>1. PICK u \in 0..setup.nfuncs : \E fl : RunOn(fl, u)
    BY <1>4
  <2>2. PICK fl : RunOn(fl, u)
    BY <2>1
  <2>3. /\ \A f \in FuncsOf(u) : Src(f)' = SrcAfter(fl, Src(f), f)
        /\ \A f \in Funcs : f \notin FuncsOf(u) => Src(f)' = Src(f)
        /\ checked' = checked \cup
             {<<Src(f), Current(f)>> : f \in {g \in FuncsOf(u) : Verifies(fl, Src(g), g)}}
    BY <1>0, <2>2, VisitFacts
  <2>4. \A f \in Funcs : Src(f)' \in {Src(f), NoSrc, Current(f)}
    BY <2>3, SrcCases
  <2>5. SrcInv'
    <3> SUFFICES ASSUME NEW f \in Funcs, Src(f)' # NoSrc
                 PROVE  \E v \in 1..Len(vers[f]) : Src(f)' = [f |-> f, v |-> v]
      BY <1>0, <1>4 DEF SrcInv, NoSrc
    <3>1. CASE Src(f)' = Src(f)
      BY <3>1 DEF SrcInv
    <3>2. CASE Src(f)' = Current(f)
      <4>1. Len(vers[f]) \in 1..Len(vers[f])
        BY <1>1
      <4>2. QED
        BY <3>2, <4>1 DEF Current
    <3>3. QED
      BY <2>4, <3>1, <3>2
  <2>6. CheckedInv'
    <3> SUFFICES ASSUME NEW c \in checked', c \notin checked
                 PROVE  \E f \in Funcs : \E v, w \in 1..Len(vers[f]) :
                          v < w /\ c = <<[f |-> f, v |-> v], [f |-> f, v |-> w]>>
      BY <1>0, <1>4 DEF CheckedInv
    <3>1. PICK f \in FuncsOf(u) : c = <<Src(f), Current(f)>> /\ Verifies(fl, Src(f), f)
      BY <2>3
    <3>2. f \in Funcs
      BY UnitFacts DEF TypeInv
    <3>3. Src(f) # NoSrc /\ Src(f) # Current(f)
      BY <3>1 DEF Verifies
    <3>4. PICK v \in 1..Len(vers[f]) : Src(f) = [f |-> f, v |-> v]
      BY <3>2, <3>3 DEF SrcInv
    <3>5. v # Len(vers[f])
      BY <3>3, <3>4 DEF Current
    <3>6. v < Len(vers[f])
      BY <1>1, <3>2, <3>5
    <3>7. Len(vers[f]) \in 1..Len(vers[f])
      BY <1>1, <3>2
    <3>8. QED
      BY <3>1, <3>2, <3>4, <3>6, <3>7 DEF Current
  <2>7. QED
    BY <2>5, <2>6
<1>5. QED
  BY <1>0, <1>2, <1>3, <1>4 DEF Visited

\* The entries of fns are invariant for modules with at most one unnamed function.
LEMMA SrcInvariance == Spec => [](TypeInv /\ (OneAnon => SrcInv /\ CheckedInv))
<1>1. Init => (OneAnon => SrcInv /\ CheckedInv)
  <2> SUFFICES ASSUME Init, OneAnon PROVE SrcInv /\ CheckedInv
    OBVIOUS
  <2>1. \A f \in Funcs : Src(f) = NoSrc
    BY KeyFacts DEF Init, Src
  <2>2. QED
    BY <2>1 DEF Init, SrcInv, CheckedInv
<1>2. TypeInv /\ TypeInv' /\ (OneAnon => SrcInv /\ CheckedInv) /\ [Next]_vars
        => (OneAnon => SrcInv /\ CheckedInv)'
  <2> SUFFICES ASSUME TypeInv, TypeInv', OneAnon => SrcInv /\ CheckedInv, [Next]_vars, OneAnon'
               PROVE  SrcInv' /\ CheckedInv'
    OBVIOUS
  <2>1. OneAnon
    BY StepFacts DEF OneAnon
  <2>2. QED
    BY <2>1, SrcStep
<1>3. QED
  BY <1>1, <1>2, TypeInvariance, PTL DEF Spec

\* A check compares two versions of one function, the older one first, in any
\* pipeline over a module with at most one unnamed function, batching or not.
THEOREM ChecksCompareOneFunction == Spec => [](OneAnon => ComparesSameFunction)
<1>1. TypeInv /\ CheckedInv => ComparesSameFunction
  BY DEF CheckedInv, ComparesSameFunction
<1>2. QED
  BY <1>1, SrcInvariance, PTL
-----------------------------------------------------------------------------
(* The stack of passes *)

\* A pass on one function that runs loop passes.
LoopAdaptor(i) ==
  /\ stack[i].role = "adaptor" /\ ~stack[i].loop /\ stack[i].unit # Module
  /\ stack[i].kind \in {"plain", "chosen"}

\* From position i up there are only loop passes of one function.
LoopsAbove(i, n) == \A j \in i + 1..n : stack[j].loop /\ stack[j].unit = stack[i].unit

\* What a loop pass can be.
LoopKinds ==
  \A k \in 1..Len(stack) :
    stack[k].loop => setup.vanish /\ stack[k].unit # Module /\ stack[k].kind \in {"plain", "chosen", "nop"}

\* Loop passes run inside an adaptor of their function.
LoopsNested ==
  \A k \in 1..Len(stack) :
    stack[k].loop => \E i \in 1..k - 1 : LoopAdaptor(i) /\ LoopsAbove(i, k)

\* A pass that contains another one changes nothing itself.
OuterRoles == \A k \in 1..Len(stack) : k < Len(stack) => stack[k].role \in {"outer", "adaptor"}

\* The inductive invariant of the stack.
StackInv == LoopKinds /\ LoopsNested /\ OuterRoles

\* The plugin still checks.
Active == ~dont_verify /\ ~is_clangtv_done

\* Pipelines the plugin follows exactly: with -tv-check-pass no callback gets
\* lost; with batching passes are not nested and the first one is supported.
Regular ==
  /\ OneAnon
  /\ IF setup.batch THEN setup.maxDepth <= 1 /\ "unsupported" \notin setup.first
     ELSE ~(setup.vanish /\ setup.checkOnly)

-----------------------------------------------------------------------------
(* Proofs about the stack *)

\* Who contains a loop pass: another one of the same loop, or an adaptor of its
\* function.
LEMMA LoopContained ==
  ASSUME NEW q, NEW p, MayContain(q, p), p.loop, p.unit # Module, q.kind \in PassKinds
  PROVE  /\ q.unit = p.unit
         /\ ~q.loop => LevelDown(q, p) /\ q.kind \in {"plain", "chosen"}
BY DEF MayContain, SameLevel, LevelDown, PassKinds, Module

\* An adaptor stays one.
LEMMA AdaptorStays ==
  ASSUME NEW q, NEW p, MayContain(q, p), q.role = "adaptor"
  PROVE  RoleWith(q, p) = "adaptor"
BY DEF MayContain, SameLevel, RoleWith

\* A new pass on the stack.
LEMMA PushStack ==
  ASSUME TypeInv, StackInv, NEW p \in NewPasses, Enter(p)
  PROVE  /\ StackInv'
         /\ \A i \in 1..Len(stack) : LoopAdaptor(i) => LoopAdaptor(i)'
         /\ \A i \in 1..Len(stack) : /\ stack'[i].loop = stack[i].loop /\ stack'[i].unit = stack[i].unit
                                     /\ stack'[i].kind = stack[i].kind
<1> DEFINE n == Len(stack)
<1>0. n \in Nat /\ \A i \in 1..n : stack[i] \in Passes
  BY LenProperties, ElementOfSeq DEF TypeInv
<1>1. /\ Len(stack') = n + 1 /\ stack'[n + 1] = p
      /\ \A i \in 1..n : i # n => stack'[i] = stack[i]
      /\ stack # <<>> => stack'[n] = [Top EXCEPT !.role = RoleWith(Top, p)]
  BY PushFacts
<1>2. /\ p.role = "fresh" /\ p.kind \in PassKinds
      /\ p.loop => p.unit # Module /\ p.kind # "unsupported" /\ setup.vanish
  BY PassFacts
<1>3. /\ setup' = setup
      /\ stack = <<>> => ~p.loop
      /\ stack # <<>> => MayContain(Top, p)
  BY DEF Enter
<1>4. stack # <<>> => n \in 1..n /\ Top \in Passes /\ Top = stack[n] /\ Top.kind \in PassKinds
  BY TopFacts DEF Top
<1>5. ASSUME NEW i \in 1..n
      PROVE  /\ stack'[i].loop = stack[i].loop /\ stack'[i].unit = stack[i].unit /\ stack'[i].kind = stack[i].kind
             /\ i # n => stack'[i].role = stack[i].role
             /\ i = n => stack'[i].role = RoleWith(Top, p)
  <2>1. stack # <<>>
    BY <1>0
  <2>2. CASE i = n
    BY <1>1, <1>4, <2>1, <2>2 DEF Passes
  <2>3. CASE i # n
    BY <1>1, <2>3
  <2>4. QED
    BY <2>2, <2>3
<1>6. ASSUME NEW i \in 1..n, LoopAdaptor(i) PROVE LoopAdaptor(i)'
  <2>1. CASE i # n
    BY <1>5, <1>6, <2>1 DEF LoopAdaptor, Module
  <2>2. CASE i = n
    <3>1. stack # <<>>
      BY <1>0
    <3>2. RoleWith(Top, p) = "adaptor"
      BY <1>3, <1>4, <1>6, <2>2, <3>1, AdaptorStays DEF LoopAdaptor
    <3>3. QED
      BY <1>5, <1>6, <2>2, <3>2 DEF LoopAdaptor, Module
  <2>3. QED
    BY <2>1, <2>2
<1>7. ASSUME NEW k \in 1..n + 1 PROVE k \in 1..n \/ k = n + 1
  BY <1>0
<1>8. LoopKinds'
  <2> SUFFICES ASSUME NEW k \in 1..n + 1, stack'[k].loop
               PROVE  setup.vanish /\ stack'[k].unit # Module /\ stack'[k].kind \in {"plain", "chosen", "nop"}
    BY <1>1, <1>3 DEF LoopKinds, Module
  <2>1. CASE k \in 1..n
    BY <1>5, <2>1 DEF StackInv, LoopKinds
  <2>2. CASE k = n + 1
    <3>1. p.loop /\ stack # <<>>
      BY <1>1, <1>3, <2>2
    <3>2. p.kind \notin {"terminate", "finalize"}
      BY <1>3, <3>1 DEF MayContain
    <3>3. QED
      BY <1>1, <1>2, <2>2, <3>1, <3>2 DEF PassKinds
  <2>3. QED
    BY <1>7, <2>1, <2>2
<1>9. LoopsNested'
  <2> SUFFICES ASSUME NEW k \in 1..n + 1, stack'[k].loop
               PROVE  \E i \in 1..k - 1 : LoopAdaptor(i)' /\ LoopsAbove(i, k)'
    BY <1>1 DEF LoopsNested
  <2>1. ASSUME NEW m \in 1..n, stack[m].loop
        PROVE  \E i \in 1..m - 1 :
                 /\ LoopAdaptor(i)'
                 /\ \A j \in i + 1..m : stack'[j].loop /\ stack'[j].unit = stack'[i].unit
    <3>1. PICK i \in 1..m - 1 : LoopAdaptor(i) /\ LoopsAbove(i, m)
      BY <2>1 DEF StackInv, LoopsNested
    <3>2. i \in 1..n
      BY <1>0
    <3>3. ASSUME NEW j \in i + 1..m PROVE stack'[j].loop /\ stack'[j].unit = stack'[i].unit
      <4>1. j \in 1..n
        BY <1>0
      <4>2. QED
        BY <1>5, <3>1, <3>2, <4>1 DEF LoopsAbove
    <3>4. QED
      BY <1>6, <3>1, <3>2, <3>3
  <2>2. CASE k \in 1..n
    BY <1>5, <2>1, <2>2 DEF LoopsAbove
  <2>3. CASE k = n + 1
    <3>1. p.loop /\ stack # <<>> /\ MayContain(Top, p) /\ n \in 1..n /\ Top = stack[n]
      BY <1>1, <1>3, <1>4, <2>3
    <3>2. /\ Top.unit = p.unit
          /\ ~Top.loop => LevelDown(Top, p) /\ Top.kind \in {"plain", "chosen"}
      BY <1>2, <1>4, <3>1, LoopContained
    <3>3. CASE ~Top.loop
      <4>1. PICK i \in 1..k - 1 : i = n
        BY <1>0, <2>3, <3>1
      <4>2. LoopAdaptor(i)'
        BY <1>2, <1>5, <3>1, <3>2, <3>3, <4>1 DEF LoopAdaptor, RoleWith, Module
      <4>3. LoopsAbove(i, k)'
        <5>1. \A j \in i + 1..k : j = n + 1
          BY <1>0, <2>3, <4>1
        <5>2. stack'[i].unit = p.unit
          BY <1>5, <3>1, <3>2, <4>1
        <5>3. QED
          BY <1>1, <3>1, <5>1, <5>2 DEF LoopsAbove
      <4>4. QED
        BY <4>2, <4>3
    <3>4. CASE Top.loop
      <4>1. PICK i \in 1..n - 1 :
                 /\ LoopAdaptor(i)'
                 /\ \A j \in i + 1..n : stack'[j].loop /\ stack'[j].unit = stack'[i].unit
        BY <2>1, <3>1, <3>4
      <4>2. stack'[n].unit = p.unit /\ n \in i + 1..n
        BY <1>0, <1>5, <3>1, <3>2
      <4>3. ASSUME NEW j \in i + 1..k PROVE stack'[j].loop /\ stack'[j].unit = stack'[i].unit
        <5>1. j \in i + 1..n \/ j = n + 1
          BY <1>0, <2>3
        <5>2. QED
          BY <1>1, <3>1, <4>1, <4>2, <5>1
      <4>4. i \in 1..k - 1
        BY <1>0, <2>3
      <4>5. QED
        BY <4>1, <4>3, <4>4 DEF LoopsAbove
    <3>5. QED
      BY <3>3, <3>4
  <2>4. QED
    BY <1>7, <2>2, <2>3
<1>10. OuterRoles'
  <2> SUFFICES ASSUME NEW k \in 1..n + 1, k < n + 1 PROVE stack'[k].role \in {"outer", "adaptor"}
    BY <1>1 DEF OuterRoles
  <2>1. k \in 1..n
    BY <1>0
  <2>2. CASE k = n
    BY <1>5, <2>1, <2>2 DEF RoleWith
  <2>3. CASE k # n
    BY <1>0, <1>5, <2>1, <2>3 DEF StackInv, OuterRoles
  <2>4. QED
    BY <2>2, <2>3
<1>11. QED
  BY <1>5, <1>6, <1>8, <1>9, <1>10 DEF StackInv

\* The stack loses its top, or the top has done its work.
LEMMA ShrinkStack ==
  ASSUME TypeInv, StackInv, setup' = setup, Len(stack') \in 0..Len(stack),
         \A i \in 1..Len(stack') :
            /\ stack'[i].loop = stack[i].loop /\ stack'[i].unit = stack[i].unit /\ stack'[i].kind = stack[i].kind
            /\ stack'[i].role = stack[i].role \/ (i = Len(stack') /\ stack[i].role # "adaptor")
  PROVE  StackInv' /\ \A i \in 1..Len(stack') : LoopAdaptor(i) => LoopAdaptor(i)'
<1>0. Len(stack) \in Nat /\ Len(stack') \in Nat /\ \A i \in 1..Len(stack') : i \in 1..Len(stack)
  BY LenProperties DEF TypeInv
<1>1. ASSUME NEW i \in 1..Len(stack'), LoopAdaptor(i) PROVE LoopAdaptor(i)'
  BY <1>1 DEF LoopAdaptor, Module
<1>2. LoopKinds'
  BY <1>0 DEF StackInv, LoopKinds, Module
<1>3. LoopsNested'
  <2> SUFFICES ASSUME NEW k \in 1..Len(stack'), stack'[k].loop
               PROVE  \E i \in 1..k - 1 : LoopAdaptor(i)' /\ LoopsAbove(i, k)'
    BY DEF LoopsNested
  <2>1. PICK i \in 1..k - 1 : LoopAdaptor(i) /\ LoopsAbove(i, k)
    BY <1>0 DEF StackInv, LoopsNested
  <2>2. i \in 1..Len(stack') /\ \A j \in i + 1..k : j \in 1..Len(stack')
    BY <1>0
  <2>3. LoopsAbove(i, k)'
    BY <2>1, <2>2 DEF LoopsAbove
  <2>4. QED
    BY <1>1, <2>1, <2>2, <2>3
<1>4. OuterRoles'
  <2> SUFFICES ASSUME NEW k \in 1..Len(stack'), k < Len(stack') PROVE stack'[k].role \in {"outer", "adaptor"}
    BY DEF OuterRoles
  <2>1. k < Len(stack) /\ k # Len(stack')
    BY <1>0
  <2>2. QED
    BY <1>0, <2>1 DEF StackInv, OuterRoles
<1>5. QED
  BY <1>1, <1>2, <1>3, <1>4 DEF StackInv

\* The stack after a pop and after a mark is such a stack.
LEMMA PopStack ==
  ASSUME TypeInv, StackInv, stack # <<>>, setup' = setup, stack' = SubSeq(stack, 1, Len(stack) - 1)
  PROVE  StackInv' /\ \A i \in 1..Len(stack') : LoopAdaptor(i) => LoopAdaptor(i)'
<1>1. Len(stack') = Len(stack) - 1 /\ \A i \in 1..Len(stack) - 1 : stack'[i] = stack[i]
  BY PopFacts
<1>2. Len(stack') \in 0..Len(stack)
  BY <1>1, TopFacts
<1>3. QED
  BY <1>1, <1>2, ShrinkStack

\* The pass on top changes from fresh to leaf.
LEMMA MarkStack ==
  ASSUME TypeInv, StackInv, stack # <<>>, setup' = setup, Top.role = "fresh",
         stack' = [stack EXCEPT ![Len(stack)].role = "leaf"]
  PROVE  StackInv' /\ \A i \in 1..Len(stack') : LoopAdaptor(i) => LoopAdaptor(i)'
<1>1. /\ Len(stack') = Len(stack)
      /\ \A i \in 1..Len(stack) : i # Len(stack) => stack'[i] = stack[i]
      /\ stack'[Len(stack)] = [Top EXCEPT !.role = "leaf"]
  BY MarkFacts
<1>2. Len(stack) \in Nat \ {0} /\ Top \in Passes /\ Top = stack[Len(stack)]
  BY TopFacts DEF Top
<1>3. ASSUME NEW i \in 1..Len(stack')
      PROVE  /\ stack'[i].loop = stack[i].loop /\ stack'[i].unit = stack[i].unit /\ stack'[i].kind = stack[i].kind
             /\ stack'[i].role = stack[i].role \/ (i = Len(stack') /\ stack[i].role # "adaptor")
  <2>1. CASE i = Len(stack)
    BY <1>1, <1>2, <2>1 DEF Passes
  <2>2. CASE i # Len(stack)
    BY <1>1, <2>2
  <2>3. QED
    BY <2>1, <2>2
<1>4. Len(stack') \in 0..Len(stack)
  BY <1>1, <1>2
<1>5. QED
  BY <1>3, <1>4, ShrinkStack

\* The nesting of passes is invariant.
LEMMA StackInvariance == Spec => [](TypeInv /\ StackInv)
<1>1. Init => StackInv
  <2> SUFFICES ASSUME Init PROVE StackInv
    OBVIOUS
  <2>1. Len(stack) = 0
    BY DEF Init
  <2>2. QED
    BY <2>1 DEF StackInv, LoopKinds, LoopsNested, OuterRoles
<1>2. TypeInv /\ StackInv /\ [Next]_vars => StackInv'
  <2> SUFFICES ASSUME TypeInv, StackInv, [Next]_vars PROVE StackInv'
    OBVIOUS
  <2>0. setup' = setup
    BY StepFacts
  <2>1. CASE \E p \in NewPasses : Enter(p)
    BY <2>1, PushStack
  <2>2. CASE Leave \/ LeaveNoLoop
    BY <2>0, <2>2, PopStack DEF Leave, LeaveNoLoop
  <2>3. CASE Change \/ Finalize
    BY <2>0, <2>3, MarkStack DEF Change, Finalize
  <2>4. CASE UNCHANGED vars
    <3>1. stack' = stack /\ Len(stack) \in Nat
      BY <2>4, LenProperties DEF vars, TypeInv
    <3>2. Len(stack') \in 0..Len(stack)
      BY <3>1
    <3>3. QED
      BY <2>0, <3>1, <3>2, ShrinkStack
  <2>5. QED
    BY <2>1, <2>2, <2>3, <2>4 DEF Next
<1>3. QED
  BY <1>1, <1>2, TypeInvariance, PTL DEF Spec
-----------------------------------------------------------------------------
(* Without batching *)

\* Top is a pass that may still change its functions, or has just done so.
Changing(role) == stack # <<>> /\ Top.role = role /\ Top.kind \in {"plain", "chosen", "unsupported"}

\* Before a pass changes a function, its entry is up to date.
FreshInv ==
  Active /\ Changing("fresh") => \A f \in FuncsOf(Top.unit) : Translatable(f) => Src(f) = Current(f)

\* A change nobody asked to check is newer than the entry of its function only
\* until its pass is left.
SpanInv ==
  Active =>
    \A f \in Funcs : Src(f) # NoSrc =>
      \A v \in Src(f).v + 1..Len(vers[f]) :
        Exempt(vers[f][v].kind) =>
          Changing("leaf") /\ ~Top.loop /\ Exempt(Top.kind) /\ f \in FuncsOf(Top.unit)

\* Version v of f should be covered by a check (without batching).
Required(f, v) ==
  vers[f][v].live /\ ~Exempt(vers[f][v].kind) /\ vers[f][v].ok /\ vers[f][v - 1].ok

\* f is visited next by a pass that will check it: the one that has changed it,
\* or, if that one's callback got lost, a loop pass of f or their adaptor.
Awaited(f) ==
  \/ Changing("leaf") /\ ~Exempt(Top.kind) /\ f \in FuncsOf(Top.unit)
  \/ /\ setup.vanish /\ stack # <<>> /\ (Top.role = "fresh" => Top.kind = "nop")
     /\ \E i \in 1..Len(stack) : LoopAdaptor(i) /\ stack[i].unit = f /\ LoopsAbove(i, Len(stack))

\* What is not covered yet is the last version, and will be covered by a check
\* that starts at the version before.
PendingInv ==
  \A f \in Funcs : \A v \in 2..Len(vers[f]) :
    Required(f, v) =>
      Covered(f, v) \/ (Active /\ v = Len(vers[f]) /\ Src(f) = [f |-> f, v |-> v - 1] /\ Awaited(f))

\* The inductive invariant without batching.
SingleInv == FreshInv /\ SpanInv /\ PendingInv

-----------------------------------------------------------------------------
(* Proofs about pipelines without batching *)

\* What stays the same while the functions stay the same.
LEMMA SameFuncs ==
  ASSUME setup' = setup, vers' = vers
  PROVE  /\ Funcs' = Funcs
         /\ \A f : Current(f)' = Current(f)
         /\ \A f : Translatable(f)' = Translatable(f)
         /\ \A u : FuncsOf(u)' = FuncsOf(u)
         /\ \A k : Exempt(k)' <=> Exempt(k)
         /\ \A f, v : Required(f, v)' <=> Required(f, v)
BY DEF Funcs, Current, Translatable, FuncsOf, Module, Exempt, Required

\* A callback without batching: the entries of the unit move to the current
\* version unless the pass does nothing, and a check starts at each of them.
LEMMA CallbackFacts ==
  ASSUME TypeInv, OneAnon, setup' = setup, is_clangtv_done' = is_clangtv_done, ~setup.batch,
         NEW k \in PassKinds, NEW u \in 0..setup.nfuncs,
         IF is_clangtv_done THEN NoRun ELSE RunSingle(k, u)
  PROVE  /\ Active' <=> Active /\ k # "terminate"
         /\ ~Active' => UNCHANGED <<fns, checked>>
         /\ checked \subseteq checked'
         /\ Active' =>
              /\ \A f \in FuncsOf(u) :
                   Src(f)' = IF k = "nop" /\ Src(f) # NoSrc THEN Src(f)
                             ELSE IF Translatable(f) THEN Current(f) ELSE NoSrc
              /\ \A f \in Funcs : f \notin FuncsOf(u) => Src(f)' = Src(f)
              /\ \A c \in checked' : c \in checked \/
                   \E f \in FuncsOf(u) : c = <<Src(f), Current(f)>> /\ Src(f) # NoSrc /\ ~Exempt(k)
              /\ \A f \in FuncsOf(u) :
                   Src(f) # NoSrc /\ k # "nop" /\ ~Exempt(k) /\ Translatable(f) /\ Src(f) # Current(f)
                     => <<Src(f), Current(f)>> \in checked'
<1> DEFINE fl == Flags(is_unsupported_pass(k) \/ check_skip(k), is_nop_pass(k), FALSE)
<1>1. dont_verify \in BOOLEAN /\ is_clangtv_done \in BOOLEAN
  BY DEF TypeInv
<1>2. Active' <=> Active /\ k # "terminate"
  BY <1>1 DEF Active, NoRun, RunSingle, is_terminate_pass
<1>3. ~Active' => UNCHANGED <<fns, checked>>
  BY <1>1 DEF Active, NoRun, RunSingle
<1>4. Active' => RunOn(fl, u)
  BY <1>1 DEF Active, RunSingle
<1>5. /\ fl.unsupported <=> Exempt(k)
      /\ fl.nop <=> k \in {"nop", "terminate"}
      /\ fl.onlyif = FALSE
  BY DEF Flags, is_unsupported_pass, check_skip, is_nop_pass, Exempt
<1> HIDE DEF fl
<1>6. ASSUME Active', NEW f \in FuncsOf(u)
      PROVE  Src(f)' = IF k = "nop" /\ Src(f) # NoSrc THEN Src(f)
                       ELSE IF Translatable(f) THEN Current(f) ELSE NoSrc
  <2>1. Src(f)' = SrcAfter(fl, Src(f), f)
    BY <1>4, <1>6, VisitFacts
  <2>2. QED
    BY <1>2, <1>5, <1>6, <2>1 DEF SrcAfter
<1>7. ASSUME Active', NEW f \in Funcs, f \notin FuncsOf(u) PROVE Src(f)' = Src(f)
  BY <1>4, <1>7, VisitFacts
<1>8. ASSUME Active'
      PROVE  checked' = checked \cup
               {<<Src(f), Current(f)>> : f \in {g \in FuncsOf(u) : Verifies(fl, Src(g), g)}}
  BY <1>4, <1>8, VisitFacts
<1>9. \A f : Verifies(fl, Src(f), f) <=>
         Src(f) # NoSrc /\ k \notin {"nop", "terminate"} /\ ~Exempt(k) /\ Translatable(f) /\ Src(f) # Current(f)
  BY <1>5 DEF Verifies
<1>10. checked \subseteq checked'
  BY <1>3, <1>8
<1>11. ASSUME Active', NEW c \in checked', c \notin checked
       PROVE  \E f \in FuncsOf(u) : c = <<Src(f), Current(f)>> /\ Src(f) # NoSrc /\ ~Exempt(k)
  BY <1>8, <1>9, <1>11
<1>12. ASSUME Active', NEW f \in FuncsOf(u),
              Src(f) # NoSrc, k # "nop", ~Exempt(k), Translatable(f), Src(f) # Current(f)
       PROVE  <<Src(f), Current(f)>> \in checked'
  BY <1>2, <1>8, <1>9, <1>12
<1>13. QED
  BY <1>2, <1>3, <1>6, <1>7, <1>10, <1>11, <1>12

\* A check that starts one version back covers the last version.
LEMMA LastCovered ==
  ASSUME TypeInv, NEW f \in Funcs, NEW v \in 2..Len(vers[f]), v = Len(vers[f]),
         Src(f) = [f |-> f, v |-> v - 1], <<Src(f), Current(f)>> \in checked'
  PROVE  Covered(f, v)'
<1>1. v \in Nat /\ v - 1 < v /\ v <= v
  BY LenProperties DEF TypeInv
<1>2. Current(f) = [f |-> f, v |-> v]
  BY DEF Current
<1> DEFINE c == <<[f |-> f, v |-> v - 1], [f |-> f, v |-> v]>>
<1>3. c \in checked' /\ c[1].f = f /\ c[2].f = f /\ c[1].v = v - 1 /\ c[2].v = v
  BY <1>2
<1> HIDE DEF c
<1>4. \E d \in checked' : d[1].f = f /\ d[2].f = f /\ d[1].v < v /\ v <= d[2].v
  BY <1>1, <1>3
<1>5. QED
  BY <1>4 DEF Covered

\* More checks cover more.
LEMMA CoveredStays ==
  ASSUME checked \subseteq checked', NEW f, NEW v, Covered(f, v)
  PROVE  Covered(f, v)'
BY DEF Covered

\* The top of the stack in the next state.
LEMMA NextTop ==
  ASSUME TypeInv
  PROVE  /\ \A p \in NewPasses : Enter(p) => Top' = p /\ stack' # <<>>
         /\ stack # <<>> /\ stack' = [stack EXCEPT ![Len(stack)].role = "leaf"] =>
              /\ stack' # <<>> /\ Top'.role = "leaf" /\ Top'.kind = Top.kind /\ Top'.unit = Top.unit
              /\ Top'.loop = Top.loop
         /\ stack # <<>> /\ StackInv /\ stack' = SubSeq(stack, 1, Len(stack) - 1) /\ stack' # <<>> =>
              Top'.role \in {"outer", "adaptor"}
<1>1. Len(stack) \in Nat
  BY LenProperties DEF TypeInv
<1>2. ASSUME NEW p \in NewPasses, Enter(p) PROVE Top' = p /\ stack' # <<>>
  <2>1. Len(stack') = Len(stack) + 1 /\ stack'[Len(stack) + 1] = p
    BY <1>2, PushFacts
  <2>2. Len(stack') # 0
    BY <1>1, <2>1
  <2>3. QED
    BY <2>1, <2>2 DEF Top
<1>3. ASSUME stack # <<>>, stack' = [stack EXCEPT ![Len(stack)].role = "leaf"]
      PROVE  /\ stack' # <<>> /\ Top'.role = "leaf" /\ Top'.kind = Top.kind /\ Top'.unit = Top.unit
             /\ Top'.loop = Top.loop
  <2>1. Len(stack') = Len(stack) /\ stack'[Len(stack)] = [Top EXCEPT !.role = "leaf"]
    BY <1>3, MarkFacts
  <2>2. Len(stack') # 0 /\ Top \in Passes
    BY <1>3, <2>1, TopFacts
  <2>3. Top' = [Top EXCEPT !.role = "leaf"]
    BY <2>1 DEF Top
  <2>4. QED
    BY <2>2, <2>3 DEF Passes
<1>4. ASSUME stack # <<>>, StackInv, stack' = SubSeq(stack, 1, Len(stack) - 1), stack' # <<>>
      PROVE  Top'.role \in {"outer", "adaptor"}
  <2>1. stack' \in Seq(Passes) /\ Len(stack') = Len(stack) - 1 /\ \A i \in 1..Len(stack) - 1 : stack'[i] = stack[i]
    BY <1>4, PopFacts
  <2>2. Len(stack') # 0
    BY <1>4, <2>1, EmptySeq
  <2>3. Len(stack) - 1 \in 1..Len(stack) /\ Len(stack) - 1 < Len(stack) /\ Len(stack) - 1 \in 1..Len(stack) - 1
    BY <1>1, <1>4, <2>1, <2>2, TopFacts
  <2>4. Top' = stack[Len(stack) - 1]
    BY <2>1, <2>3 DEF Top
  <2>5. QED
    BY <1>4, <2>3, <2>4 DEF StackInv, OuterRoles
<1>5. QED
  BY <1>2, <1>3, <1>4

\* Above a loop adaptor of f the top of the stack is on f and is not exempt.
LEMMA ZoneTop ==
  ASSUME TypeInv, StackInv, stack # <<>>, NEW f \in Funcs, NEW i \in 1..Len(stack),
         LoopAdaptor(i), stack[i].unit = f, LoopsAbove(i, Len(stack))
  PROVE  /\ Top.unit = f /\ FuncsOf(Top.unit) = {f} /\ Top.kind \in {"plain", "chosen", "nop"}
         /\ i = Len(stack) => ~Top.loop /\ Top.role = "adaptor" /\ Top.kind # "nop"
         /\ i # Len(stack) => Top.loop
<1>1. Len(stack) \in Nat \ {0} /\ Len(stack) \in 1..Len(stack)
  BY TopFacts
<1>2. f # Module
  BY SetupFacts DEF TypeInv, Funcs, Module
<1>3. CASE i = Len(stack)
  BY <1>2, <1>3 DEF Top, LoopAdaptor, FuncsOf
<1>4. CASE i # Len(stack)
  <2>1. Len(stack) \in i + 1..Len(stack)
    BY <1>1, <1>4
  <2>2. stack[Len(stack)].loop /\ stack[Len(stack)].unit = f
    BY <2>1 DEF LoopsAbove
  <2>3. QED
    BY <1>1, <1>2, <1>4, <2>2 DEF StackInv, LoopKinds, Top, FuncsOf
<1>5. QED
  BY <1>3, <1>4

\* With lost callbacks every loop pass is to be checked.
LEMMA LoopNotExempt ==
  ASSUME Regular, ~setup.batch, setup.vanish, NEW k, k # "unsupported"
  PROVE  ~Exempt(k)
BY DEF Regular, Exempt

\* A new pass: what was left open is checked before it runs.
LEMMA SingleEnter ==
  ASSUME TypeInv, StackInv, SrcInv, CheckedInv, Regular, ~setup.batch, SingleInv, NoCheckSpansUnsupported,
         NEW p \in NewPasses, Enter(p)
  PROVE  SingleInv' /\ NoCheckSpansUnsupported'
<1>0. setup' = setup /\ vers' = vers /\ is_clangtv_done' = is_clangtv_done /\ OneAnon
  BY DEF Enter, Regular
<1>1. p.unit \in 0..setup.nfuncs /\ p.kind \in PassKinds /\ p.role = "fresh"
  BY PassFacts
<1>2. IF is_clangtv_done THEN NoRun ELSE RunSingle(p.kind, p.unit)
  BY DEF Enter, SingleCallback
<1>3. /\ Active' <=> Active /\ p.kind # "terminate"
      /\ checked \subseteq checked'
      /\ ~Active' => UNCHANGED <<fns, checked>>
      /\ Active' =>
              /\ \A f \in FuncsOf(p.unit) :
                   Src(f)' = IF p.kind = "nop" /\ Src(f) # NoSrc THEN Src(f)
                             ELSE IF Translatable(f) THEN Current(f) ELSE NoSrc
              /\ \A f \in Funcs : f \notin FuncsOf(p.unit) => Src(f)' = Src(f)
              /\ \A c \in checked' : c \in checked \/
                   \E f \in FuncsOf(p.unit) : c = <<Src(f), Current(f)>> /\ Src(f) # NoSrc /\ ~Exempt(p.kind)
              /\ \A f \in FuncsOf(p.unit) :
                   Src(f) # NoSrc /\ p.kind # "nop" /\ ~Exempt(p.kind) /\ Translatable(f) /\ Src(f) # Current(f)
                     => <<Src(f), Current(f)>> \in checked'
  BY <1>0, <1>1, <1>2, CallbackFacts
<1>4. /\ Funcs' = Funcs
      /\ \A f : Current(f)' = Current(f)
      /\ \A f : Translatable(f)' = Translatable(f)
      /\ \A u : FuncsOf(u)' = FuncsOf(u)
      /\ \A k : Exempt(k)' <=> Exempt(k)
      /\ \A f, v : Required(f, v)' <=> Required(f, v)
  BY <1>0, SameFuncs
<1>5. Top' = p /\ stack' # <<>>
  BY NextTop
<1>6. ~Changing("leaf")
  BY DEF Enter, MayContain, Changing
<1>7. FuncsOf(p.unit) \subseteq Funcs
  BY <1>1, UnitFacts DEF TypeInv
<1>8. \A f \in Funcs : Len(vers[f]) \in Nat
  BY LenProperties DEF TypeInv
<1>9. FreshInv'
  <2> SUFFICES ASSUME Active', Changing("fresh")', NEW f \in FuncsOf(p.unit), Translatable(f)
               PROVE  Src(f)' = Current(f)
    BY <1>4, <1>5 DEF FreshInv
  <2>1. p.kind # "nop"
    BY <1>5 DEF Changing
  <2>2. QED
    BY <1>3, <2>1
<1>10. Active => \A f \in Funcs : Src(f) # NoSrc =>
         \A v \in Src(f).v + 1..Len(vers[f]) : ~Exempt(vers[f][v].kind)
  BY <1>6 DEF SingleInv, SpanInv
<1>11. SpanInv'
  <2> SUFFICES ASSUME Active', NEW f \in Funcs, Src(f)' # NoSrc, NEW v \in Src(f)'.v + 1..Len(vers[f])
               PROVE  ~Exempt(vers[f][v].kind)
    BY <1>0, <1>4 DEF SpanInv, NoSrc
  <2>1. CASE Src(f)' = Src(f)
    BY <1>3, <1>10, <2>1
  <2>2. CASE Src(f)' = Current(f)
    <3>1. Src(f)'.v = Len(vers[f])
      BY <2>2 DEF Current
    <3>2. QED
      BY <1>8, <3>1
  <2>3. QED
    BY <1>3, <2>1, <2>2
<1>12. PendingInv'
  <2> SUFFICES ASSUME NEW f \in Funcs, NEW v \in 2..Len(vers[f]), Required(f, v)
               PROVE  \/ Covered(f, v)'
                      \/ Active' /\ v = Len(vers[f]) /\ Src(f)' = [f |-> f, v |-> v - 1] /\ Awaited(f)'
    BY <1>0, <1>4 DEF PendingInv
  <2>1. CASE Covered(f, v)
    BY <1>3, <2>1, CoveredStays
  <2>2. CASE ~Covered(f, v)
    <3>1. Active /\ v = Len(vers[f]) /\ Src(f) = [f |-> f, v |-> v - 1] /\ Awaited(f)
      BY <2>2 DEF SingleInv, PendingInv
    <3>2. setup.vanish /\ stack # <<>>
      BY <1>6, <3>1 DEF Awaited
    <3>3. PICK i \in 1..Len(stack) : LoopAdaptor(i) /\ stack[i].unit = f /\ LoopsAbove(i, Len(stack))
      BY <1>6, <3>1 DEF Awaited
    <3>4. /\ Top.unit = f
          /\ i = Len(stack) => ~Top.loop /\ Top.role = "adaptor"
          /\ i # Len(stack) => Top.loop
      BY <3>2, <3>3, ZoneTop
    <3>5. MayContain(Top, p) /\ f # Module
      BY <3>2, SetupFacts DEF Enter, TypeInv, Funcs, Module
    <3>6. p.loop /\ p.unit = f /\ FuncsOf(p.unit) = {f}
      BY <3>4, <3>5 DEF MayContain, SameLevel, LevelDown, FuncsOf
    <3>7. p.kind \in {"plain", "chosen", "nop"}
      BY <1>1, <3>5, <3>6, PassFacts DEF MayContain, PassKinds
    <3>8. Active'
      BY <1>3, <3>1, <3>7
    <3>9. CASE p.kind = "nop"
      <4>1. Src(f)' = Src(f)
        BY <1>3, <3>1, <3>6, <3>8, <3>9 DEF NoSrc
      <4>2. /\ StackInv' /\ LoopAdaptor(i)'
            /\ \A j \in 1..Len(stack) : stack'[j].loop = stack[j].loop /\ stack'[j].unit = stack[j].unit
        BY <3>3, PushStack
      <4>3. Len(stack') = Len(stack) + 1 /\ stack'[Len(stack) + 1] = p /\ Len(stack) \in Nat
        BY PushFacts, LenProperties DEF TypeInv
      <4>4. i \in 1..Len(stack')
        BY <4>3
      <4>5. ASSUME NEW j \in i + 1..Len(stack') PROVE stack'[j].loop /\ stack'[j].unit = stack'[i].unit
        <5>1. CASE j = Len(stack) + 1
          BY <3>3, <3>6, <4>2, <4>3, <5>1
        <5>2. CASE j # Len(stack) + 1
          <6>1. j \in i + 1..Len(stack) /\ j \in 1..Len(stack)
            BY <4>3, <5>2
          <6>2. QED
            BY <3>3, <4>2, <6>1 DEF LoopsAbove
        <5>3. QED
          BY <5>1, <5>2
      <4>6. LoopsAbove(i, Len(stack))'
        BY <4>5 DEF LoopsAbove
      <4>7. Awaited(f)'
        BY <1>0, <1>5, <3>2, <3>3, <3>9, <4>2, <4>4, <4>6 DEF Awaited
      <4>8. QED
        BY <3>1, <3>8, <4>1, <4>7
    <3>10. CASE p.kind # "nop"
      <4>1. ~Exempt(p.kind)
        BY <3>2, <3>7, LoopNotExempt
      <4>2. Translatable(f)
        BY <3>1 DEF Required, Translatable
      <4>3. Src(f) # NoSrc /\ Src(f) # Current(f)
        BY <3>1, <3>5, <1>8 DEF NoSrc, Current, Module
      <4>4. <<Src(f), Current(f)>> \in checked'
        BY <1>3, <3>6, <3>8, <3>10, <4>1, <4>2, <4>3
      <4>5. QED
        BY <3>1, <4>4, LastCovered
    <3>11. QED
      BY <3>9, <3>10
  <2>3. QED
    BY <2>1, <2>2
<1>13. NoCheckSpansUnsupported'
  <2> SUFFICES ASSUME NEW c \in checked', c[1].f = c[2].f, NEW v \in c[1].v + 1..c[2].v
               PROVE  ~Exempt(vers[c[1].f][v].kind)
    BY <1>0, <1>4 DEF NoCheckSpansUnsupported
  <2>1. CASE c \in checked
    BY <2>1 DEF NoCheckSpansUnsupported
  <2>2. CASE c \notin checked
    <3>1. Active'
      BY <1>3, <2>2
    <3>2. PICK f \in FuncsOf(p.unit) : c = <<Src(f), Current(f)>> /\ Src(f) # NoSrc
      BY <1>3, <2>2, <3>1
    <3>3. f \in Funcs /\ Active
      BY <1>3, <1>7, <3>1
    <3>4. c[1].v = Src(f).v /\ c[2].v = Len(vers[f]) /\ c[2].f = f
      BY <3>2 DEF Current
    <3>5. QED
      BY <1>10, <3>2, <3>3, <3>4
  <2>3. QED
    BY <2>1, <2>2
<1>14. QED
  BY <1>9, <1>11, <1>12, <1>13 DEF SingleInv

\* A pop keeps the zone above a loop adaptor that is not popped.
LEMMA PopZone ==
  ASSUME TypeInv, StackInv, stack # <<>>, setup' = setup, stack' = SubSeq(stack, 1, Len(stack) - 1), setup.vanish,
         NEW f, NEW i \in 1..Len(stack) - 1, LoopAdaptor(i), stack[i].unit = f, LoopsAbove(i, Len(stack))
  PROVE  Awaited(f)'
<1>1. Len(stack') = Len(stack) - 1 /\ (\A j \in 1..Len(stack) - 1 : stack'[j] = stack[j]) /\ Len(stack) \in Nat
  BY PopFacts, TopFacts
<1>2. i \in 1..Len(stack') /\ stack'[i].unit = f
  BY <1>1
<1>3. LoopAdaptor(i)'
  BY <1>2, PopStack
<1>4. ASSUME NEW j \in i + 1..Len(stack') PROVE stack'[j].loop /\ stack'[j].unit = stack'[i].unit
  <2>1. j \in 1..Len(stack) - 1 /\ j \in i + 1..Len(stack)
    BY <1>1
  <2>2. QED
    BY <1>1, <2>1 DEF LoopsAbove
<1>5. LoopsAbove(i, Len(stack))'
  BY <1>4 DEF LoopsAbove
<1>6. stack' # <<>>
  <2> DEFINE n == Len(stack')
  <2> HIDE DEF n
  <2>1. i \in 1..n
    BY <1>2 DEF n
  <2>2. n # 0
    BY ONLY <2>1
  <2>3. QED
    BY <2>2 DEF n
<1>7. Top'.role # "fresh"
  BY <1>6, NextTop
<1>8. QED
  BY <1>2, <1>3, <1>5, <1>6, <1>7 DEF Awaited

\* The callback after a pass: what it changed is checked, or forgotten if
\* nobody asked to check it.
LEMMA SingleLeave ==
  ASSUME TypeInv, StackInv, SrcInv, CheckedInv, Regular, ~setup.batch, SingleInv, NoCheckSpansUnsupported, Leave
  PROVE  SingleInv' /\ NoCheckSpansUnsupported'
<1>0. /\ setup' = setup /\ vers' = vers /\ is_clangtv_done' = is_clangtv_done /\ OneAnon /\ stack # <<>>
      /\ stack' = SubSeq(stack, 1, Len(stack) - 1)
  BY DEF Leave, Regular
<1>1. Top.unit \in 0..setup.nfuncs /\ Top.kind \in PassKinds /\ Len(stack) \in Nat
  BY <1>0, TopFacts
<1>2. IF is_clangtv_done THEN NoRun ELSE RunSingle(Top.kind, Top.unit)
  BY DEF Leave, SingleCallback
<1>t. PICK k \in PassKinds : k = Top.kind
  BY <1>1
<1>u. PICK u \in 0..setup.nfuncs : u = Top.unit
  BY <1>1
<1>3. /\ Active' <=> Active /\ k # "terminate"
      /\ checked \subseteq checked'
      /\ ~Active' => UNCHANGED <<fns, checked>>
      /\ Active' =>
              /\ \A f \in FuncsOf(u) :
                   Src(f)' = IF k = "nop" /\ Src(f) # NoSrc THEN Src(f)
                             ELSE IF Translatable(f) THEN Current(f) ELSE NoSrc
              /\ \A f \in Funcs : f \notin FuncsOf(u) => Src(f)' = Src(f)
              /\ \A c \in checked' : c \in checked \/
                   \E f \in FuncsOf(u) : c = <<Src(f), Current(f)>> /\ Src(f) # NoSrc /\ ~Exempt(k)
              /\ \A f \in FuncsOf(u) :
                   Src(f) # NoSrc /\ k # "nop" /\ ~Exempt(k) /\ Translatable(f) /\ Src(f) # Current(f)
                     => <<Src(f), Current(f)>> \in checked'
  <2>1. IF is_clangtv_done THEN NoRun ELSE RunSingle(k, u)
    BY <1>2, <1>t, <1>u
  <2>2. QED
    BY <1>0, <2>1, CallbackFacts
<1>4. /\ Funcs' = Funcs
      /\ \A f : Current(f)' = Current(f)
      /\ \A j : Exempt(j)' <=> Exempt(j)
      /\ \A f, v : Required(f, v)' <=> Required(f, v)
  BY <1>0, SameFuncs
<1>5. stack' # <<>> => Top'.role \in {"outer", "adaptor"}
  BY <1>0, NextTop
<1>7. FuncsOf(u) \subseteq Funcs
  BY UnitFacts DEF TypeInv
<1>8. \A f \in Funcs : Len(vers[f]) \in Nat
  BY LenProperties DEF TypeInv
<1>9. FreshInv'
  BY <1>5 DEF FreshInv, Changing
<1>10. ASSUME Active, NEW f \in Funcs, Src(f) # NoSrc, NEW v \in Src(f).v + 1..Len(vers[f]), Exempt(vers[f][v].kind)
       PROVE  k \in {"plain", "chosen", "unsupported"} /\ Exempt(k) /\ f \in FuncsOf(u)
  BY <1>10, <1>t, <1>u DEF SingleInv, SpanInv, Changing
<1>11. SpanInv'
  <2> SUFFICES ASSUME Active', NEW f \in Funcs, Src(f)' # NoSrc, NEW v \in Src(f)'.v + 1..Len(vers[f])
               PROVE  ~Exempt(vers[f][v].kind)
    BY <1>0, <1>4 DEF SpanInv, NoSrc
  <2>1. CASE Src(f)' = Current(f)
    <3>1. Src(f)'.v = Len(vers[f])
      BY <2>1 DEF Current
    <3>2. QED
      BY <1>8, <3>1
  <2>2. CASE Src(f)' = Src(f) /\ (f \in FuncsOf(u) => k = "nop")
    BY <1>3, <1>10, <2>2
  <2>3. QED
    BY <1>3, <2>1, <2>2
<1>12. PendingInv'
  <2> SUFFICES ASSUME NEW f \in Funcs, NEW v \in 2..Len(vers[f]), Required(f, v)
               PROVE  \/ Covered(f, v)'
                      \/ Active' /\ v = Len(vers[f]) /\ Src(f)' = [f |-> f, v |-> v - 1] /\ Awaited(f)'
    BY <1>0, <1>4 DEF PendingInv
  <2>1. CASE Covered(f, v)
    BY <1>3, <2>1, CoveredStays
  <2>2. CASE ~Covered(f, v)
    <3>1. Active /\ v = Len(vers[f]) /\ Src(f) = [f |-> f, v |-> v - 1] /\ Awaited(f)
      BY <2>2 DEF SingleInv, PendingInv
    <3>2. f # Module
      BY SetupFacts DEF TypeInv, Funcs, Module
    <3>3. ASSUME k \in {"plain", "chosen"}, ~Exempt(k), f \in FuncsOf(u) PROVE Covered(f, v)'
      <4>1. Active'
        BY <1>3, <3>1, <3>3
      <4>2. Translatable(f)
        BY <3>1 DEF Required, Translatable
      <4>3. Src(f) # NoSrc /\ Src(f) # Current(f)
        BY <1>8, <3>1, <3>2 DEF NoSrc, Current, Module
      <4>4. <<Src(f), Current(f)>> \in checked'
        BY <1>3, <3>3, <4>1, <4>2, <4>3
      <4>5. QED
        BY <3>1, <4>4, LastCovered
    <3>4. CASE Changing("leaf") /\ ~Exempt(Top.kind) /\ f \in FuncsOf(Top.unit)
      <4>1. k \in {"plain", "chosen"} /\ ~Exempt(k) /\ f \in FuncsOf(u)
        BY <3>4, <1>t, <1>u DEF Changing, Exempt
      <4>2. QED
        BY <3>3, <4>1
    <3>5. CASE /\ setup.vanish
               /\ \E i \in 1..Len(stack) : LoopAdaptor(i) /\ stack[i].unit = f /\ LoopsAbove(i, Len(stack))
      <4>1. PICK i \in 1..Len(stack) : LoopAdaptor(i) /\ stack[i].unit = f /\ LoopsAbove(i, Len(stack))
        BY <3>5
      <4>2. /\ Top.unit = f /\ FuncsOf(Top.unit) = {f} /\ Top.kind \in {"plain", "chosen", "nop"}
            /\ i = Len(stack) => Top.kind # "nop"
        BY <1>0, <4>1, ZoneTop
      <4>3. CASE k # "nop"
        <5>1. k \in {"plain", "chosen"} /\ f \in FuncsOf(u)
          BY <1>t, <1>u, <4>2, <4>3
        <5>2. ~Exempt(k)
          BY <3>5, <5>1, LoopNotExempt
        <5>3. QED
          BY <3>3, <5>1, <5>2
      <4>4. CASE k = "nop"
        <5>1. Active'
          BY <1>3, <3>1, <4>4
        <5>2. Src(f)' = Src(f)
          BY <1>3, <3>1, <3>2, <4>4, <5>1 DEF NoSrc, Module
        <5>3. i \in 1..Len(stack) - 1
          BY <1>1, <1>t, <4>2, <4>4
        <5>4. Awaited(f)'
          BY <1>0, <3>5, <4>1, <5>3, PopZone
        <5>5. QED
          BY <3>1, <5>1, <5>2, <5>4
      <4>5. QED
        BY <4>3, <4>4
    <3>6. QED
      BY <3>1, <3>4, <3>5 DEF Awaited
  <2>3. QED
    BY <2>1, <2>2
<1>13. NoCheckSpansUnsupported'
  <2> SUFFICES ASSUME NEW c \in checked', c[1].f = c[2].f, NEW v \in c[1].v + 1..c[2].v
               PROVE  ~Exempt(vers[c[1].f][v].kind)
    BY <1>0, <1>4 DEF NoCheckSpansUnsupported
  <2>1. CASE c \in checked
    BY <2>1 DEF NoCheckSpansUnsupported
  <2>2. CASE c \notin checked
    <3>1. Active'
      BY <1>3, <2>2
    <3>2. PICK f \in FuncsOf(u) : c = <<Src(f), Current(f)>> /\ Src(f) # NoSrc /\ ~Exempt(k)
      BY <1>3, <2>2, <3>1
    <3>3. f \in Funcs /\ Active
      BY <1>3, <1>7, <3>1
    <3>4. c[1].v = Src(f).v /\ c[2].v = Len(vers[f]) /\ c[2].f = f
      BY <3>2 DEF Current
    <3>5. QED
      BY <1>10, <3>2, <3>3, <3>4
  <2>3. QED
    BY <2>1, <2>2
<1>14. QED
  BY <1>9, <1>11, <1>12, <1>13 DEF SingleInv

\* The callback after a loop pass gets lost: its change stays open, and the
\* adaptor around it will see it.
LEMMA SingleLost ==
  ASSUME TypeInv, StackInv, Regular, ~setup.batch, SingleInv, NoCheckSpansUnsupported, LeaveNoLoop
  PROVE  SingleInv' /\ NoCheckSpansUnsupported'
<1>0. /\ setup' = setup /\ vers' = vers /\ UNCHANGED tvVars /\ stack # <<>> /\ Top.loop
      /\ stack' = SubSeq(stack, 1, Len(stack) - 1)
  BY DEF LeaveNoLoop
<1>1. Top.unit \in 0..setup.nfuncs /\ Len(stack) \in Nat \ {0} /\ Len(stack) \in 1..Len(stack) /\ Top = stack[Len(stack)]
  BY <1>0, TopFacts DEF Top
<1>2. /\ (Active' <=> Active) /\ checked' = checked
      /\ \A f : Src(f)' = Src(f)
      /\ \A f, v : Covered(f, v)' <=> Covered(f, v)
  BY <1>0 DEF tvVars, Active, Src, KeyOf, Covered
<1>4. /\ Funcs' = Funcs
      /\ \A k : Exempt(k)' <=> Exempt(k)
      /\ \A f, v : Required(f, v)' <=> Required(f, v)
  BY <1>0, SameFuncs
<1>5. stack' # <<>> => Top'.role \in {"outer", "adaptor"}
  BY <1>0, NextTop
<1>6. FreshInv'
  BY <1>5 DEF FreshInv, Changing
<1>7. SpanInv'
  <2> SUFFICES ASSUME Active, NEW f \in Funcs, Src(f) # NoSrc, NEW v \in Src(f).v + 1..Len(vers[f])
               PROVE  ~Exempt(vers[f][v].kind)
    BY <1>0, <1>2, <1>4 DEF SpanInv, NoSrc
  <2>1. QED
    BY <1>0 DEF SingleInv, SpanInv
<1>8. PendingInv'
  <2> SUFFICES ASSUME NEW f \in Funcs, NEW v \in 2..Len(vers[f]), Required(f, v), ~Covered(f, v)
               PROVE  Active /\ v = Len(vers[f]) /\ Src(f) = [f |-> f, v |-> v - 1] /\ Awaited(f)'
    BY <1>0, <1>2, <1>4 DEF PendingInv
  <2>1. Active /\ v = Len(vers[f]) /\ Src(f) = [f |-> f, v |-> v - 1] /\ Awaited(f)
    BY DEF SingleInv, PendingInv
  <2>2. CASE Changing("leaf") /\ f \in FuncsOf(Top.unit)
    <3>1. setup.vanish /\ Top.unit # Module
      BY <1>0, <1>1 DEF StackInv, LoopKinds
    <3>2. f = Top.unit
      BY <2>2, <3>1 DEF FuncsOf
    <3>3. PICK i \in 1..Len(stack) - 1 : LoopAdaptor(i) /\ LoopsAbove(i, Len(stack))
      BY <1>0, <1>1 DEF StackInv, LoopsNested
    <3>4. Len(stack) \in i + 1..Len(stack)
      BY <1>1
    <3>5. stack[i].unit = f
      BY <1>1, <3>2, <3>3, <3>4 DEF LoopsAbove
    <3>6. QED
      BY <1>0, <2>1, <3>1, <3>3, <3>5, PopZone
  <2>3. CASE /\ setup.vanish
             /\ \E i \in 1..Len(stack) : LoopAdaptor(i) /\ stack[i].unit = f /\ LoopsAbove(i, Len(stack))
    <3>1. PICK i \in 1..Len(stack) : LoopAdaptor(i) /\ stack[i].unit = f /\ LoopsAbove(i, Len(stack))
      BY <2>3
    <3>2. i # Len(stack)
      BY <1>0, <3>1, ZoneTop
    <3>3. i \in 1..Len(stack) - 1
      BY <1>1, <3>2
    <3>4. QED
      BY <1>0, <2>1, <2>3, <3>1, <3>3, PopZone
  <2>4. QED
    BY <2>1, <2>2, <2>3 DEF Awaited
<1>9. NoCheckSpansUnsupported'
  BY <1>0, <1>2, <1>4 DEF NoCheckSpansUnsupported
<1>10. QED
  BY <1>6, <1>7, <1>8, <1>9 DEF SingleInv

\* A pass changes functions of its unit: their entries are up to date, so the
\* callback after the pass will check exactly this change.
LEMMA SingleChange ==
  ASSUME TypeInv, StackInv, SrcInv, CheckedInv, Regular, ~setup.batch, SingleInv, NoCheckSpansUnsupported, Change
  PROVE  SingleInv' /\ NoCheckSpansUnsupported'
<1>0. /\ setup' = setup /\ UNCHANGED tvVars /\ Changing("fresh")
      /\ stack # <<>> /\ stack' = [stack EXCEPT ![Len(stack)].role = "leaf"]
  BY DEF Change, Changing
<1>1. /\ stack' # <<>> /\ Top'.role = "leaf" /\ Top'.kind = Top.kind /\ Top'.unit = Top.unit
      /\ Top'.loop = Top.loop
  BY <1>0, NextTop
<1>2. /\ (Active' <=> Active) /\ checked' = checked
      /\ \A f : Src(f)' = Src(f)
      /\ \A f, v : Covered(f, v)' <=> Covered(f, v)
      /\ Funcs' = Funcs
      /\ \A k : Exempt(k)' <=> Exempt(k)
  BY <1>0 DEF tvVars, Active, Src, KeyOf, Covered, Funcs, Exempt
<1>3. PICK S \in SUBSET FuncsOf(Top.unit) :
        /\ \A f \in Funcs : f \notin S => vers'[f] = vers[f]
        /\ \A f \in S :
             /\ vers'[f] \in Seq(Version) /\ Len(vers'[f]) = Len(vers[f]) + 1
             /\ \A v \in 1..Len(vers[f]) : vers'[f][v] = vers[f][v]
             /\ vers'[f][Len(vers[f]) + 1].kind = Top.kind
             /\ vers'[f][Len(vers[f]) + 1].live => ~dont_verify /\ ~is_clangtv_done
  BY ChangeFacts
<1>t. PICK k \in PassKinds : k = Top.kind
  BY <1>0, TopFacts
<1>u. PICK u \in 0..setup.nfuncs : u = Top.unit
  BY <1>0, TopFacts
<1>4. FuncsOf(u)' = FuncsOf(u) /\ S \subseteq FuncsOf(u) /\ FuncsOf(u) \subseteq Funcs
  BY <1>0, <1>3, <1>u, UnitFacts DEF FuncsOf, Funcs, TypeInv
<1>5. \A f \in Funcs : Len(vers[f]) \in Nat /\ Len(vers[f]) >= 1
  BY LenProperties DEF TypeInv
<1>6. ASSUME NEW f \in Funcs, NEW v \in 1..Len(vers'[f])
      PROVE  \/ v \in 1..Len(vers[f]) /\ vers'[f][v] = vers[f][v]
             \/ f \in S /\ v = Len(vers[f]) + 1 /\ vers'[f][v].kind = k /\ (vers'[f][v].live => Active)
  <2>1. CASE f \in S
    BY <1>3, <1>5, <1>t, <2>1 DEF Active
  <2>2. CASE f \notin S
    BY <1>3, <2>2
  <2>3. QED
    BY <2>1, <2>2
<1>7. Changing("leaf")' /\ Top'.kind = k /\ Top'.unit = u
  BY <1>0, <1>1, <1>t, <1>u DEF Changing
<1>8. FreshInv'
  BY <1>1 DEF FreshInv, Changing
<1>9. ~Top.loop \/ ~Exempt(k)
  <2>1. CASE Top.loop
    <3>1. Len(stack) \in 1..Len(stack)
      BY <1>0, TopFacts
    <3>2. setup.vanish /\ k # "unsupported"
      BY <1>t, <2>1, <3>1 DEF StackInv, LoopKinds, Top
    <3>3. QED
      BY <3>2, LoopNotExempt
  <2>2. QED
    BY <2>1
<1>10. SpanInv'
  <2> SUFFICES ASSUME Active, NEW f \in Funcs, Src(f) # NoSrc, NEW v \in Src(f).v + 1..Len(vers'[f]),
                      Exempt(vers'[f][v].kind)
               PROVE  ~Top'.loop /\ Exempt(k) /\ f \in FuncsOf(u)
    <3>1. NoSrc' = NoSrc
      BY DEF NoSrc
    <3>2. QED
      BY <1>2, <1>4, <1>7, <3>1 DEF SpanInv
  <2>1. Src(f).v \in 1..Len(vers[f])
    BY DEF SrcInv
  <2>2. v \in 1..Len(vers'[f])
    BY <1>5, <2>1
  <2>3. CASE v \in 1..Len(vers[f]) /\ vers'[f][v] = vers[f][v]
    <3>1. v \in Src(f).v + 1..Len(vers[f])
      BY <2>3
    <3>2. Changing("leaf")
      BY <2>3, <3>1 DEF SingleInv, SpanInv
    <3>3. QED
      BY <1>0, <3>2 DEF Changing
  <2>4. CASE f \in S /\ vers'[f][v].kind = k
    BY <1>1, <1>4, <1>9, <2>4
  <2>5. QED
    BY <1>6, <2>2, <2>3, <2>4
<1>11. ASSUME NEW f \in Funcs, NEW v \in 2..Len(vers[f]), Required(f, v) PROVE Covered(f, v)
  <2>1. ~Awaited(f)
    BY <1>0 DEF Awaited, Changing
  <2>2. QED
    BY <1>11, <2>1 DEF SingleInv, PendingInv
<1>12. PendingInv'
  <2> SUFFICES ASSUME NEW f \in Funcs, NEW v \in 2..Len(vers'[f]), Required(f, v)'
               PROVE  \/ Covered(f, v)
                      \/ Active /\ v = Len(vers'[f]) /\ Src(f) = [f |-> f, v |-> v - 1] /\ Awaited(f)'
    BY <1>2 DEF PendingInv
  <2>1. /\ vers'[f][v].live /\ ~Exempt(vers'[f][v].kind) /\ vers'[f][v].ok /\ vers'[f][v - 1].ok
    BY <1>2 DEF Required
  <2>2. v \in 1..Len(vers'[f]) /\ v - 1 \in 1..Len(vers'[f]) /\ v \in Nat
    OBVIOUS
  <2>3. CASE v \in 1..Len(vers[f]) /\ vers'[f][v] = vers[f][v]
    <3>1. v \in 2..Len(vers[f]) /\ v - 1 # Len(vers[f]) + 1
      BY <1>5, <2>3
    <3>2. vers'[f][v - 1] = vers[f][v - 1]
      BY <1>6, <2>2, <3>1
    <3>3. Required(f, v)
      BY <2>1, <2>3, <3>2 DEF Required
    <3>4. QED
      BY <1>11, <3>1, <3>3
  <2>4. CASE f \in S /\ v = Len(vers[f]) + 1 /\ vers'[f][v].kind = k /\ (vers'[f][v].live => Active)
    <3>1. f \in FuncsOf(u) /\ Active /\ ~Exempt(k) /\ v = Len(vers'[f])
      BY <1>3, <1>4, <2>1, <2>4
    <3>2. v - 1 = Len(vers[f]) /\ Len(vers[f]) \in 1..Len(vers[f])
      BY <1>5, <2>4
    <3>3. vers'[f][v - 1] = vers[f][v - 1]
      BY <1>3, <2>4, <3>2
    <3>4. Translatable(f)
      BY <2>1, <3>2, <3>3 DEF Translatable
    <3>5. Src(f) = Current(f)
      BY <1>0, <1>u, <3>1, <3>4 DEF SingleInv, FreshInv
    <3>6. Src(f) = [f |-> f, v |-> v - 1]
      BY <3>2, <3>5 DEF Current
    <3>7. Awaited(f)'
      BY <1>2, <1>4, <1>7, <3>1 DEF Awaited
    <3>8. QED
      BY <3>1, <3>6, <3>7
  <2>5. QED
    BY <1>6, <2>2, <2>3, <2>4
<1>13. NoCheckSpansUnsupported'
  <2> SUFFICES ASSUME NEW c \in checked, c[1].f = c[2].f, NEW v \in c[1].v + 1..c[2].v
               PROVE  ~Exempt(vers'[c[1].f][v].kind)
    BY <1>2 DEF NoCheckSpansUnsupported
  <2>1. PICK f \in Funcs : \E x, w \in 1..Len(vers[f]) : x < w /\ c = <<[f |-> f, v |-> x], [f |-> f, v |-> w]>>
    BY DEF CheckedInv
  <2>2. c[1].f = f /\ c[1].v \in 1..Len(vers[f]) /\ c[2].v \in 1..Len(vers[f])
    BY <2>1
  <2>3. v \in 1..Len(vers[f])
    BY <1>5, <2>2
  <2>4. vers'[f][v] = vers[f][v]
    BY <1>3, <2>3
  <2>5. QED
    BY <2>2, <2>4 DEF NoCheckSpansUnsupported
<1>14. QED
  BY <1>8, <1>10, <1>12, <1>13 DEF SingleInv

\* The finalize pass: nothing is left open, as it changes nothing itself.
LEMMA SingleFinalize ==
  ASSUME TypeInv, StackInv, Regular, ~setup.batch, SingleInv, NoCheckSpansUnsupported, Finalize
  PROVE  SingleInv' /\ NoCheckSpansUnsupported'
<1>0. /\ setup' = setup /\ vers' = vers /\ checked' = checked /\ is_clangtv_done' = TRUE
      /\ stack # <<>> /\ Top.kind = "finalize"
  BY DEF Finalize, NoRun
<1>1. /\ ~Active'
      /\ \A f, v : Covered(f, v)' <=> Covered(f, v)
      /\ Funcs' = Funcs
      /\ \A k : Exempt(k)' <=> Exempt(k)
      /\ \A f, v : Required(f, v)' <=> Required(f, v)
  BY <1>0, SameFuncs DEF Active, Covered
<1>2. ASSUME NEW f \in Funcs PROVE ~Awaited(f)
  <2>1. ~Changing("leaf")
    BY <1>0 DEF Changing
  <2>2. ASSUME NEW i \in 1..Len(stack), LoopAdaptor(i), stack[i].unit = f, LoopsAbove(i, Len(stack)) PROVE FALSE
    BY <1>0, <2>2, ZoneTop
  <2>3. QED
    BY <2>1, <2>2 DEF Awaited
<1>3. PendingInv'
  BY <1>0, <1>1, <1>2 DEF SingleInv, PendingInv
<1>4. NoCheckSpansUnsupported'
  BY <1>0, <1>1 DEF NoCheckSpansUnsupported
<1>5. QED
  BY <1>1, <1>3, <1>4 DEF SingleInv, FreshInv, SpanInv
-----------------------------------------------------------------------------
(* With batching *)

\* A batch is open exactly while supported passes run; the plugin knows the
\* kind of the pass before.
BatchControl ==
  /\ Len(stack) <= 1
  /\ stack # <<>> => ~Top.loop
  /\ is_clangtv_done => ~batch_started
  /\ ~is_clangtv_done =>
       IF stack # <<>> THEN batch_started <=> Top.kind # "unsupported"
       ELSE IF pass_name = NoName THEN ~batch_started /\ started = 0
       ELSE batch_started <=> pass_name # "unsupported"

\* An open batch spans no unsupported change.
BatchSpan ==
  ~is_clangtv_done /\ batch_started =>
    \A f \in Funcs : Src(f) # NoSrc => \A v \in Src(f).v + 1..Len(vers[f]) : ~Exempt(vers[f][v].kind)

\* llvm2alive understands all versions of f.
AllOk(f) == \A v \in 1..Len(vers[f]) : vers[f][v].ok

\* Everything before the open batch is covered; without one, everything is.
BatchCovered ==
  \A f \in Funcs : AllOk(f) =>
    /\ ~is_clangtv_done /\ batch_started => Src(f) # NoSrc
    /\ \A v \in 2..Len(vers[f]) :
         vers[f][v].live /\ ~Exempt(vers[f][v].kind) =>
           Covered(f, v) \/ (~is_clangtv_done /\ batch_started /\ v > Src(f).v)

\* The inductive invariant with batching.
BatchInv == BatchControl /\ BatchSpan /\ BatchCovered

-----------------------------------------------------------------------------
(* Proofs about pipelines with batching *)

\* The visit that opens a batch: every entry moves to the current version, and
\* nothing is checked.
LEMMA OpenFacts ==
  ASSUME TypeInv, OneAnon, setup' = setup, ~batch_started, RunBatch
  PROVE  /\ batch_started' /\ checked' = checked
         /\ \A f \in Funcs : Src(f)' = IF Translatable(f) THEN Current(f) ELSE NoSrc
<1> DEFINE fl == Flags(TRUE, FALSE, FALSE)
<1>1. RunOn(fl, Module) /\ batch_started'
  BY DEF RunBatch
<1>2. Module \in 0..setup.nfuncs /\ FuncsOf(Module) = Funcs
  BY SetupFacts DEF TypeInv, Module, FuncsOf
<1>3. fl.unsupported = TRUE /\ fl.nop = FALSE /\ fl.onlyif = FALSE
  BY DEF Flags
<1> HIDE DEF fl
<1>4. /\ \A f \in Funcs : Src(f)' = SrcAfter(fl, Src(f), f)
      /\ checked' = checked \cup
           {<<Src(f), Current(f)>> : f \in {g \in Funcs : Verifies(fl, Src(g), g)}}
  BY <1>1, <1>2, VisitFacts
<1>5. \A f : ~Verifies(fl, Src(f), f)
  BY <1>3 DEF Verifies
<1>6. \A f : SrcAfter(fl, Src(f), f) = IF Translatable(f) THEN Current(f) ELSE NoSrc
  BY <1>3 DEF SrcAfter
<1>7. QED
  BY <1>1, <1>4, <1>5, <1>6

\* The visit that closes a batch: every function that has an entry and has
\* changed is checked against it.
LEMMA CloseFacts ==
  ASSUME TypeInv, OneAnon, setup' = setup, batch_started, RunBatch
  PROVE  /\ ~batch_started' /\ checked \subseteq checked'
         /\ \A c \in checked' : c \in checked \/
              \E f \in Funcs : c = <<Src(f), Current(f)>> /\ Src(f) # NoSrc
         /\ \A f \in Funcs : Src(f) # NoSrc /\ Translatable(f) /\ Src(f) # Current(f)
              => <<Src(f), Current(f)>> \in checked'
<1> DEFINE fl == Flags(FALSE, FALSE, TRUE)
<1>1. RunOn(fl, Module) /\ ~batch_started'
  BY DEF RunBatch
<1>2. Module \in 0..setup.nfuncs /\ FuncsOf(Module) = Funcs
  BY SetupFacts DEF TypeInv, Module, FuncsOf
<1>3. fl.unsupported = FALSE /\ fl.nop = FALSE
  BY DEF Flags
<1> HIDE DEF fl
<1>4. checked' = checked \cup
        {<<Src(f), Current(f)>> : f \in {g \in Funcs : Verifies(fl, Src(g), g)}}
  BY <1>1, <1>2, VisitFacts
<1>5. \A f : Verifies(fl, Src(f), f) <=> Src(f) # NoSrc /\ Translatable(f) /\ Src(f) # Current(f)
  BY <1>3 DEF Verifies
<1>6. QED
  BY <1>1, <1>4, <1>5

\* Opening a batch.
LEMMA BatchOpens ==
  ASSUME TypeInv, OneAnon, setup.batch, BatchSpan, BatchCovered, NoCheckSpansUnsupported,
         setup' = setup, vers' = vers, is_clangtv_done' = is_clangtv_done, ~batch_started, RunBatch
  PROVE  BatchSpan' /\ BatchCovered' /\ NoCheckSpansUnsupported'
<1>1. /\ batch_started' /\ checked' = checked
      /\ \A f \in Funcs : Src(f)' = IF Translatable(f) THEN Current(f) ELSE NoSrc
  BY OpenFacts
<1>2. /\ Funcs' = Funcs /\ (\A k : Exempt(k)' <=> Exempt(k)) /\ NoSrc' = NoSrc
      /\ \A f, v : Covered(f, v)' <=> Covered(f, v)
      /\ \A f : AllOk(f)' <=> AllOk(f)
  BY <1>1, SameFuncs DEF Covered, AllOk, NoSrc
<1>3. \A f \in Funcs : Len(vers[f]) \in Nat /\ Len(vers[f]) >= 1
  BY LenProperties DEF TypeInv
<1>4. ASSUME NEW f \in Funcs PROVE Current(f).v = Len(vers[f]) /\ Current(f) # NoSrc
  BY <1>3 DEF Current, NoSrc
<1>5. BatchSpan'
  <2> SUFFICES ASSUME NEW f \in Funcs, Src(f)' # NoSrc, NEW v \in Src(f)'.v + 1..Len(vers[f])
               PROVE  ~Exempt(vers[f][v].kind)
    BY <1>2 DEF BatchSpan
  <2>1. Src(f)'.v = Len(vers[f])
    BY <1>1, <1>4
  <2>2. QED
    BY <1>3, <2>1
<1>6. BatchCovered'
  <2> SUFFICES ASSUME NEW f \in Funcs, AllOk(f)
               PROVE  /\ Src(f)' # NoSrc
                      /\ \A v \in 2..Len(vers[f]) :
                           vers[f][v].live /\ ~Exempt(vers[f][v].kind) => Covered(f, v)
    BY <1>2 DEF BatchCovered
  <2>1. Translatable(f)
    BY <1>3 DEF AllOk, Translatable
  <2>2. Src(f)' # NoSrc
    BY <1>1, <1>4, <2>1
  <2>3. QED
    BY <2>2 DEF BatchCovered
<1>7. NoCheckSpansUnsupported'
  BY <1>1, <1>2 DEF NoCheckSpansUnsupported
<1>8. QED
  BY <1>5, <1>6, <1>7

\* Closing a batch: the check spans what the batch changed, and no more.
LEMMA BatchCloses ==
  ASSUME TypeInv, OneAnon, SrcInv, setup.batch, BatchSpan, BatchCovered, NoCheckSpansUnsupported,
         setup' = setup, vers' = vers, ~is_clangtv_done, batch_started, RunBatch
  PROVE  BatchSpan' /\ BatchCovered' /\ NoCheckSpansUnsupported'
<1>1. /\ ~batch_started' /\ checked \subseteq checked'
      /\ \A c \in checked' : c \in checked \/
           \E f \in Funcs : c = <<Src(f), Current(f)>> /\ Src(f) # NoSrc
      /\ \A f \in Funcs : Src(f) # NoSrc /\ Translatable(f) /\ Src(f) # Current(f)
           => <<Src(f), Current(f)>> \in checked'
  BY CloseFacts
<1>2. /\ Funcs' = Funcs /\ (\A k : Exempt(k)' <=> Exempt(k))
      /\ \A f : AllOk(f)' <=> AllOk(f)
  BY SameFuncs DEF AllOk
<1>3. \A f \in Funcs : Len(vers[f]) \in Nat /\ Len(vers[f]) >= 1
  BY LenProperties DEF TypeInv
<1>4. BatchSpan'
  BY <1>1 DEF BatchSpan
<1>5. BatchCovered'
  <2> SUFFICES ASSUME NEW f \in Funcs, AllOk(f), NEW v \in 2..Len(vers[f]),
                      vers[f][v].live, ~Exempt(vers[f][v].kind)
               PROVE  Covered(f, v)'
    BY <1>1, <1>2 DEF BatchCovered
  <2>1. CASE Covered(f, v)
    BY <1>1, <2>1, CoveredStays
  <2>2. CASE Src(f) # NoSrc /\ v > Src(f).v
    <3>1. PICK x \in 1..Len(vers[f]) : Src(f) = [f |-> f, v |-> x]
      BY <2>2 DEF SrcInv
    <3>2. x < v /\ v <= Len(vers[f]) /\ x # Len(vers[f])
      BY <1>3, <2>2, <3>1
    <3>3. Src(f) # Current(f)
      BY <3>1, <3>2 DEF Current
    <3>4. Translatable(f)
      BY <1>3 DEF AllOk, Translatable
    <3>5. <<Src(f), Current(f)>> \in checked'
      BY <1>1, <2>2, <3>3, <3>4
    <3>6. Current(f) = [f |-> f, v |-> Len(vers[f])]
      BY DEF Current
    <3> DEFINE c == <<[f |-> f, v |-> x], [f |-> f, v |-> Len(vers[f])]>>
    <3>7. c \in checked' /\ c[1].f = f /\ c[2].f = f /\ c[1].v = x /\ c[2].v = Len(vers[f])
      BY <3>1, <3>5, <3>6
    <3> HIDE DEF c
    <3>8. \E d \in checked' : d[1].f = f /\ d[2].f = f /\ d[1].v < v /\ v <= d[2].v
      BY <3>2, <3>7
    <3>9. QED
      BY <3>8 DEF Covered
  <2>3. QED
    BY <2>1, <2>2 DEF BatchCovered
<1>6. NoCheckSpansUnsupported'
  <2> SUFFICES ASSUME NEW c \in checked', c[1].f = c[2].f, NEW v \in c[1].v + 1..c[2].v
               PROVE  ~Exempt(vers[c[1].f][v].kind)
    BY <1>2 DEF NoCheckSpansUnsupported
  <2>1. CASE c \in checked
    BY <2>1 DEF NoCheckSpansUnsupported
  <2>2. CASE \E f \in Funcs : c = <<Src(f), Current(f)>> /\ Src(f) # NoSrc
    <3>1. PICK f \in Funcs : c = <<Src(f), Current(f)>> /\ Src(f) # NoSrc
      BY <2>2
    <3>2. c[1].v = Src(f).v /\ c[2].v = Len(vers[f]) /\ c[2].f = f
      BY <3>1 DEF Current
    <3>3. QED
      BY <3>1, <3>2 DEF BatchSpan
  <2>3. QED
    BY <1>1, <2>1, <2>2
<1>7. QED
  BY <1>4, <1>5, <1>6

\* A step that visits nothing and changes nothing.
LEMMA BatchStays ==
  ASSUME TypeInv, BatchSpan, BatchCovered, NoCheckSpansUnsupported,
         setup' = setup, vers' = vers, fns' = fns, checked' = checked, batch_started' = batch_started,
         is_clangtv_done' = is_clangtv_done \/ ~batch_started
  PROVE  BatchSpan' /\ BatchCovered' /\ NoCheckSpansUnsupported'
<1>1. /\ Funcs' = Funcs /\ (\A k : Exempt(k)' <=> Exempt(k)) /\ NoSrc' = NoSrc
      /\ \A f, v : Covered(f, v)' <=> Covered(f, v)
      /\ \A f : AllOk(f)' <=> AllOk(f)
      /\ \A f : Src(f)' = Src(f)
  BY SameFuncs DEF Covered, AllOk, NoSrc, Src, KeyOf
<1>2. (~is_clangtv_done' /\ batch_started') <=> (~is_clangtv_done /\ batch_started)
  BY DEF TypeInv
<1>3. BatchSpan'
  BY <1>1, <1>2 DEF BatchSpan
<1>4. BatchCovered'
  BY <1>1, <1>2 DEF BatchCovered
<1>5. NoCheckSpansUnsupported'
  BY <1>1 DEF NoCheckSpansUnsupported
<1>6. QED
  BY <1>3, <1>4, <1>5

\* A new pass with batching: nothing runs, and the batch is opened or closed at
\* the boundary between supported and unsupported passes.
LEMMA BatchEnter ==
  ASSUME TypeInv, SrcInv, Regular, setup.batch, BatchInv, NoCheckSpansUnsupported,
         NEW p \in NewPasses, Enter(p)
  PROVE  BatchInv' /\ NoCheckSpansUnsupported'
<1>0. /\ setup' = setup /\ vers' = vers /\ is_clangtv_done' = is_clangtv_done /\ OneAnon
      /\ started = 0 => p.kind \in setup.first
      /\ stack = <<>> => ~p.loop
      /\ IF ~is_clangtv_done /\ AtBoundary(p.kind) THEN RunBatch ELSE NoRun
      /\ batch_started \in BOOLEAN
  BY DEF Enter, BatchBefore, Regular, TypeInv
<1>1. stack = <<>> /\ Len(stack) = 0
  <2>1. Len(stack) < setup.maxDepth /\ setup.maxDepth <= 1 /\ setup.maxDepth \in Nat /\ Len(stack) \in Nat
    BY TVPluginAssumption, LenProperties DEF Enter, Regular, TypeInv
  <2>2. Len(stack) = 0
    BY <2>1
  <2>3. QED
    BY <2>2, TopFacts
<1>2. Top' = p /\ stack' # <<>> /\ Len(stack') = 1
  BY <1>1, NextTop, PushFacts
<1>3. started = 0 => p.kind # "unsupported"
  BY <1>0 DEF Regular
<1>4. ~is_clangtv_done =>
        IF pass_name = NoName THEN ~batch_started /\ started = 0 ELSE batch_started <=> pass_name # "unsupported"
  BY <1>1 DEF BatchInv, BatchControl
<1>5. CASE ~is_clangtv_done /\ AtBoundary(p.kind) /\ ~batch_started
  <2>1. RunBatch /\ batch_started'
    BY <1>0, <1>5 DEF RunBatch
  <2>2. p.kind # "unsupported"
    BY <1>3, <1>4, <1>5 DEF AtBoundary, is_unsupported_pass
  <2>3. BatchControl'
    BY <1>0, <1>1, <1>2, <1>5, <2>1, <2>2 DEF BatchControl
  <2>4. QED
    BY <1>0, <1>5, <2>1, <2>3, BatchOpens DEF BatchInv
<1>6. CASE ~is_clangtv_done /\ AtBoundary(p.kind) /\ batch_started
  <2>1. RunBatch /\ ~batch_started'
    BY <1>0, <1>6 DEF RunBatch
  <2>2. p.kind = "unsupported"
    BY <1>4, <1>6 DEF AtBoundary, is_unsupported_pass
  <2>3. BatchControl'
    BY <1>0, <1>1, <1>2, <2>1, <2>2 DEF BatchControl
  <2>4. QED
    BY <1>0, <1>6, <2>1, <2>3, BatchCloses DEF BatchInv
<1>7. CASE is_clangtv_done \/ ~AtBoundary(p.kind)
  <2>1. NoRun
    BY <1>0, <1>7
  <2>2. fns' = fns /\ checked' = checked /\ batch_started' = batch_started
    BY <2>1 DEF NoRun
  <2>3. ~is_clangtv_done => (batch_started <=> p.kind # "unsupported")
    BY <1>0, <1>4, <1>7 DEF AtBoundary, is_unsupported_pass
  <2>4. BatchControl'
    BY <1>0, <1>1, <1>2, <2>2, <2>3 DEF BatchInv, BatchControl
  <2>5. QED
    BY <1>0, <2>2, <2>4, BatchStays DEF BatchInv
<1>8. QED
  BY <1>0, <1>5, <1>6, <1>7

\* The callback after a pass with batching only notes which pass it was.
LEMMA BatchLeave ==
  ASSUME TypeInv, setup.batch, BatchInv, NoCheckSpansUnsupported, Leave
  PROVE  BatchInv' /\ NoCheckSpansUnsupported'
<1>0. /\ setup' = setup /\ vers' = vers /\ is_clangtv_done' = is_clangtv_done /\ stack # <<>>
      /\ stack' = SubSeq(stack, 1, Len(stack) - 1) /\ pass_name' = Top.kind
      /\ fns' = fns /\ checked' = checked /\ batch_started' = batch_started
  BY DEF Leave, BatchAfter, NoRun
<1>1. /\ stack' \in Seq(Passes) /\ Len(stack') = Len(stack) - 1 /\ Len(stack) \in Nat \ {0}
      /\ Top.kind \in PassKinds
  BY <1>0, PopFacts, TopFacts
<1>2. Len(stack') = 0
  BY <1>1 DEF BatchInv, BatchControl
<1>3. stack' = <<>>
  BY <1>1, <1>2, EmptySeq
<1>4. Top.kind # NoName
  BY <1>1 DEF PassKinds, NoName
<1>5. BatchControl'
  <2>1. Len(stack') <= 1
    BY <1>2
  <2>2. IF is_clangtv_done THEN ~batch_started ELSE batch_started <=> Top.kind # "unsupported"
    BY <1>0 DEF BatchInv, BatchControl
  <2>3. NoName' = NoName
    BY DEF NoName
  <2>4. QED
    BY <1>0, <1>3, <1>4, <2>1, <2>2, <2>3 DEF BatchControl
<1>6. QED
  BY <1>0, <1>5, BatchStays DEF BatchInv

\* The finalize pass closes the batch that is open.
LEMMA BatchFinalize ==
  ASSUME TypeInv, SrcInv, Regular, setup.batch, BatchInv, NoCheckSpansUnsupported, Finalize
  PROVE  BatchInv' /\ NoCheckSpansUnsupported'
<1>0. /\ setup' = setup /\ vers' = vers /\ is_clangtv_done' = TRUE /\ stack # <<>>
      /\ stack' = [stack EXCEPT ![Len(stack)].role = "leaf"] /\ pass_name' = pass_name
      /\ IF batch_started THEN RunBatch ELSE NoRun
      /\ batch_started \in BOOLEAN /\ is_clangtv_done \in BOOLEAN /\ OneAnon
  BY DEF Finalize, Regular, TypeInv
<1>1. Len(stack') = Len(stack) /\ stack' # <<>> /\ Top'.loop = Top.loop
  BY <1>0, MarkFacts, NextTop
<1>2. BatchControl'
  <2>1. ~batch_started'
    BY <1>0 DEF RunBatch, NoRun
  <2>2. QED
    BY <1>0, <1>1, <2>1 DEF BatchInv, BatchControl
<1>3. CASE batch_started /\ ~is_clangtv_done
  BY <1>0, <1>2, <1>3, BatchCloses DEF BatchInv
<1>4. CASE ~batch_started
  <2>1. fns' = fns /\ checked' = checked /\ batch_started' = batch_started
    BY <1>0, <1>4 DEF NoRun
  <2>2. QED
    BY <1>0, <1>2, <1>4, <2>1, BatchStays DEF BatchInv
<1>5. QED
  BY <1>0, <1>3, <1>4 DEF BatchInv, BatchControl

\* A change with batching: in an open batch it is by a supported pass and will
\* be covered when the batch is closed; outside it is nothing to check.
LEMMA BatchChange ==
  ASSUME TypeInv, SrcInv, CheckedInv, setup.batch, BatchInv, NoCheckSpansUnsupported, Change
  PROVE  BatchInv' /\ NoCheckSpansUnsupported'
<1>0. /\ setup' = setup /\ UNCHANGED tvVars /\ stack # <<>>
      /\ stack' = [stack EXCEPT ![Len(stack)].role = "leaf"]
  BY DEF Change
<1>1. /\ Len(stack') = Len(stack) /\ stack' # <<>> /\ Top'.kind = Top.kind /\ Top'.loop = Top.loop
  BY <1>0, MarkFacts, NextTop
<1>2. /\ batch_started' = batch_started /\ is_clangtv_done' = is_clangtv_done /\ checked' = checked
      /\ \A f : Src(f)' = Src(f)
      /\ \A f, v : Covered(f, v)' <=> Covered(f, v)
      /\ Funcs' = Funcs
      /\ \A k : Exempt(k)' <=> Exempt(k)
  BY <1>0 DEF tvVars, Src, KeyOf, Covered, Funcs, Exempt
<1>3. PICK S \in SUBSET FuncsOf(Top.unit) :
        /\ \A f \in Funcs : f \notin S => vers'[f] = vers[f]
        /\ \A f \in S :
             /\ vers'[f] \in Seq(Version) /\ Len(vers'[f]) = Len(vers[f]) + 1
             /\ \A v \in 1..Len(vers[f]) : vers'[f][v] = vers[f][v]
             /\ vers'[f][Len(vers[f]) + 1].kind = Top.kind
             /\ vers'[f][Len(vers[f]) + 1].live => ~dont_verify /\ ~is_clangtv_done
  BY ChangeFacts
<1>t. PICK k \in PassKinds : k = Top.kind
  BY <1>0, TopFacts
<1>5. \A f \in Funcs : Len(vers[f]) \in Nat /\ Len(vers[f]) >= 1
  BY LenProperties DEF TypeInv
<1>6. ASSUME NEW f \in Funcs, NEW v \in 1..Len(vers'[f])
      PROVE  \/ v \in 1..Len(vers[f]) /\ vers'[f][v] = vers[f][v]
             \/ v = Len(vers[f]) + 1 /\ vers'[f][v].kind = k /\ (vers'[f][v].live => ~is_clangtv_done)
  <2>1. CASE f \in S
    BY <1>3, <1>5, <1>t, <2>1
  <2>2. CASE f \notin S
    BY <1>3, <2>2
  <2>3. QED
    BY <2>1, <2>2
<1>7. ASSUME NEW f \in Funcs, NEW v \in 1..Len(vers[f]) PROVE vers'[f][v] = vers[f][v] /\ v \in 1..Len(vers'[f])
  <2>1. CASE f \in S
    BY <1>3, <1>5, <2>1
  <2>2. CASE f \notin S
    BY <1>3, <2>2
  <2>3. QED
    BY <2>1, <2>2
<1>8. ~is_clangtv_done => (batch_started <=> k # "unsupported")
  BY <1>0, <1>t DEF BatchInv, BatchControl
<1>9. Exempt(k) <=> k = "unsupported"
  BY DEF Exempt
<1>10. BatchControl'
  BY <1>0, <1>1, <1>2 DEF BatchInv, BatchControl
<1>11. BatchSpan'
  <2> SUFFICES ASSUME ~is_clangtv_done, batch_started, NEW f \in Funcs, Src(f) # NoSrc,
                      NEW v \in Src(f).v + 1..Len(vers'[f])
               PROVE  ~Exempt(vers'[f][v].kind)
    <3>1. NoSrc' = NoSrc
      BY DEF NoSrc
    <3>2. QED
      BY <1>2, <3>1 DEF BatchSpan
  <2>1. Src(f).v \in 1..Len(vers[f])
    BY DEF SrcInv
  <2>2. v \in 1..Len(vers'[f])
    BY <1>5, <2>1
  <2>3. CASE v \in 1..Len(vers[f]) /\ vers'[f][v] = vers[f][v]
    <3>1. v \in Src(f).v + 1..Len(vers[f])
      BY <2>3
    <3>2. QED
      BY <2>3, <3>1 DEF BatchInv, BatchSpan
  <2>4. CASE vers'[f][v].kind = k
    BY <1>8, <1>9, <2>4
  <2>5. QED
    BY <1>6, <2>2, <2>3, <2>4
<1>12. BatchCovered'
  <2> SUFFICES ASSUME NEW f \in Funcs, AllOk(f)'
               PROVE  /\ ~is_clangtv_done /\ batch_started => Src(f) # NoSrc
                      /\ \A v \in 2..Len(vers'[f]) :
                           vers'[f][v].live /\ ~Exempt(vers'[f][v].kind) =>
                             Covered(f, v) \/ (~is_clangtv_done /\ batch_started /\ v > Src(f).v)
    <3>1. NoSrc' = NoSrc
      BY DEF NoSrc
    <3>2. QED
      BY <1>2, <3>1 DEF BatchCovered
  <2>1. AllOk(f)
    BY <1>7 DEF AllOk
  <2>2. ~is_clangtv_done /\ batch_started => Src(f) # NoSrc
    BY <2>1 DEF BatchInv, BatchCovered
  <2>3. ASSUME NEW v \in 2..Len(vers'[f]), vers'[f][v].live, ~Exempt(vers'[f][v].kind)
        PROVE  Covered(f, v) \/ (~is_clangtv_done /\ batch_started /\ v > Src(f).v)
    <3>1. v \in 1..Len(vers'[f])
      OBVIOUS
    <3>2. CASE v \in 1..Len(vers[f]) /\ vers'[f][v] = vers[f][v]
      <4>1. v \in 2..Len(vers[f])
        BY <3>2
      <4>2. QED
        BY <2>1, <2>3, <3>2, <4>1 DEF BatchInv, BatchCovered
    <3>3. CASE v = Len(vers[f]) + 1 /\ vers'[f][v].kind = k /\ ~is_clangtv_done
      <4>1. batch_started
        BY <1>8, <1>9, <2>3, <3>3
      <4>2. Src(f).v \in 1..Len(vers[f])
        BY <2>2, <3>3, <4>1 DEF SrcInv
      <4>3. v > Src(f).v
        BY <1>5, <3>3, <4>2
      <4>4. QED
        BY <3>3, <4>1, <4>3
    <3>4. QED
      BY <1>6, <2>3, <3>1, <3>2, <3>3
  <2>4. QED
    BY <2>2, <2>3
<1>13. NoCheckSpansUnsupported'
  <2> SUFFICES ASSUME NEW c \in checked, c[1].f = c[2].f, NEW v \in c[1].v + 1..c[2].v
               PROVE  ~Exempt(vers'[c[1].f][v].kind)
    BY <1>2 DEF NoCheckSpansUnsupported
  <2>1. PICK f \in Funcs : \E x, w \in 1..Len(vers[f]) : x < w /\ c = <<[f |-> f, v |-> x], [f |-> f, v |-> w]>>
    BY DEF CheckedInv
  <2>2. c[1].f = f /\ c[1].v \in 1..Len(vers[f]) /\ c[2].v \in 1..Len(vers[f])
    BY <2>1
  <2>3. v \in 1..Len(vers[f])
    BY <1>5, <2>2
  <2>4. vers'[f][v] = vers[f][v]
    BY <1>7, <2>3
  <2>5. QED
    BY <2>2, <2>4 DEF NoCheckSpansUnsupported
<1>14. QED
  BY <1>10, <1>11, <1>12, <1>13 DEF BatchInv

-----------------------------------------------------------------------------
(* The two results about which changes are checked *)

\* What holds in every pipeline the plugin follows exactly.
PluginInv ==
  /\ SrcInv /\ CheckedInv /\ NoCheckSpansUnsupported
  /\ IF setup.batch THEN BatchInv ELSE SingleInv

\* Every step keeps PluginInv.
LEMMA PluginStep ==
  ASSUME TypeInv, TypeInv', StackInv, Regular, PluginInv, [Next]_vars
  PROVE  PluginInv'
<1>1. setup' = setup /\ OneAnon /\ SrcInv /\ CheckedInv /\ NoCheckSpansUnsupported
  BY StepFacts DEF PluginInv, Regular
<1>2. SrcInv' /\ CheckedInv'
  BY <1>1, SrcStep
<1>3. CASE setup.batch
  <2>1. BatchInv
    BY <1>3 DEF PluginInv
  <2>2. CASE \E p \in NewPasses : Enter(p)
    BY <1>1, <1>2, <1>3, <2>1, <2>2, BatchEnter DEF PluginInv
  <2>3. CASE Change
    BY <1>1, <1>2, <1>3, <2>1, <2>3, BatchChange DEF PluginInv
  <2>4. CASE Finalize
    BY <1>1, <1>2, <1>3, <2>1, <2>4, BatchFinalize DEF PluginInv
  <2>5. CASE Leave
    BY <1>1, <1>2, <1>3, <2>1, <2>5, BatchLeave DEF PluginInv
  <2>6. CASE LeaveNoLoop
    BY <2>1, <2>6 DEF LeaveNoLoop, BatchInv, BatchControl
  <2>7. CASE UNCHANGED vars
    <3>1. BatchSpan' /\ BatchCovered' /\ NoCheckSpansUnsupported'
      BY <1>1, <2>1, <2>7, BatchStays DEF vars, tvVars, BatchInv
    <3>2. BatchControl'
      BY <2>1, <2>7 DEF vars, tvVars, BatchInv, BatchControl, Top, NoName
    <3>3. QED
      BY <1>1, <1>2, <1>3, <3>1, <3>2 DEF PluginInv, BatchInv
  <2>8. QED
    BY <2>2, <2>3, <2>4, <2>5, <2>6, <2>7 DEF Next
<1>4. CASE ~setup.batch
  <2>1. SingleInv
    BY <1>4 DEF PluginInv
  <2>2. CASE \E p \in NewPasses : Enter(p)
    BY <1>1, <1>2, <1>4, <2>1, <2>2, SingleEnter DEF PluginInv
  <2>3. CASE Change
    BY <1>1, <1>2, <1>4, <2>1, <2>3, SingleChange DEF PluginInv
  <2>4. CASE Finalize
    BY <1>1, <1>2, <1>4, <2>1, <2>4, SingleFinalize DEF PluginInv
  <2>5. CASE Leave
    BY <1>1, <1>2, <1>4, <2>1, <2>5, SingleLeave DEF PluginInv
  <2>6. CASE LeaveNoLoop
    BY <1>1, <1>2, <1>4, <2>1, <2>6, SingleLost DEF PluginInv
  <2>7. CASE UNCHANGED vars
    <3>1. UNCHANGED <<setup, vers, stack, fns, dont_verify, is_clangtv_done, checked>>
      BY <2>7 DEF vars, tvVars
    <3>2. /\ (Active' <=> Active) /\ Top' = Top /\ NoSrc' = NoSrc
          /\ \A r : Changing(r)' <=> Changing(r)
          /\ \A f : Src(f)' = Src(f)
          /\ \A f, v : Covered(f, v)' <=> Covered(f, v)
          /\ \A i : LoopAdaptor(i)' <=> LoopAdaptor(i)
          /\ \A i, n : LoopsAbove(i, n)' <=> LoopsAbove(i, n)
      BY <3>1 DEF Active, Top, NoSrc, Changing, Src, KeyOf, Covered, LoopAdaptor, LoopsAbove, Module
    <3>3. /\ Funcs' = Funcs
          /\ \A f : Current(f)' = Current(f)
          /\ \A f : Translatable(f)' = Translatable(f)
          /\ \A u : FuncsOf(u)' = FuncsOf(u)
          /\ \A k : Exempt(k)' <=> Exempt(k)
          /\ \A f, v : Required(f, v)' <=> Required(f, v)
      BY <3>1, SameFuncs
    <3>4. FreshInv'
      BY <2>1, <3>1, <3>2, <3>3 DEF SingleInv, FreshInv
    <3>5. SpanInv'
      BY <2>1, <3>1, <3>2, <3>3 DEF SingleInv, SpanInv
    <3>6. \A f : Awaited(f)' <=> Awaited(f)
      BY <3>1, <3>2, <3>3 DEF Awaited
    <3>7. PendingInv'
      BY <2>1, <3>1, <3>2, <3>3, <3>6 DEF SingleInv, PendingInv
    <3>8. NoCheckSpansUnsupported'
      BY <1>1, <3>1, <3>3 DEF NoCheckSpansUnsupported
    <3>9. QED
      BY <1>1, <1>2, <1>4, <3>4, <3>5, <3>7, <3>8 DEF PluginInv, SingleInv
  <2>8. QED
    BY <2>2, <2>3, <2>4, <2>5, <2>6, <2>7 DEF Next
<1>5. QED
  BY <1>3, <1>4

\* PluginInv is an invariant of these pipelines.
LEMMA PluginInvariance == Spec => [](TypeInv /\ StackInv /\ (Regular => PluginInv))
<1>1. Init => (Regular => PluginInv)
  <2> SUFFICES ASSUME Init, Regular PROVE PluginInv
    OBVIOUS
  <2>1. OneAnon /\ TypeInv /\ checked = {} /\ stack = <<>> /\ ~batch_started /\ ~is_clangtv_done /\ started = 0
        /\ pass_name = NoName
    BY InitType DEF Regular, Init
  <2>2. \A f \in Funcs : Src(f) = NoSrc
    BY <2>1, KeyFacts DEF Init, Src
  <2>3. SrcInv /\ CheckedInv /\ NoCheckSpansUnsupported
    BY <2>1, <2>2 DEF SrcInv, CheckedInv, NoCheckSpansUnsupported
  <2>4. ASSUME NEW f \in Funcs PROVE Len(vers[f]) = 1
    <3>1. PICK b \in BOOLEAN : vers[f] = <<[kind |-> NoName, ok |-> b, live |-> TRUE]>>
      BY DEF Init
    <3>2. QED
      BY <3>1
  <2>5. BatchInv
    BY <2>1, <2>4 DEF BatchInv, BatchControl, BatchSpan, BatchCovered
  <2>6. SingleInv
    <3>1. FreshInv
      BY <2>1 DEF FreshInv, Changing
    <3>2. SpanInv
      BY <2>2 DEF SpanInv
    <3>3. PendingInv
      BY <2>4 DEF PendingInv
    <3>4. QED
      BY <3>1, <3>2, <3>3 DEF SingleInv
  <2>7. QED
    BY <2>3, <2>5, <2>6 DEF PluginInv
<1>2. TypeInv /\ TypeInv' /\ StackInv /\ (Regular => PluginInv) /\ [Next]_vars => (Regular => PluginInv)'
  <2> SUFFICES ASSUME TypeInv, TypeInv', StackInv, Regular => PluginInv, [Next]_vars, Regular' PROVE PluginInv'
    OBVIOUS
  <2>1. Regular
    BY StepFacts DEF Regular, OneAnon
  <2>2. QED
    BY <2>1, PluginStep
<1>3. QED
  BY <1>1, <1>2, TypeInvariance, StackInvariance, PTL DEF Spec

\* No check covers a change by a pass that is unsupported or not to be checked:
\* for every pipeline the plugin follows exactly, of any length, over any
\* number of functions, and without batching nested to any depth.
THEOREM ChecksSpanNothingUnsupported == Spec => [](Regular => NoCheckSpansUnsupported)
<1>1. PluginInv => NoCheckSpansUnsupported
  BY DEF PluginInv
<1>2. QED
  BY <1>1, PluginInvariance, PTL

\* Between two top level passes (with batching: at the end of the pipeline)
\* every change by a supported pass is covered by a check, also if callbacks got
\* lost, for every pipeline the plugin follows exactly.
THEOREM ChangesAreValidated == Spec => [](Regular => ChangesValidated)
<1>1. TypeInv /\ PluginInv => ChangesValidated
  <2> SUFFICES ASSUME TypeInv, PluginInv, stack = <<>>, setup.batch => is_clangtv_done,
                      NEW f \in Funcs, NEW v \in DOMAIN vers[f] \ {1},
                      vers[f][v].live, ~Exempt(vers[f][v].kind), Understood(f, v)
               PROVE  Covered(f, v)
    BY DEF ChangesValidated
  <2>1. DOMAIN vers[f] = 1..Len(vers[f]) /\ Len(vers[f]) \in Nat
    BY LenProperties DEF TypeInv
  <2>2. v \in 2..Len(vers[f])
    BY <2>1
  <2>3. CASE setup.batch
    <3>1. AllOk(f)
      BY <2>1, <2>3 DEF Understood, AllOk
    <3>2. QED
      BY <2>2, <2>3, <3>1 DEF PluginInv, BatchInv, BatchCovered
  <2>4. CASE ~setup.batch
    <3>1. Required(f, v)
      BY <2>4 DEF Understood, Required
    <3>2. ~Awaited(f)
      BY DEF Awaited, Changing
    <3>3. QED
      BY <2>2, <2>4, <3>1, <3>2 DEF PluginInv, SingleInv, PendingInv
  <2>5. QED
    BY <2>3, <2>4
<1>2. QED
  BY <1>1, PluginInvariance, PTL
=============================================================================
