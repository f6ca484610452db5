----------------------------- MODULE TvNextProofs -----------------------------
(***************************************************************************)
(* Proofs about TvNext: units that are verified one by one, some of them   *)
(* under assumptions that were checked against a slice of a parent, add up *)
(* to the refinement of one function by the other.                         *)
(*                                                                         *)
(* Inductions are by the least number that is a counterexample.  Nothing   *)
(* is used of the arithmetic but what WellTyped says, because the prover   *)
(* has no facts about 2^n.                                                 *)
(***************************************************************************)
EXTENDS TvNext, WellFoundedInduction, TLAPS

\* A set of natural numbers that is not empty has a least element.
LEMMA LeastNat ==
  ASSUME NEW T, T \subseteq Nat, T # {}
  PROVE  \E n \in T : \A m \in T : n <= m
<1> DEFINE R == {ss \in Nat \X Nat : ss[1] < ss[2]}
<1>1. IsWellFoundedOn(R, Nat)
  BY NatLessThanWellFounded DEF OpToRel
<1>2. PICK n \in T : \A m \in T : ~(<<m, n>> \in R)
  <2> HIDE DEF R
  <2> QED BY WFMin, <1>1
<1>3. \A m \in T : n <= m
  <2> TAKE m \in T
  <2>1. n \in Nat /\ m \in Nat
    OBVIOUS
  <2>2. ~(m < n)
    <3> SUFFICES ASSUME m < n PROVE FALSE
      OBVIOUS
    <3>1. <<m, n>> \in R
      BY <2>1
    <3> QED BY <3>1, <1>2
  <2> QED BY <2>1, <2>2
<1> QED BY <1>2, <1>3

(***************************************************************************)
(* The recursive functions of the model exist.                             *)
(***************************************************************************)
\* What Runs is at every position.
LEMMA RunsStep ==
  ASSUME NEW body, Len(body) \in Nat, NEW keep, NEW E
  PROVE  /\ Runs(body, keep, E)[0] = E
         /\ \A k \in 1..Len(body) :
              Runs(body, keep, E)[k] =
                IF body[k].name \in keep THEN ExecStep(body[k], Runs(body, keep, E)[k - 1])
                ELSE Runs(body, keep, E)[k - 1]
<1> DEFINE n == Len(body)
           At(g, k) == IF k = 0 THEN E
                       ELSE IF body[k].name \in keep THEN ExecStep(body[k], g[k - 1]) ELSE g[k - 1]
           Is(g, m) == g = [k \in 0..m |-> At(g, k)]
           Bad == {m \in Nat : ~ \E g : Is(g, m)}
<1>1. Bad = {}
  <2> SUFFICES ASSUME Bad # {} PROVE FALSE
    OBVIOUS
  <2>1. PICK m \in Bad : \A j \in Bad : m <= j
    BY LeastNat
  <2>2. m # 0
    <3>1. Is([k \in 0..0 |-> E], 0)
      OBVIOUS
    <3> QED BY <3>1
  <2>3. m - 1 \in Nat /\ m - 1 \notin Bad
    BY <2>1, <2>2
  <2>4. PICK g : Is(g, m - 1)
    BY <2>3
  <2> DEFINE h == [k \in 0..m |-> IF k = m THEN At(g, m) ELSE g[k]]
  <2>5. Is(h, m)
    <3> SUFFICES ASSUME NEW k \in 0..m PROVE h[k] = At(h, k)
      OBVIOUS
    <3>1. CASE k = m
      BY <3>1, <2>2, <2>4
    <3>2. CASE k # m
      BY <3>2, <2>2, <2>4
    <3> QED BY <3>1, <3>2
  <2> QED BY <2>5, <2>1
<1>2. \E g : Is(g, n)
  BY <1>1
<1>3. Runs(body, keep, E) = CHOOSE g : Is(g, n)
  BY DEF Runs
<1>4. Is(Runs(body, keep, E), n)
  BY <1>2, <1>3
<1> QED BY <1>4

\* What Diffs is at every position.
LEMMA DiffsStep ==
  ASSUME NEW s, NEW t, NEW len \in Nat
  PROVE  /\ Diffs(s, t, len)[0] = [out |-> <<>>, start |-> 1]
         /\ \A k \in 1..len :
              Diffs(s, t, len)[k] = PairStep(Diffs(s, t, len)[k - 1], k, s.body[k], t.body[k])
<1> DEFINE At(g, k) == IF k = 0 THEN [out |-> <<>>, start |-> 1]
                       ELSE PairStep(g[k - 1], k, s.body[k], t.body[k])
           Is(g, m) == g = [k \in 0..m |-> At(g, k)]
           Bad == {m \in Nat : ~ \E g : Is(g, m)}
<1>1. Bad = {}
  <2> SUFFICES ASSUME Bad # {} PROVE FALSE
    OBVIOUS
  <2>1. PICK m \in Bad : \A j \in Bad : m <= j
    BY LeastNat
  <2>2. m # 0
    <3>1. Is([k \in 0..0 |-> [out |-> <<>>, start |-> 1]], 0)
      OBVIOUS
    <3> QED BY <3>1
  <2>3. m - 1 \in Nat /\ m - 1 \notin Bad
    BY <2>1, <2>2
  <2>4. PICK g : Is(g, m - 1)
    BY <2>3
  <2> DEFINE h == [k \in 0..m |-> IF k = m THEN At(g, m) ELSE g[k]]
  <2>5. Is(h, m)
    <3> SUFFICES ASSUME NEW k \in 0..m PROVE h[k] = At(h, k)
      OBVIOUS
    <3>1. CASE k = m
      BY <3>1, <2>2, <2>4
    <3>2. CASE k # m
      BY <3>2, <2>2, <2>4
    <3> QED BY <3>1, <3>2
  <2> QED BY <2>5, <2>1
<1>2. \E g : Is(g, len)
  BY <1>1
<1>3. Diffs(s, t, len) = CHOOSE g : Is(g, len)
  BY DEF Diffs
<1>4. Is(Diffs(s, t, len), len)
  BY <1>2, <1>3
<1> QED BY <1>4

(***************************************************************************)
(* One instruction.                                                        *)
(***************************************************************************)
\* A value of the source that allows the value y of the target.
Covers(x, y) == x = Poison \/ x = y

\* The values of operands of i, poison or not.
OperandsOf(i, v) == /\ v = [k \in DOMAIN i.a |-> v[k]]
                    /\ \A k \in DOMAIN i.a : v[k] \in Domain(i.a[k], TRUE)

\* A result has the width of its instruction, unless there is none.
LEMMA ResultsTyped ==
  ASSUME NEW i \in Instruction, NEW v, OperandsOf(i, v), NEW r \in Results(i, v)
  PROVE  r \in Domain(i, TRUE) \/ (r = UB /\ DivUB(i, v))
<1>1. CASE DivUB(i, v)
  <2>1. Results(i, v) = {UB}
    BY <1>1 DEF Results
  <2> QED BY <2>1, <1>1
<1>2. CASE ~DivUB(i, v) /\ Poison \notin {v[k] : k \in DOMAIN v}
  <2>1. v \in DefinedOperands(i)
    BY <1>2 DEF OperandsOf, DefinedOperands, Domain
  <2>2. Results(i, v) = {Computed(i, v)}
    BY <1>2 DEF Results
  <2> QED BY <2>1, <2>2, <1>2 DEF Instruction, WellTyped
<1>3. CASE ~DivUB(i, v) /\ Poison \in {v[k] : k \in DOMAIN v}
  <2>1. CASE i.op = "Freeze"
    <3>1. Results(i, v) = 0..(2^i.w - 1)
      BY <2>1, <1>3 DEF Results
    <3> QED BY <3>1 DEF Domain
  <2>2. CASE i.op = "Select"
    <3>1. i.a[2].w = i.w /\ i.a[3].w = i.w /\ 2 \in DOMAIN i.a /\ 3 \in DOMAIN i.a
      BY <2>2 DEF Instruction, WellTyped
    <3>2. Results(i, v) = {IF v[1] = Poison THEN Poison ELSE IF v[1] = 1 THEN v[2] ELSE v[3]}
      BY <2>2, <1>3 DEF Results
    <3>3. v[2] \in Domain(i, TRUE) /\ v[3] \in Domain(i, TRUE)
      BY <3>1 DEF OperandsOf, Domain
    <3> QED BY <3>2, <3>3 DEF Domain
  <2>3. CASE i.op \notin {"Freeze", "Select"}
    <3>1. Results(i, v) = {Poison}
      BY <2>3, <1>3 DEF Results
    <3> QED BY <3>1 DEF Domain
  <2> QED BY <2>1, <2>2, <2>3
<1> QED BY <1>1, <1>2, <1>3

\* Operands of the source that cover those of the target give results that
\* cover its results.
LEMMA ResultsMonotone ==
  ASSUME NEW i \in Instruction, NEW vs, NEW vt, OperandsOf(i, vs), OperandsOf(i, vt),
         \A k \in DOMAIN i.a : Covers(vs[k], vt[k]),
         NEW r \in Results(i, vt)
  PROVE  UB \in Results(i, vs) \/ (r # UB /\ \E q \in Results(i, vs) : q # UB /\ Covers(q, r))
<1>0. DOMAIN vs = DOMAIN i.a /\ DOMAIN vt = DOMAIN i.a
  BY DEF OperandsOf
<1>1. CASE DivUB(i, vs)
  <2>1. Results(i, vs) = {UB}
    BY <1>1 DEF Results
  <2> QED BY <2>1
<1>2. CASE Poison \notin {vs[k] : k \in DOMAIN vs}
  <2>1. vs = vt
    BY <1>2 DEF OperandsOf, Covers
  <2> QED BY <2>1 DEF Covers
<1>3. CASE ~DivUB(i, vs) /\ Poison \in {vs[k] : k \in DOMAIN vs}
  <2>1. ~DivUB(i, vt)
    <3> SUFFICES ASSUME DivUB(i, vt) PROVE FALSE
      OBVIOUS
    <3>1. DOMAIN i.a = 1..2
      BY DEF DivUB, Instruction, WellTyped
    <3> QED BY <3>1, <1>3 DEF DivUB, Covers
  <2>2. r \in Domain(i, TRUE)
    BY <2>1, ResultsTyped
  <2>3. Poison # UB /\ \A w : \A x \in 0..w : x # UB
    BY DEF Poison, UB
  <2>4. r # UB
    BY <2>2, <2>3 DEF Domain
  <2>5. CASE i.op = "Freeze"
    <3>1. i.a[1].w = i.w /\ DOMAIN i.a = 1..1
      BY <2>5 DEF Instruction, WellTyped
    <3>2. Results(i, vs) = 0..(2^i.w - 1)
      BY <2>5, <1>3 DEF Results
    <3>3. CASE vt[1] = Poison
      <4>1. Poison \in {vt[k] : k \in DOMAIN vt}
        BY <3>3, <3>1, <1>0
      <4>2. Results(i, vt) = 0..(2^i.w - 1)
        BY <2>5, <2>1, <4>1 DEF Results
      <4> QED BY <3>2, <4>2, <2>4 DEF Covers
    <3>4. CASE vt[1] # Poison
      <4>1. Poison \notin {vt[k] : k \in DOMAIN vt}
        BY <3>4, <3>1, <1>0
      <4>2. r = vt[1]
        <5>1. Results(i, vt) = {Computed(i, vt)}
          BY <2>1, <4>1 DEF Results
        <5>2. Computed(i, vt) = vt[1]
          BY <2>5 DEF Computed
        <5> QED BY <5>1, <5>2
      <4>3. r \in 0..(2^i.w - 1)
        BY <3>1, <3>4, <4>2 DEF OperandsOf, Domain
      <4> QED BY <4>3, <3>2, <2>4 DEF Covers
    <3> QED BY <3>3, <3>4
  <2>6. CASE i.op = "Select"
    <3>1. 1 \in DOMAIN i.a /\ 2 \in DOMAIN i.a /\ 3 \in DOMAIN i.a
      BY <2>6 DEF Instruction, WellTyped
    <3> DEFINE Chosen(v) == IF v[1] = Poison THEN Poison ELSE IF v[1] = 1 THEN v[2] ELSE v[3]
    <3>2. Results(i, vs) = {Chosen(vs)}
      BY <2>6, <1>3 DEF Results
    <3>3. r = Chosen(vt)
      <4>1. CASE Poison \in {vt[k] : k \in DOMAIN vt}
        BY <4>1, <2>6, <2>1 DEF Results
      <4>2. CASE Poison \notin {vt[k] : k \in DOMAIN vt}
        <5>1. vt[1] # Poison
          BY <4>2, <3>1, <1>0
        <5>2. Results(i, vt) = {Computed(i, vt)}
          BY <4>2, <2>1 DEF Results
        <5>3. Computed(i, vt) = IF vt[1] = 1 THEN vt[2] ELSE vt[3]
          BY <2>6 DEF Computed
        <5> QED BY <5>1, <5>2, <5>3
      <4> QED BY <4>1, <4>2
    <3>4. Chosen(vs) # UB
      BY <3>1, <2>3 DEF OperandsOf, Domain
    <3>5. Covers(Chosen(vs), Chosen(vt))
      BY <3>1 DEF Covers
    <3> QED BY <3>2, <3>3, <3>4, <3>5, <2>4
  <2>7. CASE i.op \notin {"Freeze", "Select"}
    <3>1. Results(i, vs) = {Poison}
      BY <2>7, <1>3 DEF Results
    <3> QED BY <3>1, <2>3, <2>4 DEF Covers
  <2> QED BY <2>5, <2>6, <2>7
<1> QED BY <1>1, <1>2, <1>3

(***************************************************************************)
(* A body from two environments.  The source side may leave instructions   *)
(* out, as a slice does.                                                   *)
(***************************************************************************)
\* A function in SSA form.
WellFormed(f) == f.body \in Seq(Instruction) /\ f.args \subseteq NamedOperand /\ SSA(f)
\* An environment has a value for an operand.
Has(e, v) == v.n \in DOMAIN e /\ e[v.n] \in Domain(v, TRUE)
\* After k positions of f, of which x took those of K and e all.
Rel(f, K, k, x, e) ==
  \A v \in Before(f, k + 1) :
    Has(e, v) /\ (v \in f.args \/ v.n \in K => Has(x, v) /\ Covers(x[v.n], e[v.n]))

\* An environment with a result is not the dead one.
LEMMA BindNotDead ==
  ASSUME NEW e, NEW n, NEW x, x # UB
  PROVE  Bind(e, n, x) # Dead
<1>1. n \in DOMAIN Bind(e, n, x) /\ Bind(e, n, x)[n] = x
  BY DEF Bind
<1>2. \A m \in DOMAIN Dead : Dead[m] = UB
  BY DEF Dead
<1> QED BY <1>1, <1>2

\* The operands of position k have values once those before it have.
LEMMA OperandsHave ==
  ASSUME NEW f, WellFormed(f), NEW k \in 1..Len(f.body), NEW e, \A v \in Before(f, k) : Has(e, v)
  PROVE  OperandsOf(f.body[k], OperandValues(f.body[k], e))
<1> DEFINE i == f.body[k]
<1>1. i \in Instruction /\ k \in DOMAIN f.body
  BY DEF WellFormed
<1> SUFFICES ASSUME NEW j \in DOMAIN i.a PROVE ValueIn(i.a[j], e) \in Domain(i.a[j], TRUE)
  BY DEF OperandsOf, OperandValues
<1>2. i.a[j] \in NamedOperand \cup ConstOperand
  BY <1>1 DEF Instruction
<1>3. CASE Const(i.a[j])
  BY <1>2, <1>3 DEF ValueIn, Const, ConstOperand, NamedOperand, Domain
<1>4. CASE ~Const(i.a[j])
  <2>1. i.a[j] \in Before(f, k)
    BY <1>1, <1>4 DEF WellFormed, SSA
  <2> QED BY <2>1, <1>4 DEF Has, ValueIn
<1> QED BY <1>3, <1>4

\* What is before the next position.
LEMMA BeforeNext ==
  ASSUME NEW f, WellFormed(f), NEW k \in 1..Len(f.body)
  PROVE  /\ Before(f, k + 1) = Before(f, k) \cup {ResultOf(f.body[k])}
         /\ \A v \in Before(f, k) : v.n # f.body[k].name
         /\ Before(f, 1) = f.args
<1>1. k \in DOMAIN f.body
  BY DEF WellFormed
<1>2. \A v \in Before(f, k) : v.n # f.body[k].name
  BY <1>1 DEF WellFormed, SSA
<1> QED BY <1>2 DEF Before

\* One instruction that both sides execute.
LEMMA TakenStep ==
  ASSUME NEW f, WellFormed(f), NEW K, DependsOnly(K, f), NEW k \in 1..Len(f.body),
         f.body[k].name \in K,
         NEW x0, NEW e0, x0 # Dead, e0 # Dead, Rel(f, K, k - 1, x0, e0),
         NEW e \in After(f.body[k], e0)
  PROVE  \/ Dead \in After(f.body[k], x0)
         \/ e # Dead /\ \E x \in After(f.body[k], x0) : x # Dead /\ Rel(f, K, k, x, e)
<1> DEFINE i == f.body[k]
<1>1. i \in Instruction /\ k \in DOMAIN f.body
  BY DEF WellFormed
<1>2. \A v \in Before(f, k) :
        Has(e0, v) /\ (v \in f.args \/ v.n \in K => Has(x0, v) /\ Covers(x0[v.n], e0[v.n]))
  <2>1. (k - 1) + 1 = k
    OBVIOUS
  <2> QED BY <2>1 DEF Rel
<1>3. OperandsOf(i, OperandValues(i, e0))
  BY <1>2, OperandsHave
<1>4. \A j \in DOMAIN i.a : /\ ValueIn(i.a[j], x0) \in Domain(i.a[j], TRUE)
                            /\ Covers(ValueIn(i.a[j], x0), ValueIn(i.a[j], e0))
  <2> TAKE j \in DOMAIN i.a
  <2>1. CASE Const(i.a[j])
    BY <2>1, <1>3 DEF ValueIn, Covers, OperandsOf, OperandValues
  <2>2. CASE ~Const(i.a[j])
    <3>1. i.a[j] \in Before(f, k)
      BY <1>1, <2>2 DEF WellFormed, SSA
    <3>2. i.a[j] \in f.args \/ i.a[j].n \in K
      <4>1. CASE i.a[j] \in f.args
        BY <4>1
      <4>2. CASE i.a[j] \notin f.args
        <5>1. i.a[j].n \in Names(f.body)
          BY <3>1, <4>2 DEF Before, ResultOf, Names, WellFormed
        <5> QED BY <5>1, <1>1, <2>2 DEF DependsOnly
      <4> QED BY <4>1, <4>2
    <3> QED BY <3>1, <3>2, <2>2, <1>2 DEF Has, ValueIn
  <2> QED BY <2>1, <2>2
<1>5. OperandsOf(i, OperandValues(i, x0))
  BY <1>4 DEF OperandsOf, OperandValues
<1>6. PICK r \in Results(i, OperandValues(i, e0)) : e = IF r = UB THEN Dead ELSE Bind(e0, i.name, r)
  BY DEF After
<1>7. \A j \in DOMAIN i.a : Covers(OperandValues(i, x0)[j], OperandValues(i, e0)[j])
  BY <1>4 DEF OperandValues
<1>8. CASE UB \in Results(i, OperandValues(i, x0))
  BY <1>8 DEF After
<1>9. CASE UB \notin Results(i, OperandValues(i, x0))
  <2>1. PICK q \in Results(i, OperandValues(i, x0)) : r # UB /\ q # UB /\ Covers(q, r)
    BY <1>9, <1>1, <1>3, <1>5, <1>7, ResultsMonotone
  <2>2. r \in Domain(i, TRUE) /\ q \in Domain(i, TRUE)
    BY <2>1, <1>1, <1>3, <1>5, ResultsTyped
  <2> DEFINE x == Bind(x0, i.name, q)
  <2>a. /\ x # Dead /\ x[i.name] = q /\ DOMAIN x = DOMAIN x0 \cup {i.name}
        /\ \A m \in DOMAIN x0 : m # i.name => x[m] = x0[m]
    <3>1. x # Dead
      BY <2>1, BindNotDead
    <3> QED BY <3>1 DEF Bind
  <2>b. e = Bind(e0, i.name, r)
    BY <2>1, <1>6
  <2>4. /\ e # Dead /\ e[i.name] = r /\ DOMAIN e = DOMAIN e0 \cup {i.name}
        /\ \A m \in DOMAIN e0 : m # i.name => e[m] = e0[m]
    <3>1. e # Dead
      BY <2>1, <2>b, BindNotDead
    <3> QED BY <3>1, <2>b DEF Bind
  <2>3. x \in After(i, x0) /\ x # Dead
    <3> HIDE DEF i
    <3> QED BY <2>1, <2>a DEF After
  <2> HIDE DEF x
  <2>5. Rel(f, K, k, x, e)
    <3> SUFFICES ASSUME NEW v \in Before(f, k + 1)
                 PROVE  Has(e, v) /\ (v \in f.args \/ v.n \in K => Has(x, v) /\ Covers(x[v.n], e[v.n]))
      BY DEF Rel
    <3>1. CASE v \in Before(f, k)
      <4>1. v.n # i.name
        BY <3>1, BeforeNext
      <4>2. Has(e0, v) /\ (v \in f.args \/ v.n \in K => Has(x0, v) /\ Covers(x0[v.n], e0[v.n]))
        BY <3>1, <1>2
      <4> QED BY <4>1, <4>2, <2>4, <2>a DEF Has
    <3>2. CASE v = ResultOf(i)
      <4>1. v.n = i.name /\ Domain(v, TRUE) = Domain(i, TRUE)
        BY <3>2 DEF ResultOf, Domain
      <4> QED BY <4>1, <2>1, <2>2, <2>4, <2>a DEF Has
    <3> QED BY <3>1, <3>2, BeforeNext
  <2> QED BY <2>3, <2>4, <2>5
<1> QED BY <1>8, <1>9

\* One instruction that only the target side executes.
LEMMA SkippedStep ==
  ASSUME NEW f, WellFormed(f), NEW K, NEW k \in 1..Len(f.body),
         f.body[k].name \notin K,
         NEW x0, NEW e0, e0 # Dead, Rel(f, K, k - 1, x0, e0),
         NEW e \in After(f.body[k], e0), e # Dead
  PROVE  Rel(f, K, k, x0, e)
<1> DEFINE i == f.body[k]
<1>1. i \in Instruction /\ k \in DOMAIN f.body
  BY DEF WellFormed
<1>a. \A v \in Before(f, k) :
        Has(e0, v) /\ (v \in f.args \/ v.n \in K => Has(x0, v) /\ Covers(x0[v.n], e0[v.n]))
  <2>1. (k - 1) + 1 = k
    OBVIOUS
  <2> QED BY <2>1 DEF Rel
<1>2. OperandsOf(i, OperandValues(i, e0))
  BY <1>a, OperandsHave
<1>3. PICK r \in Results(i, OperandValues(i, e0)) : r # UB /\ e = Bind(e0, i.name, r)
  BY DEF After
<1>4. r \in Domain(i, TRUE)
  BY <1>1, <1>2, <1>3, ResultsTyped
<1>b. /\ e[i.name] = r /\ DOMAIN e = DOMAIN e0 \cup {i.name}
      /\ \A m \in DOMAIN e0 : m # i.name => e[m] = e0[m]
  BY <1>3 DEF Bind
<1> SUFFICES ASSUME NEW v \in Before(f, k + 1)
             PROVE  Has(e, v) /\ (v \in f.args \/ v.n \in K => Has(x0, v) /\ Covers(x0[v.n], e[v.n]))
  BY DEF Rel
<1>5. CASE v \in Before(f, k)
  <2>1. v.n # i.name
    BY <1>5, BeforeNext
  <2>2. Has(e0, v) /\ (v \in f.args \/ v.n \in K => Has(x0, v) /\ Covers(x0[v.n], e0[v.n]))
    BY <1>5, <1>a
  <2> QED BY <2>1, <2>2, <1>b DEF Has
<1>6. CASE v = ResultOf(i)
  <2>1. v.n = i.name /\ Domain(v, TRUE) = Domain(i, TRUE)
    BY <1>6 DEF ResultOf, Domain
  <2>2. v \notin f.args
    <3>1. f.args \subseteq Before(f, k)
      BY DEF Before
    <3> QED BY <3>1, <2>1, BeforeNext
  <2>3. v.n \notin K
    BY <2>1
  <2> QED BY <2>1, <2>2, <2>3, <1>b, <1>4 DEF Has
<1> QED BY <1>5, <1>6, BeforeNext

\* All of f on the target side is covered by what the source side kept of it.
LEMMA Simulates ==
  ASSUME NEW f, WellFormed(f), NEW K, DependsOnly(K, f),
         NEW es, NEW et, es # Dead, et # Dead, Rel(f, K, 0, es, et),
         NEW n \in 0..Len(f.body), NEW d \in Runs(f.body, Names(f.body), {et})[n]
  PROVE  \/ Dead \in Runs(f.body, K, {es})[n]
         \/ /\ Names(f.body) \subseteq K => d # Dead
            /\ d # Dead => \E x \in Runs(f.body, K, {es})[n] : x # Dead /\ Rel(f, K, n, x, d)
<1> DEFINE B == f.body
           R == Runs(B, K, {es})
           Q == Runs(B, Names(B), {et})
           P(k) == \A e \in Q[k] :
                     \/ Dead \in R[k]
                     \/ /\ Names(B) \subseteq K => e # Dead
                        /\ e # Dead => \E x \in R[k] : x # Dead /\ Rel(f, K, k, x, e)
           Bad == {k \in 0..Len(B) : ~P(k)}
<1>0. B \in Seq(Instruction) /\ Len(B) \in Nat
  BY DEF WellFormed
<1>1. R[0] = {es} /\ Q[0] = {et}
  <2>1. R[0] = {es}
    BY <1>0, RunsStep
  <2>2. Q[0] = {et}
    BY <1>0, RunsStep
  <2> QED BY <2>1, <2>2
<1>2. \A k \in 1..Len(B) : R[k] = IF B[k].name \in K THEN ExecStep(B[k], R[k - 1]) ELSE R[k - 1]
  BY <1>0, RunsStep
<1>3. \A k \in 1..Len(B) : Q[k] = ExecStep(B[k], Q[k - 1])
  <2>1. \A k \in 1..Len(B) : B[k].name \in Names(B)
    BY <1>0 DEF Names
  <2> QED BY <2>1, <1>0, RunsStep
<1> HIDE DEF R, Q
<1>4. Bad = {}
  <2> SUFFICES ASSUME Bad # {} PROVE FALSE
    OBVIOUS
  <2>1. PICK k \in Bad : \A j \in Bad : k <= j
    <3>1. Bad \subseteq Nat
      OBVIOUS
    <3> QED BY <3>1, LeastNat
  <2>2. k # 0
    BY <1>1
  <2>3. k \in 1..Len(B) /\ k - 1 \in 0..Len(B) /\ k - 1 \notin Bad
    BY <2>1, <2>2, <1>0
  <2>4. P(k - 1)
    BY <2>3
  <2>5. P(k)
    <3> SUFFICES ASSUME NEW e \in Q[k], Dead \notin R[k]
                 PROVE  /\ Names(B) \subseteq K => e # Dead
                        /\ e # Dead => \E x \in R[k] : x # Dead /\ Rel(f, K, k, x, e)
      OBVIOUS
    <3>1. PICK e0 \in Q[k - 1] : e \in After(B[k], e0)
      BY <1>3, <2>3 DEF ExecStep
    <3>2. Dead \notin R[k - 1]
      <4>1. CASE B[k].name \in K
        <5> SUFFICES ASSUME Dead \in R[k - 1] PROVE FALSE
          OBVIOUS
        <5>1. Dead \in After(B[k], Dead)
          BY DEF After
        <5>2. Dead \in ExecStep(B[k], R[k - 1])
          BY <5>1 DEF ExecStep
        <5> QED BY <5>2, <4>1, <1>2, <2>3
      <4>2. CASE B[k].name \notin K
        BY <4>2, <1>2, <2>3
      <4> QED BY <4>1, <4>2
    <3>3. /\ Names(B) \subseteq K => e0 # Dead
          /\ e0 # Dead => \E x \in R[k - 1] : x # Dead /\ Rel(f, K, k - 1, x, e0)
      BY <3>1, <3>2, <2>4
    <3>4. B[k].name \in Names(B)
      BY <2>3, <1>0 DEF Names
    <3>5. CASE e0 = Dead
      <4>1. e = Dead
        BY <3>5, <3>1 DEF After
      <4> QED BY <4>1, <3>5, <3>3
    <3>6. CASE e0 # Dead
      <4>1. PICK x0 \in R[k - 1] : x0 # Dead /\ Rel(f, K, k - 1, x0, e0)
        BY <3>6, <3>3
      <4>2. CASE B[k].name \in K
        <5>1. R[k] = ExecStep(B[k], R[k - 1])
          BY <4>2, <1>2, <2>3
        <5>2. After(B[k], x0) \subseteq R[k]
          BY <5>1, <4>1 DEF ExecStep
        <5>3. \/ Dead \in After(B[k], x0)
              \/ e # Dead /\ \E x \in After(B[k], x0) : x # Dead /\ Rel(f, K, k, x, e)
          BY <4>1, <4>2, <3>1, <3>6, <2>3, TakenStep
        <5> QED BY <5>2, <5>3
      <4>3. CASE B[k].name \notin K
        <5>1. R[k] = R[k - 1] /\ ~(Names(B) \subseteq K)
          BY <4>3, <1>2, <2>3, <3>4
        <5>2. e # Dead => Rel(f, K, k, x0, e)
          BY <4>1, <4>3, <3>1, <3>6, <2>3, SkippedStep
        <5> QED BY <5>1, <5>2, <4>1
      <4> QED BY <4>2, <4>3
    <3> QED BY <3>5, <3>6
  <2> QED BY <2>1, <2>5
<1>5. P(n)
  BY <1>4
<1> QED BY <1>5 DEF R, Q

\* Names a body does not define keep their values.
LEMMA Frame ==
  ASSUME NEW B, Len(B) \in Nat, DOMAIN B = 1..Len(B), NEW K, NEW env,
         NEW n \in 0..Len(B), NEW e \in Runs(B, K, {env})[n], e # Dead
  PROVE  \A m \in DOMAIN env : m \in DOMAIN e /\ (m \notin Names(B) => e[m] = env[m])
<1> DEFINE R == Runs(B, K, {env})
           Kept(d) == \A m \in DOMAIN env : m \in DOMAIN d /\ (m \notin Names(B) => d[m] = env[m])
           P(k) == \A d \in R[k] : d # Dead => Kept(d)
           Bad == {k \in 0..Len(B) : ~P(k)}
<1>1. R[0] = {env}
  BY RunsStep
<1>2. \A k \in 1..Len(B) : R[k] = IF B[k].name \in K THEN ExecStep(B[k], R[k - 1]) ELSE R[k - 1]
  BY RunsStep
<1> HIDE DEF R
<1>3. Bad = {}
  <2> SUFFICES ASSUME Bad # {} PROVE FALSE
    OBVIOUS
  <2>1. PICK k \in Bad : \A j \in Bad : k <= j
    <3>1. Bad \subseteq Nat
      OBVIOUS
    <3> QED BY <3>1, LeastNat
  <2>2. k # 0
    BY <1>1
  <2>3. k \in 1..Len(B) /\ k - 1 \in 0..Len(B) /\ k - 1 \notin Bad
    BY <2>1, <2>2
  <2>4. P(k - 1)
    BY <2>3
  <2>5. P(k)
    <3> SUFFICES ASSUME NEW d \in R[k], d # Dead PROVE Kept(d)
      OBVIOUS
    <3>1. CASE B[k].name \notin K
      BY <3>1, <2>3, <2>4, <1>2
    <3>2. CASE B[k].name \in K
      <4>0. R[k] = ExecStep(B[k], R[k - 1])
        BY <3>2, <2>3, <1>2
      <4>1. PICK d0 \in R[k - 1] : d \in After(B[k], d0)
        BY <4>0 DEF ExecStep
      <4>2. d0 # Dead
        BY <4>1 DEF After
      <4>3. Kept(d0)
        BY <4>1, <4>2, <2>4
      <4>4. PICK r : d = Bind(d0, B[k].name, r)
        BY <4>1, <4>2 DEF After
      <4>5. B[k].name \in Names(B)
        BY <2>3 DEF Names
      <4>6. \A m \in DOMAIN d0 : m \in DOMAIN d /\ (m # B[k].name => d[m] = d0[m])
        BY <4>4 DEF Bind
      <4> QED BY <4>3, <4>5, <4>6
    <3> QED BY <3>1, <3>2
  <2> QED BY <2>1, <2>5
<1>4. P(n)
  BY <1>3
<1> QED BY <1>4 DEF R

\* What happened before happens from every environment on its own.
LEMMA RunsUnion ==
  ASSUME NEW B, Len(B) \in Nat, NEW K, NEW E, NEW n \in 0..Len(B)
  PROVE  \A d : d \in Runs(B, K, E)[n] <=> \E env \in E : d \in Runs(B, K, {env})[n]
<1> DEFINE R == Runs(B, K, E)
           S(env) == Runs(B, K, {env})
           P(k) == R[k] = UNION {S(env)[k] : env \in E}
           Bad == {k \in 0..Len(B) : ~P(k)}
<1>1. R[0] = E /\ \A env : S(env)[0] = {env}
  BY RunsStep
<1>2. \A k \in 1..Len(B) : R[k] = IF B[k].name \in K THEN ExecStep(B[k], R[k - 1]) ELSE R[k - 1]
  BY RunsStep
<1>3. \A env : \A k \in 1..Len(B) :
        S(env)[k] = IF B[k].name \in K THEN ExecStep(B[k], S(env)[k - 1]) ELSE S(env)[k - 1]
  BY RunsStep
<1> HIDE DEF R, S
<1>4. Bad = {}
  <2> SUFFICES ASSUME Bad # {} PROVE FALSE
    OBVIOUS
  <2>1. PICK k \in Bad : \A j \in Bad : k <= j
    <3>1. Bad \subseteq Nat
      OBVIOUS
    <3> QED BY <3>1, LeastNat
  <2>2. P(0)
    BY <1>1
  <2>3. k \in 1..Len(B) /\ k - 1 \in 0..Len(B) /\ k - 1 \notin Bad
    BY <2>1, <2>2
  <2>4. P(k - 1)
    BY <2>3
  <2>5. P(k)
    <3>1. CASE B[k].name \notin K
      BY <3>1, <2>3, <2>4, <1>2, <1>3
    <3>2. CASE B[k].name \in K
      <4>1. R[k] = ExecStep(B[k], R[k - 1]) /\ \A env : S(env)[k] = ExecStep(B[k], S(env)[k - 1])
        BY <3>2, <2>3, <1>2, <1>3
      <4> QED BY <4>1, <2>4 DEF ExecStep
    <3> QED BY <3>1, <3>2
  <2> QED BY <2>1, <2>5
<1>5. P(n)
  BY <1>4
<1> QED BY <1>5 DEF R, S

\* An execution that met UB stays where it is.
LEMMA DeadStays ==
  ASSUME NEW B, Len(B) \in Nat, NEW K, NEW E, NEW j \in 0..Len(B), NEW n \in j..Len(B),
         Dead \in Runs(B, K, E)[j]
  PROVE  Dead \in Runs(B, K, E)[n]
<1> DEFINE R == Runs(B, K, E)
           Bad == {k \in j..Len(B) : Dead \notin R[k]}
<1>1. \A k \in 1..Len(B) : R[k] = IF B[k].name \in K THEN ExecStep(B[k], R[k - 1]) ELSE R[k - 1]
  BY RunsStep
<1>2. Dead \in R[j]
  OBVIOUS
<1> HIDE DEF R
<1>3. Bad = {}
  <2> SUFFICES ASSUME Bad # {} PROVE FALSE
    OBVIOUS
  <2>1. PICK k \in Bad : \A i \in Bad : k <= i
    <3>1. Bad \subseteq Nat
      OBVIOUS
    <3> QED BY <3>1, LeastNat
  <2>2. k # j
    BY <1>2
  <2>3. k \in 1..Len(B) /\ k - 1 \in j..Len(B) /\ k - 1 \notin Bad
    BY <2>1, <2>2
  <2>4. Dead \in R[k - 1]
    BY <2>3
  <2>5. Dead \in After(B[k], Dead)
    BY DEF After
  <2>6. Dead \in ExecStep(B[k], R[k - 1])
    BY <2>4, <2>5 DEF ExecStep
  <2> QED BY <2>3, <2>4, <2>6, <2>1, <1>1
<1> QED BY <1>3 DEF R

\* The positions from p + 1 to h, from where the first p positions end.
LEMMA RunsSplit ==
  ASSUME NEW B \in Seq(Instruction), NEW p \in 0..Len(B), NEW h \in p..Len(B), NEW E
  PROVE  /\ Len(SubSeq(B, p + 1, h)) = h - p
         /\ Runs(B, Names(B), E)[h] =
              Runs(SubSeq(B, p + 1, h), Names(SubSeq(B, p + 1, h)), Runs(B, Names(B), E)[p])[h - p]
<1> DEFINE C == SubSeq(B, p + 1, h)
           R == Runs(B, Names(B), E)
           S == Runs(C, Names(C), R[p])
           P(k) == S[k] = R[p + k]
           Bad == {k \in 0..(h - p) : ~P(k)}
<1>1. C \in Seq(Instruction) /\ Len(C) = h - p /\ \A k \in 1..(h - p) : C[k] = B[p + k]
  OBVIOUS
<1>2. \A k \in 1..Len(B) : R[k] = ExecStep(B[k], R[k - 1])
  <2>1. \A k \in 1..Len(B) : B[k].name \in Names(B)
    BY DEF Names
  <2> QED BY <2>1, RunsStep
<1>3. S[0] = R[p] /\ \A k \in 1..(h - p) : S[k] = ExecStep(C[k], S[k - 1])
  <2>1. Len(C) \in Nat
    BY <1>1
  <2> HIDE DEF C, R
  <2>2. \A k \in 1..(h - p) : C[k].name \in Names(C)
    <3>1. DOMAIN C = 1..(h - p)
      BY <1>1
    <3> QED BY <3>1 DEF Names
  <2>3. S[0] = R[p]
    BY <2>1, RunsStep
  <2>4. \A k \in 1..Len(C) : S[k] = IF C[k].name \in Names(C) THEN ExecStep(C[k], S[k - 1]) ELSE S[k - 1]
    BY <2>1, RunsStep
  <2> QED BY <2>2, <2>3, <2>4, <1>1
<1> HIDE DEF R, S, C
<1>4. Bad = {}
  <2> SUFFICES ASSUME Bad # {} PROVE FALSE
    OBVIOUS
  <2>1. PICK k \in Bad : \A j \in Bad : k <= j
    <3>1. Bad \subseteq Nat
      OBVIOUS
    <3> QED BY <3>1, LeastNat
  <2>2. P(0)
    BY <1>3
  <2>3. k \in 1..(h - p) /\ k - 1 \in 0..(h - p) /\ k - 1 \notin Bad
    BY <2>1, <2>2
  <2>4. S[k - 1] = R[p + (k - 1)]
    BY <2>3
  <2>5. S[k] = ExecStep(B[p + k], R[p + (k - 1)])
    BY <2>3, <2>4, <1>3, <1>1
  <2>6. R[p + k] = ExecStep(B[p + k], R[(p + k) - 1])
    <3>1. p + k \in 1..Len(B)
      BY <2>3
    <3> QED BY <3>1, <1>2
  <2>7. (p + k) - 1 = p + (k - 1)
    BY <2>3
  <2> QED BY <2>1, <2>5, <2>6, <2>7
<1>5. P(h - p)
  BY <1>4
<1> QED BY <1>5, <1>1 DEF R, S, C

(***************************************************************************)
(* The diff.                                                               *)
(***************************************************************************)
\* The number of positions that are compared one by one.
LEMMA PairedLengthFacts ==
  ASSUME NEW s, NEW t, s.body \in Seq(Instruction), t.body \in Seq(Instruction)
  PROVE  /\ PairedLength(s, t) \in Nat
         /\ PairedLength(s, t) <= Len(s.body) /\ PairedLength(s, t) <= Len(t.body)
         /\ Len(s.body) = Len(t.body) => PairedLength(s, t) = Len(s.body)
<1> DEFINE n == UMinOf(Len(s.body), Len(t.body))
           S == {k \in 0..n : \A j \in 1..k : s.body[j].name = t.body[j].name}
<1>1. n \in Nat /\ n <= Len(s.body) /\ n <= Len(t.body)
  BY DEF UMinOf
<1>2. CASE Len(s.body) = Len(t.body)
  BY <1>1, <1>2 DEF PairedLength, UMinOf
<1>3. CASE Len(s.body) # Len(t.body)
  <2>1. PairedLength(s, t) = MaxOf(S)
    BY <1>3 DEF PairedLength
  <2>2. 0 \in S /\ S \subseteq 0..n
    BY <1>1
  <2> HIDE DEF S, n
  <2>3. PICK m \in {n - k : k \in S} : \A j \in {n - k : k \in S} : m <= j
    <3>1. {n - k : k \in S} \subseteq Nat /\ {n - k : k \in S} # {}
      BY <2>2, <1>1
    <3> QED BY <3>1, LeastNat
  <2>4. PICK k \in S : m = n - k
    BY <2>3
  <2>5. \A j \in S : k >= j
    <3> TAKE j \in S
    <3>1. n - j \in {n - q : q \in S}
      OBVIOUS
    <3>2. n - k <= n - j
      BY <3>1, <2>3, <2>4
    <3> QED BY <3>2, <2>2, <1>1
  <2>6. MaxOf(S) \in S
    BY <2>4, <2>5 DEF MaxOf
  <2>7. MaxOf(S) \in Nat /\ MaxOf(S) <= n
    <3>1. MaxOf(S) \in 0..n
      BY <2>2, <2>6
    <3> HIDE DEF MaxOf
    <3> QED BY <3>1, <1>1
  <2>8. MaxOf(S) <= Len(s.body) /\ MaxOf(S) <= Len(t.body)
    BY <2>7, <1>1
  <2> QED BY <2>1, <2>7, <2>8, <1>3
<1> QED BY <1>2, <1>3

\* The groups that are complete before position m: they are apart, and a
\* position in none of them is the same on both sides.
GroupsUpTo(out, m, s, t) ==
  /\ out \in Seq(Nat \X Nat)
  /\ \A j \in DOMAIN out : 1 <= out[j][1] /\ out[j][1] <= out[j][2] /\ out[j][2] < m
  /\ \A i, j \in DOMAIN out : i # j => out[i][2] < out[j][1] \/ out[j][2] < out[i][1]
  /\ \A q \in 1..(m - 1) : s.body[q] = t.body[q] \/ \E j \in DOMAIN out : out[j][1] <= q /\ q <= out[j][2]
DiffOK(d, k, s, t) == /\ d = [out |-> d.out, start |-> d.start]
                      /\ d.start \in 1..(k + 1) /\ GroupsUpTo(d.out, d.start, s, t)

\* Closing the current group.
LEMMA FlushOK ==
  ASSUME NEW d, NEW s, NEW t, NEW k \in Nat, DiffOK(d, k, s, t)
  PROVE  DiffOK(Flush(d, k + 1), k, s, t) /\ Flush(d, k + 1).start = k + 1
<1>1. CASE d.start >= k + 1
  BY <1>1 DEF Flush, DiffOK
<1>2. CASE d.start < k + 1
  <2> DEFINE o == Append(d.out, <<d.start, k>>)
  <2>1. Flush(d, k + 1) = [out |-> o, start |-> k + 1]
    <3>1. ~(d.start >= k + 1) /\ (k + 1) - 1 = k
      BY <1>2 DEF DiffOK
    <3> QED BY <3>1 DEF Flush
  <2>2. d.out \in Seq(Nat \X Nat) /\ d.start \in 1..k /\ <<d.start, k>> \in Nat \X Nat
    BY <1>2 DEF DiffOK, GroupsUpTo
  <2> DEFINE l == Len(d.out)
  <2>3. /\ l \in Nat /\ \A j \in 1..l : d.out[j] \in Nat \X Nat
        /\ o \in Seq(Nat \X Nat) /\ DOMAIN o = 1..(l + 1) /\ DOMAIN d.out = 1..l
        /\ o[l + 1] = <<d.start, k>> /\ \A j \in 1..l : o[j] = d.out[j]
    BY <2>2
  <2>a. \A j \in DOMAIN o : j = l + 1 \/ j \in 1..l
    BY <2>3
  <2>b. l + 1 \in DOMAIN o /\ \A j \in DOMAIN d.out : j \in DOMAIN o
    BY <2>3
  <2> HIDE DEF o, l
  <2>4. \A j \in DOMAIN o : 1 <= o[j][1] /\ o[j][1] <= o[j][2] /\ o[j][2] < k + 1
    <3> SUFFICES ASSUME NEW j \in DOMAIN o PROVE 1 <= o[j][1] /\ o[j][1] <= o[j][2] /\ o[j][2] < k + 1
      OBVIOUS
    <3>1. CASE j = l + 1
      BY <3>1, <2>2, <2>3
    <3>2. CASE j # l + 1
      <4>1. j \in DOMAIN d.out /\ o[j] = d.out[j] /\ d.out[j] \in Nat \X Nat
        BY <3>2, <2>a, <2>3
      <4>2. 1 <= d.out[j][1] /\ d.out[j][1] <= d.out[j][2] /\ d.out[j][2] < d.start
        BY <4>1 DEF DiffOK, GroupsUpTo
      <4> QED BY <4>1, <4>2, <2>2
    <3> QED BY <3>1, <3>2
  <2>5. \A i, j \in DOMAIN o : i # j => o[i][2] < o[j][1] \/ o[j][2] < o[i][1]
    <3> SUFFICES ASSUME NEW i \in DOMAIN o, NEW j \in DOMAIN o, i # j
                 PROVE  o[i][2] < o[j][1] \/ o[j][2] < o[i][1]
      OBVIOUS
    <3>1. \A h \in 1..l : o[h][2] < d.start
      BY <2>2, <2>3 DEF DiffOK, GroupsUpTo
    <3>2. CASE i \in 1..l /\ j \in 1..l
      BY <3>2, <2>2, <2>3 DEF DiffOK, GroupsUpTo
    <3>3. CASE i = l + 1 /\ j \in 1..l
      BY <3>3, <3>1, <2>3
    <3>4. CASE j = l + 1 /\ i \in 1..l
      BY <3>4, <3>1, <2>3
    <3> QED BY <3>2, <3>3, <3>4, <2>a
  <2>6. \A q \in 1..k : s.body[q] = t.body[q] \/ \E j \in DOMAIN o : o[j][1] <= q /\ q <= o[j][2]
    <3> SUFFICES ASSUME NEW q \in 1..k
                 PROVE  s.body[q] = t.body[q] \/ \E j \in DOMAIN o : o[j][1] <= q /\ q <= o[j][2]
      OBVIOUS
    <3>1. CASE q < d.start
      <4>1. q \in 1..(d.start - 1)
        BY <3>1, <2>2
      <4>2. s.body[q] = t.body[q] \/ \E j \in DOMAIN d.out : d.out[j][1] <= q /\ q <= d.out[j][2]
        BY <4>1 DEF DiffOK, GroupsUpTo
      <4>3. \A j \in DOMAIN d.out : j \in DOMAIN o /\ o[j] = d.out[j]
        BY <2>b, <2>3
      <4> QED BY <4>2, <4>3
    <3>2. CASE q >= d.start
      <4>1. o[l + 1][1] = d.start /\ o[l + 1][2] = k
        BY <2>3
      <4> QED BY <4>1, <3>2, <2>b
    <3> QED BY <3>1, <3>2, <2>2
  <2>7. (k + 1) - 1 = k
    OBVIOUS
  <2>8. GroupsUpTo(o, k + 1, s, t)
    BY <2>3, <2>4, <2>5, <2>6, <2>7 DEF GroupsUpTo
  <2>9. k + 1 \in 1..(k + 1)
    OBVIOUS
  <2> QED BY <2>1, <2>8, <2>9 DEF DiffOK
<1> QED BY <1>1, <1>2 DEF DiffOK

\* One position.
LEMMA PairStepOK ==
  ASSUME NEW d, NEW s, NEW t, NEW k \in Nat, DiffOK(d, k, s, t)
  PROVE  DiffOK(PairStep(d, k + 1, s.body[k + 1], t.body[k + 1]), k + 1, s, t)
<1> DEFINE f == Flush(d, k + 1)
<1>1. DiffOK(f, k, s, t) /\ f.start = k + 1
  BY FlushOK
<1>2. CASE s.body[k + 1] = t.body[k + 1]
  <2> DEFINE g == [f EXCEPT !.start = k + 1 + 1]
  <2>1. PairStep(d, k + 1, s.body[k + 1], t.body[k + 1]) = g
    BY <1>2 DEF PairStep
  <2>2. g.out = f.out /\ g.start = k + 2 /\ g = [out |-> g.out, start |-> g.start]
    <3> HIDE DEF f
    <3> QED BY <1>1 DEF DiffOK
  <2>3. GroupsUpTo(f.out, k + 1, s, t)
    BY <1>1 DEF DiffOK
  <2> HIDE DEF f, g
  <2>4. GroupsUpTo(f.out, k + 2, s, t)
    <3>1. \A j \in DOMAIN f.out : f.out[j] \in Nat \X Nat
      BY <2>3 DEF GroupsUpTo
    <3>2. \A j \in DOMAIN f.out : f.out[j][2] < k + 2
      BY <2>3, <3>1 DEF GroupsUpTo
    <3>3. \A q \in 1..((k + 2) - 1) : q = k + 1 \/ q \in 1..((k + 1) - 1)
      OBVIOUS
    <3> QED BY <2>3, <3>2, <3>3, <1>2 DEF GroupsUpTo
  <2> QED BY <2>1, <2>2, <2>4 DEF DiffOK
<1>3. CASE s.body[k + 1] # t.body[k + 1] /\ isLikelyCommutativity(s.body[k + 1], t.body[k + 1])
  <2>1. PairStep(d, k + 1, s.body[k + 1], t.body[k + 1]) = Flush(f, (k + 1) + 1)
    BY <1>3 DEF PairStep
  <2>2. DiffOK(f, k + 1, s, t)
    <3> HIDE DEF f
    <3> QED BY <1>1 DEF DiffOK
  <2> HIDE DEF f
  <2> QED BY <2>1, <2>2, FlushOK
<1>4. CASE s.body[k + 1] # t.body[k + 1] /\ ~isLikelyCommutativity(s.body[k + 1], t.body[k + 1])
  <2>1. PairStep(d, k + 1, s.body[k + 1], t.body[k + 1]) = d
    BY <1>4 DEF PairStep
  <2> QED BY <2>1 DEF DiffOK
<1> QED BY <1>2, <1>3, <1>4

\* The groups of two functions.
LEMMA GroupsOK ==
  ASSUME NEW s, NEW t, s.body \in Seq(Instruction), t.body \in Seq(Instruction)
  PROVE  GroupsUpTo(Groups(s, t), PairedLength(s, t) + 1, s, t)
<1> DEFINE len == PairedLength(s, t)
           D == Diffs(s, t, len)
           P(k) == DiffOK(D[k], k, s, t)
           Bad == {k \in 0..len : ~P(k)}
<1>0. len \in Nat
  BY PairedLengthFacts
<1> HIDE DEF len
<1>1. D[0] = [out |-> <<>>, start |-> 1]
  BY <1>0, DiffsStep
<1>2. \A k \in 1..len : D[k] = PairStep(D[k - 1], k, s.body[k], t.body[k])
  BY <1>0, DiffsStep
<1> HIDE DEF D
<1>3. Bad = {}
  <2> SUFFICES ASSUME Bad # {} PROVE FALSE
    OBVIOUS
  <2>1. PICK k \in Bad : \A j \in Bad : k <= j
    <3>1. Bad \subseteq Nat
      OBVIOUS
    <3> QED BY <3>1, LeastNat
  <2>2. P(0)
    BY <1>1 DEF DiffOK, GroupsUpTo
  <2>3. k \in 1..len /\ k - 1 \in Nat /\ k - 1 \in 0..len /\ k - 1 \notin Bad
    BY <2>1, <2>2, <1>0
  <2>4. P(k - 1)
    BY <2>3
  <2>5. P(k)
    <3>1. (k - 1) + 1 = k
      BY <2>3
    <3>2. DiffOK(PairStep(D[k - 1], k, s.body[k], t.body[k]), k, s, t)
      BY <2>3, <2>4, <3>1, PairStepOK
    <3> QED BY <3>2, <2>3, <1>2
  <2> QED BY <2>1, <2>5
<1>4. P(len)
  BY <1>0, <1>3
<1>5. DiffOK(Flush(D[len], len + 1), len, s, t) /\ Flush(D[len], len + 1).start = len + 1
  BY <1>0, <1>4, FlushOK
<1>6. Groups(s, t) = Flush(D[len], len + 1).out
  BY DEF Groups, len, D
<1> QED BY <1>5, <1>6 DEF DiffOK, len

(***************************************************************************)
(* Slices, and what the check of a side says of its parent.                *)
(***************************************************************************)
\* A name belongs to one position and to no argument.
LEMMA NamesDistinct ==
  ASSUME NEW f, WellFormed(f), NEW k \in 1..Len(f.body)
  PROVE  /\ \A q \in 1..Len(f.body) : f.body[q].name = f.body[k].name => q = k
         /\ \A v \in f.args : v.n # f.body[k].name
<1>1. f.body \in Seq(Instruction) /\ Len(f.body) \in Nat /\ DOMAIN f.body = 1..Len(f.body)
  BY DEF WellFormed
<1>2. \A m \in 1..Len(f.body) : \A v \in Before(f, m) : v.n # f.body[m].name
  BY <1>1 DEF WellFormed, SSA
<1>3. \A q, m \in 1..Len(f.body) : q < m => f.body[q].name # f.body[m].name
  <2> SUFFICES ASSUME NEW q \in 1..Len(f.body), NEW m \in 1..Len(f.body), q < m
               PROVE  f.body[q].name # f.body[m].name
    OBVIOUS
  <2>1. q \in 1..(m - 1)
    BY <1>1
  <2>2. ResultOf(f.body[q]) \in Before(f, m) /\ ResultOf(f.body[q]).n = f.body[q].name
    BY <2>1 DEF Before, ResultOf
  <2> QED BY <2>2, <1>2
<1>4. \A v \in f.args : v \in Before(f, k)
  BY DEF Before
<1> QED BY <1>1, <1>2, <1>3, <1>4

\* A slice holds its root and what its instructions take from the body, and
\* nothing it does not have to.
LEMMA SliceFacts ==
  ASSUME NEW f, NEW name
  PROVE  /\ collectBackwardSlice(name, f) \subseteq Names(f.body)
         /\ DependsOnly(collectBackwardSlice(name, f), f)
         /\ collectBackwardSlice(name, f) # {} => name \in collectBackwardSlice(name, f)
         /\ \A S \in SUBSET Names(f.body) :
              name \in S /\ DependsOnly(S, f) => collectBackwardSlice(name, f) \subseteq S
<1> DEFINE C == collectBackwardSlice(name, f)
<1>1. \A n : n \in C <=> /\ n \in Names(f.body) /\ name \in Names(f.body)
                         /\ \A S \in SUBSET Names(f.body) : name \in S /\ DependsOnly(S, f) => n \in S
  BY DEF collectBackwardSlice
<1> HIDE DEF C
<1>2. DependsOnly(C, f)
  <2> SUFFICES ASSUME NEW k \in DOMAIN f.body, f.body[k].name \in C, NEW j \in DOMAIN f.body[k].a,
                      ~Const(f.body[k].a[j]), f.body[k].a[j].n \in Names(f.body)
               PROVE  f.body[k].a[j].n \in C
    BY DEF DependsOnly
  <2> SUFFICES ASSUME NEW S \in SUBSET Names(f.body), name \in S, DependsOnly(S, f)
               PROVE  f.body[k].a[j].n \in S
    BY <1>1
  <2>1. f.body[k].name \in S
    BY <1>1
  <2> QED BY <2>1 DEF DependsOnly
<1>3. C \subseteq Names(f.body)
  BY <1>1
<1>4. C # {} => name \in C
  BY <1>1
<1>5. \A S \in SUBSET Names(f.body) : name \in S /\ DependsOnly(S, f) => C \subseteq S
  BY <1>1
<1> QED BY <1>2, <1>3, <1>4, <1>5 DEF C

\* The names of the first p positions.
NamesUpTo(f, p) == {f.body[q].name : q \in 1..p}
\* They take nothing from later positions.
LEMMA PrefixCloses ==
  ASSUME NEW f, WellFormed(f), NEW p \in 0..Len(f.body)
  PROVE  NamesUpTo(f, p) \subseteq Names(f.body) /\ DependsOnly(NamesUpTo(f, p), f)
<1>1. f.body \in Seq(Instruction) /\ Len(f.body) \in Nat /\ DOMAIN f.body = 1..Len(f.body)
  BY DEF WellFormed
<1>2. NamesUpTo(f, p) \subseteq Names(f.body)
  <2>1. 1..p \subseteq DOMAIN f.body
    BY <1>1
  <2> QED BY <2>1 DEF NamesUpTo, Names
<1> SUFFICES ASSUME NEW k \in DOMAIN f.body, f.body[k].name \in NamesUpTo(f, p), NEW j \in DOMAIN f.body[k].a,
                    ~Const(f.body[k].a[j]), f.body[k].a[j].n \in Names(f.body)
             PROVE  f.body[k].a[j].n \in NamesUpTo(f, p)
  BY <1>2 DEF DependsOnly
<1> DEFINE v == f.body[k].a[j]
<1>3. k \in 1..p
  <2>1. PICK q \in 1..p : f.body[q].name = f.body[k].name
    BY DEF NamesUpTo
  <2>2. q \in 1..Len(f.body) /\ k \in 1..Len(f.body)
    BY <1>1, <2>1
  <2>3. q = k
    BY <2>1, <2>2, NamesDistinct
  <2> QED BY <2>3
<1>4. v \in Before(f, k)
  BY DEF WellFormed, SSA
<1>5. PICK m \in DOMAIN f.body : v.n = f.body[m].name
  BY DEF Names
<1>6. v \notin f.args
  <2>1. m \in 1..Len(f.body)
    BY <1>1, <1>5
  <2> QED BY <2>1, <1>5, NamesDistinct
<1>7. PICK q \in 1..(k - 1) : v = ResultOf(f.body[q])
  BY <1>4, <1>6 DEF Before
<1>8. v.n = f.body[q].name /\ q \in 1..p
  BY <1>7, <1>3 DEF ResultOf
<1> QED BY <1>8 DEF NamesUpTo

\* Positions that are not kept change nothing.
LEMMA SkipsRest ==
  ASSUME NEW B, Len(B) \in Nat, NEW K, NEW E, NEW p \in 0..Len(B),
         \A q \in (p + 1)..Len(B) : B[q].name \notin K
  PROVE  Runs(B, K, E)[Len(B)] = Runs(B, K, E)[p]
<1> DEFINE R == Runs(B, K, E)
           Bad == {k \in p..Len(B) : R[k] # R[p]}
<1>1. \A k \in 1..Len(B) : R[k] = IF B[k].name \in K THEN ExecStep(B[k], R[k - 1]) ELSE R[k - 1]
  BY RunsStep
<1> HIDE DEF R
<1>2. Bad = {}
  <2> SUFFICES ASSUME Bad # {} PROVE FALSE
    OBVIOUS
  <2>1. PICK k \in Bad : \A j \in Bad : k <= j
    <3>1. Bad \subseteq Nat
      OBVIOUS
    <3> QED BY <3>1, LeastNat
  <2>2. k # p
    OBVIOUS
  <2>3. k \in 1..Len(B) /\ k \in (p + 1)..Len(B) /\ k - 1 \in p..Len(B) /\ k - 1 \notin Bad
    BY <2>1, <2>2
  <2>4. R[k] = R[k - 1]
    BY <2>3, <1>1
  <2> QED BY <2>1, <2>3, <2>4
<1>3. Len(B) \in p..Len(B)
  OBVIOUS
<1> QED BY <1>2, <1>3 DEF R

\* Nothing follows UB.
LEMMA OnlyDead ==
  ASSUME NEW B, Len(B) \in Nat, NEW K, NEW n \in 0..Len(B)
  PROVE  Runs(B, K, {Dead})[n] = {Dead}
<1> DEFINE R == Runs(B, K, {Dead})
           Bad == {k \in 0..Len(B) : R[k] # {Dead}}
<1>1. \A k \in 1..Len(B) : R[k] = IF B[k].name \in K THEN ExecStep(B[k], R[k - 1]) ELSE R[k - 1]
  BY RunsStep
<1>2. R[0] = {Dead}
  BY RunsStep
<1> HIDE DEF R
<1>3. Bad = {}
  <2> SUFFICES ASSUME Bad # {} PROVE FALSE
    OBVIOUS
  <2>1. PICK k \in Bad : \A j \in Bad : k <= j
    <3>1. Bad \subseteq Nat
      OBVIOUS
    <3> QED BY <3>1, LeastNat
  <2>2. k # 0
    BY <1>2
  <2>3. k \in 1..Len(B) /\ k - 1 \in 0..Len(B) /\ k - 1 \notin Bad
    BY <2>1, <2>2
  <2>4. R[k - 1] = {Dead}
    BY <2>3
  <2>5. After(B[k], Dead) = {Dead}
    BY DEF After
  <2>6. ExecStep(B[k], {Dead}) = {Dead}
    BY <2>5 DEF ExecStep
  <2> QED BY <2>1, <2>3, <2>4, <2>6, <1>1
<1> QED BY <1>3 DEF R

\* An assumption: a fact, or a claim about at least one operand.
Assumption(a) ==
  \/ \E g : a = [fact |-> g]
  \/ \E o : a = [claim |-> o] /\ Len(o.ops) \in Nat \ {0} /\ DOMAIN o.ops = 1..Len(o.ops)

\* An assumption that holds in one environment holds in one it covers.
LEMMA HoldsCovered ==
  ASSUME NEW a, Assumption(a), NEW x, NEW e, Holds(a, x), \A n \in About(a) : Covers(x[n], e[n])
  PROVE  Holds(a, e)
<1>1. CASE \E g : a = [fact |-> g]
  <2>1. PICK g : a = [fact |-> g]
    BY <1>1
  <2>2. "fact" \in DOMAIN a /\ a.fact = g
    BY <2>1
  <2>3. About(a) = {g.name}
    BY <2>2 DEF About
  <2>4. x[g.name] # Poison /\ buildFactPredicate(g, x[g.name])
    BY <2>2 DEF Holds
  <2>5. e[g.name] = x[g.name]
    BY <2>3, <2>4 DEF Covers
  <2> QED BY <2>2, <2>4, <2>5 DEF Holds
<1>2. CASE \E o : a = [claim |-> o] /\ Len(o.ops) \in Nat \ {0} /\ DOMAIN o.ops = 1..Len(o.ops)
  <2>1. PICK o : a = [claim |-> o] /\ Len(o.ops) \in Nat \ {0} /\ DOMAIN o.ops = 1..Len(o.ops)
    BY <1>2
  <2>2. "fact" \notin DOMAIN a /\ a.claim = o
    BY <2>1
  <2>3. \A k \in DOMAIN o.ops : ~Const(o.ops[k]) => o.ops[k].n \in About(a)
    BY <2>2 DEF About
  <2>4. \A k \in DOMAIN o.ops : ValueIn(o.ops[k], x) # Poison => ValueIn(o.ops[k], e) = ValueIn(o.ops[k], x)
    BY <2>3 DEF ValueIn, Covers
  <2> DEFINE Y(env) == IF Len(o.ops) >= 2 THEN ValueIn(o.ops[2], env) ELSE 0
  <2>5. \A env : Holds(a, env) <=> /\ ValueIn(o.ops[1], env) # Poison /\ Y(env) # Poison
                                   /\ buildFlagClaim(o.kind, ValueIn(o.ops[1], env), Y(env), o.w) = 1
    BY <2>2 DEF Holds
  <2>6. ValueIn(o.ops[1], e) = ValueIn(o.ops[1], x)
    BY <2>1, <2>4, <2>5
  <2>7. Y(e) = Y(x)
    <3>1. CASE Len(o.ops) >= 2
      <4>1. 2 \in DOMAIN o.ops /\ Y(x) = ValueIn(o.ops[2], x) /\ Y(e) = ValueIn(o.ops[2], e)
        BY <3>1, <2>1
      <4> QED BY <4>1, <2>4, <2>5
    <3>2. CASE ~(Len(o.ops) >= 2)
      BY <3>2
    <3> QED BY <3>1, <3>2
  <2> HIDE DEF Y
  <2> QED BY <2>5, <2>6, <2>7
<1> QED BY <1>1, <1>2 DEF Assumption

\* The claims of a check that holds are true of its parent once it has passed
\* the slices.
LEMMA CheckCovers ==
  ASSUME NEW f, WellFormed(f), NEW c, CheckHolds(c), c.args = f.args, c.body = f.body,
         DependsOnly(c.slice, f), NEW p \in 0..Len(f.body), c.slice \subseteq NamesUpTo(f, p),
         NEW a \in c.claims, Assumption(a), About(a) \subseteq c.slice,
         NEW env \in Inputs(f.args, FALSE), NEW e \in Runs(f.body, Names(f.body), {env})[p], e # Dead
  PROVE  About(a) \subseteq DOMAIN e /\ Holds(a, e)
<1> DEFINE B == f.body
           K == c.slice
<1>1. B \in Seq(Instruction) /\ Len(B) \in Nat /\ DOMAIN B = 1..Len(B)
  BY DEF WellFormed
<1>2. env # Dead
  <2> SUFFICES ASSUME env = Dead PROVE FALSE
    OBVIOUS
  <2>1. Runs(B, Names(B), {env})[p] = {Dead}
    BY <1>1, OnlyDead
  <2> QED BY <2>1
<1>3. Rel(f, K, 0, env, env)
  <2>1. Before(f, 0 + 1) = f.args
    BY DEF Before
  <2>2. \A v \in f.args : v.n \in DOMAIN env /\ env[v.n] \in Domain(v, FALSE)
    BY DEF Inputs
  <2> QED BY <2>1, <2>2 DEF Rel, Has, Covers, Domain
<1>4. Runs(B, K, {env})[Len(B)] = Runs(B, K, {env})[p]
  <2>1. \A q \in (p + 1)..Len(B) : B[q].name \notin K
    <3> SUFFICES ASSUME NEW q \in (p + 1)..Len(B), B[q].name \in NamesUpTo(f, p) PROVE FALSE
      OBVIOUS
    <3>1. PICK m \in 1..p : B[m].name = B[q].name
      BY DEF NamesUpTo
    <3>2. m \in 1..Len(B) /\ q \in 1..Len(B) /\ m # q
      BY <1>1, <3>1
    <3> QED BY <3>1, <3>2, NamesDistinct
  <2> QED BY <2>1, <1>1, SkipsRest
<1>5. \A x \in Runs(B, K, {env})[p] : x # Dead /\ Holds(a, x)
  BY <1>4 DEF CheckHolds, Executions
<1>6. PICK x \in Runs(B, K, {env})[p] : Rel(f, K, p, x, e)
  BY <1>2, <1>3, <1>5, Simulates
<1>7. \A n \in About(a) : n \in DOMAIN e /\ Covers(x[n], e[n])
  <2> TAKE n \in About(a)
  <2>1. PICK q \in 1..p : n = B[q].name
    BY DEF NamesUpTo
  <2>2. q \in 1..((p + 1) - 1) /\ ResultOf(B[q]).n = n
    BY <2>1 DEF ResultOf
  <2>3. ResultOf(B[q]) \in Before(f, p + 1)
    BY <2>2 DEF Before
  <2> QED BY <2>2, <2>3, <1>6 DEF Rel, Has
<1> QED BY <1>5, <1>6, <1>7, HoldsCovered

(***************************************************************************)
(* What is proposed for a unit.                                            *)
(***************************************************************************)
\* A unit as LiftUnit makes it.
IsUnit(u) == /\ u = [ok |-> TRUE, src |-> u.src, tgt |-> u.tgt, assumes |-> u.assumes]
             /\ \A i \in Range(u.tgt.body) : Len(i.a) \in Nat \ {0} /\ DOMAIN i.a = 1..Len(i.a)
ArgNames(u) == {v.n : v \in u.src.args}

\* The facts and the claims collected from one parent are those its check is
\* about.
LEMMA SideFacts ==
  ASSUME NEW u, IsUnit(u), NEW f, NEW side, side = collectFromParent(u, f),
         NEW c, c = buildCombinedFactCheck(side, f)
  PROVE  /\ c.args = f.args /\ c.body = f.body /\ DependsOnly(c.slice, f)
         /\ \A S \in SUBSET Names(f.body) :
              ArgNames(u) \cap Names(f.body) \subseteq S /\ DependsOnly(S, f) => c.slice \subseteq S
         /\ \A a \in Injected(side, u) : /\ a \in c.claims /\ Assumption(a)
                                         /\ About(a) \subseteq c.slice /\ About(a) \subseteq ArgNames(u)
         /\ Nothing(side) => Injected(side, u) = {}
<1> DEFINE M == computeRanges(f.body, SeedOf(f)).map
           K == UNION {collectBackwardSlice(g.name, f) : g \in side.facts}
<1>1. side.facts = FactsOf(u, f, M) /\ side.obligations = ObligationsOf(u, side.facts)
  BY DEF collectFromParent, SideFrom, SideOf
<1>2. \A g \in side.facts : g.name \in ArgNames(u) /\ collectBackwardSlice(g.name, f) # {}
  <2> HIDE DEF M
  <2> SUFFICES ASSUME NEW g \in FactsOf(u, f, M)
               PROVE  g.name \in ArgNames(u) /\ collectBackwardSlice(g.name, f) # {}
    BY <1>1
  <2>1. collectBackwardSlice(g.name, f) # {}
    BY DEF FactsOf
  <2>2. PICK v \in u.src.args : g = FactOf(v.n, v.w, M[v.n])
    BY DEF FactsOf
  <2>3. g.name = v.n
    BY <2>2 DEF FactOf
  <2> QED BY <2>1, <2>2, <2>3 DEF ArgNames
<1> HIDE DEF M
<1>3. c.args = f.args /\ c.body = f.body /\ c.slice = K
  BY DEF buildCombinedFactCheck
<1>4. c.claims = {[fact |-> g] : g \in side.facts} \cup
                 {[claim |-> o] : o \in {q \in side.obligations :
                                           \A k \in DOMAIN q.ops : Const(q.ops[k]) \/ q.ops[k].n \in K}}
  BY DEF buildCombinedFactCheck
<1>5. \A g \in side.facts : g.name \in K /\ g.name \in Names(f.body)
  <2> TAKE g \in side.facts
  <2>1. g.name \in collectBackwardSlice(g.name, f)
    BY <1>2, SliceFacts
  <2>2. g.name \in Names(f.body)
    BY <2>1, SliceFacts
  <2> QED BY <2>1, <2>2
<1>6. DependsOnly(K, f)
  <2> SUFFICES ASSUME NEW k \in DOMAIN f.body, f.body[k].name \in K, NEW j \in DOMAIN f.body[k].a,
                      ~Const(f.body[k].a[j]), f.body[k].a[j].n \in Names(f.body)
               PROVE  f.body[k].a[j].n \in K
    BY DEF DependsOnly
  <2>1. PICK g \in side.facts : f.body[k].name \in collectBackwardSlice(g.name, f)
    OBVIOUS
  <2>2. DependsOnly(collectBackwardSlice(g.name, f), f)
    BY SliceFacts
  <2>3. f.body[k].a[j].n \in collectBackwardSlice(g.name, f)
    BY <2>1, <2>2 DEF DependsOnly
  <2> QED BY <2>1, <2>3
<1>7. \A S \in SUBSET Names(f.body) :
        ArgNames(u) \cap Names(f.body) \subseteq S /\ DependsOnly(S, f) => K \subseteq S
  <2> SUFFICES ASSUME NEW S \in SUBSET Names(f.body), ArgNames(u) \cap Names(f.body) \subseteq S,
                      DependsOnly(S, f), NEW g \in side.facts
               PROVE  collectBackwardSlice(g.name, f) \subseteq S
    OBVIOUS
  <2>1. g.name \in S
    BY <1>2, <1>5
  <2> QED BY <2>1, SliceFacts
<1>8. \A o \in side.obligations :
        /\ Len(o.ops) \in Nat \ {0} /\ DOMAIN o.ops = 1..Len(o.ops)
        /\ \A k \in DOMAIN o.ops : Const(o.ops[k]) \/ \E g \in side.facts : g.name = o.ops[k].n
  <2> SUFFICES ASSUME NEW o \in ObligationsOf(u, side.facts)
               PROVE  /\ Len(o.ops) \in Nat \ {0} /\ DOMAIN o.ops = 1..Len(o.ops)
                      /\ \A k \in DOMAIN o.ops : Const(o.ops[k]) \/ \E g \in side.facts : g.name = o.ops[k].n
    BY <1>1
  <2>1. PICK t \in Range(u.tgt.body) :
          /\ o.ops = t.a
          /\ \A j \in DOMAIN t.a : Const(t.a[j]) \/ \E g \in side.facts : g.name = t.a[j].n
    BY DEF ObligationsOf
  <2> QED BY <2>1 DEF IsUnit
<1> HIDE DEF K
<1>9. ASSUME NEW a \in Injected(side, u)
      PROVE  a \in c.claims /\ Assumption(a) /\ About(a) \subseteq K /\ About(a) \subseteq ArgNames(u)
  <2>1. CASE \E g \in side.facts : a = [fact |-> g]
    <3>1. PICK g \in side.facts : a = [fact |-> g]
      BY <2>1
    <3>2. "fact" \in DOMAIN a /\ a.fact = g
      BY <3>1
    <3>3. About(a) = {g.name}
      BY <3>2 DEF About
    <3> QED BY <3>1, <3>3, <1>2, <1>4, <1>5 DEF Assumption
  <2>2. CASE \E o \in side.obligations : a = [claim |-> o]
    <3>1. PICK o \in side.obligations : a = [claim |-> o]
      BY <2>2
    <3>2. "fact" \notin DOMAIN a /\ a.claim = o
      BY <3>1
    <3>3. \A n \in About(a) : \E g \in side.facts : n = g.name
      BY <3>1, <3>2, <1>8 DEF About
    <3>4. \A k \in DOMAIN o.ops : Const(o.ops[k]) \/ o.ops[k].n \in K
      BY <3>1, <1>8, <1>5
    <3>5. a \in c.claims
      BY <3>1, <3>4, <1>4
    <3>6. Assumption(a)
      BY <3>1, <1>8 DEF Assumption
    <3> QED BY <3>3, <3>5, <3>6, <1>2, <1>5
  <2> QED BY <2>1, <2>2 DEF Injected
<1>10. Nothing(side) => Injected(side, u) = {}
  BY DEF Nothing, Injected
<1> QED BY <1>3, <1>6, <1>7, <1>9, <1>10

\* An assumption that was put into a unit is true of one of the parents, as
\* soon as that has computed the arguments of the unit.
HoldsOnceComputed(a, u, f) ==
  \A p \in 0..Len(f.body) :
    ArgNames(u) \cap Names(f.body) \subseteq NamesUpTo(f, p) =>
      \A env \in Inputs(f.args, FALSE) : \A e \in Runs(f.body, Names(f.body), {env})[p] :
        e # Dead => About(a) \subseteq DOMAIN e /\ Holds(a, e)

\* One side of a proposal whose check holds.
LEMMA SideHolds ==
  ASSUME NEW u, IsUnit(u), NEW f, WellFormed(f), NEW side, side = collectFromParent(u, f),
         CheckHolds(buildCombinedFactCheck(side, f)), NEW a \in Injected(side, u)
  PROVE  HoldsOnceComputed(a, u, f) /\ Assumption(a) /\ About(a) \subseteq ArgNames(u)
<1> DEFINE c == buildCombinedFactCheck(side, f)
<1>1. /\ c.args = f.args /\ c.body = f.body /\ DependsOnly(c.slice, f)
      /\ \A S \in SUBSET Names(f.body) :
              ArgNames(u) \cap Names(f.body) \subseteq S /\ DependsOnly(S, f) => c.slice \subseteq S
      /\ a \in c.claims /\ Assumption(a) /\ About(a) \subseteq c.slice /\ About(a) \subseteq ArgNames(u)
  BY SideFacts
<1>2. CheckHolds(c)
  OBVIOUS
<1> HIDE DEF c
<1> SUFFICES ASSUME NEW p \in 0..Len(f.body), ArgNames(u) \cap Names(f.body) \subseteq NamesUpTo(f, p),
                    NEW env \in Inputs(f.args, FALSE), NEW e \in Runs(f.body, Names(f.body), {env})[p], e # Dead
             PROVE  About(a) \subseteq DOMAIN e /\ Holds(a, e)
  BY <1>1 DEF HoldsOnceComputed
<1>3. c.slice \subseteq NamesUpTo(f, p)
  BY <1>1, PrefixCloses
<1> QED BY <1>1, <1>2, <1>3, CheckCovers

\* The checks of a proposal cover everything it assumes.
ChecksHold(p) == \A k \in DOMAIN p.checks : CheckHolds(p.checks[k])
LEMMA ProposalHolds ==
  ASSUME NEW u, IsUnit(u), NEW s, NEW t, WellFormed(s), WellFormed(t),
         NEW p, p = proposeFromRanges(u, s, t), p.some, ChecksHold(p)
  PROVE  /\ p.modified.src = u.src /\ p.modified.tgt = u.tgt
         /\ \A a \in p.modified.assumes :
              /\ HoldsOnceComputed(a, u, s) \/ HoldsOnceComputed(a, u, t)
              /\ Assumption(a) /\ About(a) \subseteq ArgNames(u)
<1> DEFINE x == collectFromParent(u, s)
           y == collectFromParent(u, t)
<1>1. p = ProposalOf(u, s, x, t, y)
  BY DEF proposeFromRanges
<1> HIDE DEF x, y
<1>2. /\ p.modified = [u EXCEPT !.assumes = Injected(x, u) \cup Injected(y, u)]
      /\ p.checks = CheckOf(x, s) \o CheckOf(y, t)
  BY <1>1 DEF ProposalOf, NothingProposed
<1>3. /\ p.modified.src = u.src /\ p.modified.tgt = u.tgt
      /\ p.modified.assumes = Injected(x, u) \cup Injected(y, u)
  BY <1>2 DEF IsUnit
<1>4. ~Nothing(x) => CheckHolds(buildCombinedFactCheck(x, s))
  <2> SUFFICES ASSUME ~Nothing(x) PROVE CheckHolds(buildCombinedFactCheck(x, s))
    OBVIOUS
  <2>1. CheckOf(x, s) = <<buildCombinedFactCheck(x, s)>>
    BY DEF CheckOf
  <2>2. CheckOf(y, t) = <<>> \/ CheckOf(y, t) = <<buildCombinedFactCheck(y, t)>>
    BY DEF CheckOf
  <2>3. 1 \in DOMAIN p.checks /\ p.checks[1] = buildCombinedFactCheck(x, s)
    BY <1>2, <2>1, <2>2
  <2> QED BY <2>3 DEF ChecksHold
<1>5. ~Nothing(y) => CheckHolds(buildCombinedFactCheck(y, t))
  <2> SUFFICES ASSUME ~Nothing(y) PROVE CheckHolds(buildCombinedFactCheck(y, t))
    OBVIOUS
  <2>1. CheckOf(y, t) = <<buildCombinedFactCheck(y, t)>>
    BY DEF CheckOf
  <2>2. CheckOf(x, s) = <<>> \/ CheckOf(x, s) = <<buildCombinedFactCheck(x, s)>>
    BY DEF CheckOf
  <2>3. \E k \in DOMAIN p.checks : p.checks[k] = buildCombinedFactCheck(y, t)
    <3>1. CASE CheckOf(x, s) = <<>>
      <4>1. 1 \in DOMAIN p.checks /\ p.checks[1] = buildCombinedFactCheck(y, t)
        BY <1>2, <2>1, <3>1
      <4> QED BY <4>1
    <3>2. CASE CheckOf(x, s) = <<buildCombinedFactCheck(x, s)>>
      <4>1. 2 \in DOMAIN p.checks /\ p.checks[2] = buildCombinedFactCheck(y, t)
        BY <1>2, <2>1, <3>2
      <4> QED BY <4>1
    <3> QED BY <2>2, <3>1, <3>2
  <2> QED BY <2>3 DEF ChecksHold
<1>6. ASSUME NEW a \in p.modified.assumes
      PROVE  /\ HoldsOnceComputed(a, u, s) \/ HoldsOnceComputed(a, u, t)
             /\ Assumption(a) /\ About(a) \subseteq ArgNames(u)
  <2>1. CASE a \in Injected(x, u)
    <3>1. ~Nothing(x)
      BY <2>1, SideFacts DEF x
    <3> QED BY <2>1, <3>1, <1>4, SideHolds DEF x
  <2>2. CASE a \in Injected(y, u)
    <3>1. ~Nothing(y)
      BY <2>2, SideFacts DEF y
    <3> QED BY <2>2, <3>1, <1>5, SideHolds DEF y
  <2> QED BY <2>1, <2>2, <1>3
<1> QED BY <1>3, <1>6

(***************************************************************************)
(* The unit of a region.                                                   *)
(***************************************************************************)
RegionSet == [src : Seq(Instruction), tgt : Seq(Instruction), is_asymmetric : BOOLEAN]
Params(r) == unionNamedOperands(collectExternalOperands(r.src), collectExternalOperands(r.tgt))

\* What is known of a unit that could be built.
LEMMA UnitFacts ==
  ASSUME NEW r \in RegionSet, NEW u, u = buildTvUnit(r), u.ok
  PROVE  /\ IsUnit(u) /\ u.assumes = {}
         /\ u.src = buildHalf(r.src, Params(r)) /\ u.tgt = buildHalf(r.tgt, Params(r))
         /\ IF r.is_asymmetric THEN r.src # <<>> /\ r.tgt # <<>> /\ Last(r.src).w = Last(r.tgt).w
            ELSE \A k \in DOMAIN r.src : r.src[k].w = r.tgt[k].w
<1> DEFINE P == Params(r)
<1>0. ~NoUnit.ok
  BY DEF NoUnit
<1>1. /\ u = LiftUnit(r.src, r.tgt)
      /\ IF r.is_asymmetric THEN r.src # <<>> /\ r.tgt # <<>> /\ Last(r.src).w = Last(r.tgt).w
         ELSE \A k \in DOMAIN r.src : r.src[k].w = r.tgt[k].w
  <2> HIDE DEF NoUnit
  <2>1. CASE r.is_asymmetric
    <3>1. u = buildAsymTvUnit(r.src, r.tgt)
      BY <2>1 DEF buildTvUnit
    <3>2. r.src # <<>> /\ r.tgt # <<>> /\ Last(r.src).w = Last(r.tgt).w
      BY <3>1, <1>0 DEF buildAsymTvUnit
    <3> QED BY <2>1, <3>1, <3>2 DEF buildAsymTvUnit
  <2>2. CASE ~r.is_asymmetric
    <3>1. \A k \in DOMAIN r.src : r.src[k].w = r.tgt[k].w
      BY <2>2, <1>0 DEF buildTvUnit
    <3> QED BY <2>2, <3>1 DEF buildTvUnit
  <2> QED BY <2>1, <2>2
<1>2. u = [ok |-> TRUE, src |-> buildHalf(r.src, P), tgt |-> buildHalf(r.tgt, P), assumes |-> {}]
  BY <1>0, <1>1 DEF LiftUnit, Params
<1>3. \A i \in Range(u.tgt.body) : Len(i.a) \in Nat \ {0} /\ DOMAIN i.a = 1..Len(i.a)
  <2> SUFFICES ASSUME NEW i \in Range(buildHalf(r.tgt, P).body)
               PROVE  Len(i.a) \in Nat \ {0} /\ DOMAIN i.a = 1..Len(i.a)
    BY <1>2
  <2>1. PICK k \in DOMAIN r.tgt : i.a = [j \in DOMAIN r.tgt[k].a |->
                                          IF ~Const(r.tgt[k].a[j]) /\ r.tgt[k].a[j].n \in Names(r.tgt)
                                          THEN [r.tgt[k].a[j] EXCEPT !.n = CloneName(r.tgt[k].a[j].n, P)]
                                          ELSE r.tgt[k].a[j]]
    <3> DEFINE Wired(d) == [j \in DOMAIN d.a |-> IF ~Const(d.a[j]) /\ d.a[j].n \in Names(r.tgt)
                                               THEN [d.a[j] EXCEPT !.n = CloneName(d.a[j].n, P)]
                                               ELSE d.a[j]]
    <3>1. buildHalf(r.tgt, P).body =
            [k \in DOMAIN r.tgt |-> [r.tgt[k] EXCEPT !.name = CloneName(r.tgt[k].name, P), !.a = Wired(r.tgt[k])]]
      BY DEF buildHalf
    <3>2. PICK k \in DOMAIN r.tgt :
            i = [r.tgt[k] EXCEPT !.name = CloneName(r.tgt[k].name, P), !.a = Wired(r.tgt[k])]
      <4> DEFINE Clone(k) == [r.tgt[k] EXCEPT !.name = CloneName(r.tgt[k].name, P), !.a = Wired(r.tgt[k])]
      <4>1. buildHalf(r.tgt, P).body = [k \in DOMAIN r.tgt |-> Clone(k)]
        BY <3>1
      <4> HIDE DEF Clone
      <4>2. \E k \in DOMAIN r.tgt : i = Clone(k)
        BY <4>1 DEF Range
      <4> QED BY <4>2 DEF Clone
    <3>3. r.tgt[k] \in Instruction
      BY DEF RegionSet
    <3>4. i.a = Wired(r.tgt[k])
      <4> HIDE DEF Wired
      <4>1. \A d \in Instruction : \A x, y : [d EXCEPT !.name = x, !.a = y].a = y
        BY DEF Instruction
      <4> QED BY <4>1, <3>2, <3>3
    <3> QED BY <3>4
  <2>2. r.tgt[k] \in Instruction
    BY DEF RegionSet
  <2>3. Len(r.tgt[k].a) \in Nat \ {0} /\ DOMAIN r.tgt[k].a = 1..Len(r.tgt[k].a)
    <3>1. r.tgt[k].a \in Seq(NamedOperand \cup ConstOperand) /\ r.tgt[k].a # <<>>
      BY <2>2 DEF Instruction, WellTyped
    <3> QED BY <3>1
  <2>4. DOMAIN i.a = DOMAIN r.tgt[k].a
    BY <2>1
  <2>5. Len(i.a) = Len(r.tgt[k].a)
    BY <2>3, <2>1
  <2> QED BY <2>3, <2>4, <2>5
<1> QED BY <1>1, <1>2, <1>3 DEF IsUnit

(***************************************************************************)
(* The driver.                                                             *)
(***************************************************************************)
\* The regions of two functions.
LEMMA RegionsFacts ==
  ASSUME NEW s, NEW t, s.body \in Seq(Instruction), t.body \in Seq(Instruction), s.ret = t.ret
  PROVE  /\ computeDiffRegions(s, t) \in Seq(RegionSet)
         /\ Len(computeDiffRegions(s, t)) =
              IF Len(s.body) = Len(t.body) THEN Len(Groups(s, t)) ELSE Len(Groups(s, t)) + 1
         /\ \A j \in 1..Len(Groups(s, t)) :
              computeDiffRegions(s, t)[j] =
                Region(SubSeq(s.body, Groups(s, t)[j][1], Groups(s, t)[j][2]),
                       SubSeq(t.body, Groups(s, t)[j][1], Groups(s, t)[j][2]), FALSE)
         /\ Len(s.body) # Len(t.body) =>
              computeDiffRegions(s, t)[Len(Groups(s, t)) + 1] =
                Region(SubSeq(s.body, PairedLength(s, t) + 1, Len(s.body)),
                       SubSeq(t.body, PairedLength(s, t) + 1, Len(t.body)), TRUE)
<1> DEFINE len == PairedLength(s, t)
           g == Groups(s, t)
           Part(j) == Region(SubSeq(s.body, g[j][1], g[j][2]), SubSeq(t.body, g[j][1], g[j][2]), FALSE)
           paired == [j \in DOMAIN g |-> Part(j)]
           tail == Region(SubSeq(s.body, len + 1, Len(s.body)), SubSeq(t.body, len + 1, Len(t.body)), TRUE)
<1>1. computeDiffRegions(s, t) = IF Len(s.body) = Len(t.body) THEN paired ELSE Append(paired, tail)
  BY DEF computeDiffRegions
<1>2. GroupsUpTo(g, len + 1, s, t)
  BY GroupsOK
<1>3. len \in Nat /\ len <= Len(s.body) /\ len <= Len(t.body)
  BY PairedLengthFacts
<1> HIDE DEF g, len
<1>4. g \in Seq(Nat \X Nat) /\ Len(g) \in Nat /\ DOMAIN g = 1..Len(g)
  BY <1>2 DEF GroupsUpTo
<1>5. \A j \in DOMAIN g : Part(j) \in RegionSet
  <2> SUFFICES ASSUME NEW j \in DOMAIN g PROVE Part(j) \in RegionSet
    OBVIOUS
  <2>1. g[j] \in Nat \X Nat /\ 1 <= g[j][1] /\ g[j][2] < len + 1
    BY <1>2, <1>4 DEF GroupsUpTo
  <2>2. g[j][1] \in Nat /\ g[j][2] \in Nat /\ g[j][2] <= Len(s.body) /\ g[j][2] <= Len(t.body)
    BY <2>1, <1>3
  <2>3. SubSeq(s.body, g[j][1], g[j][2]) \in Seq(Instruction)
    BY <2>1, <2>2
  <2>4. SubSeq(t.body, g[j][1], g[j][2]) \in Seq(Instruction)
    BY <2>1, <2>2
  <2> QED BY <2>3, <2>4 DEF Region, RegionSet
<1>6. tail \in RegionSet
  <2>1. SubSeq(s.body, len + 1, Len(s.body)) \in Seq(Instruction)
    BY <1>3
  <2>2. SubSeq(t.body, len + 1, Len(t.body)) \in Seq(Instruction)
    BY <1>3
  <2> QED BY <2>1, <2>2 DEF Region, RegionSet
<1> HIDE DEF Part, tail
<1>7. paired \in Seq(RegionSet) /\ Len(paired) = Len(g) /\ \A j \in 1..Len(g) : paired[j] = Part(j)
  BY <1>4, <1>5
<1> HIDE DEF paired
<1>8. /\ Append(paired, tail) \in Seq(RegionSet) /\ Len(Append(paired, tail)) = Len(g) + 1
      /\ Append(paired, tail)[Len(g) + 1] = tail
      /\ \A j \in 1..Len(g) : Append(paired, tail)[j] = paired[j]
  BY <1>4, <1>6, <1>7
<1>9. CASE Len(s.body) = Len(t.body)
  BY <1>1, <1>7, <1>9 DEF g, Part
<1>10. CASE Len(s.body) # Len(t.body)
  BY <1>1, <1>7, <1>8, <1>10 DEF g, Part, tail, len
<1> QED BY <1>9, <1>10

Working == {"regions", "plain", "propose", "checks"}
\* Why a region passed.
Justified(r, s, t) ==
  LET u == buildTvUnit(r)  p == proposeFromRanges(u, s, t)
  IN  /\ u.ok
      /\ u.src = u.tgt \/ UnitHolds(u) \/ (p.some /\ ChecksHold(p) /\ UnitHolds(p.modified))

\* The two functions.
Function == [args : {Args}, body : Seq(Instruction), ret : NamedOperand \cup {None}]
FnInv == src \in Function /\ tgt \in Function /\ SSA(src) /\ SSA(tgt)
\* The verdicts so far, and the regions without one.
VerdictsInv ==
  phase \in Working \cup {"accepted"} =>
    LET all == computeDiffRegions(src, tgt)
    IN  /\ src.ret = tgt.ret /\ src.ret \in NamedOperand
        /\ src.ret.n \in Names(src.body) /\ tgt.ret.n \in Names(tgt.body)
        /\ regions \in Seq(RegionSet) /\ verdicts \in Seq(Statuses)
        /\ Len(verdicts) + Len(regions) = Len(all)
        /\ \A k \in DOMAIN regions : regions[k] = all[Len(verdicts) + k]
        /\ \A k \in DOMAIN verdicts : Passed(verdicts[k]) => Justified(all[k], src, tgt)
\* The region at work.
UnitInv ==
  phase \in {"plain", "propose", "checks"} =>
    /\ regions # <<>> /\ unit = buildTvUnit(Head(regions)) /\ unit.ok
    /\ phase # "plain" => plain \in Statuses /\ ~Passed(plain)
CheckInv ==
  /\ done \in Nat /\ (phase # "checks" => done = 0)
  /\ phase = "checks" =>
       /\ proposal = proposeFromRanges(unit, src, tgt) /\ proposal.some
       /\ Len(proposal.checks) \in Nat /\ DOMAIN proposal.checks = 1..Len(proposal.checks)
       /\ \A k \in 1..done : CheckHolds(proposal.checks[k])
AcceptedInv == phase = "accepted" => regions = <<>> /\ \A k \in DOMAIN verdicts : Passed(verdicts[k])
DriverInv == /\ FnInv /\ VerdictsInv /\ UnitInv /\ CheckInv /\ AcceptedInv
             /\ phase \in {"load", "loaded"} => verdicts = <<>>

\* Append, element by element.
LEMMA AppendFacts ==
  ASSUME NEW S, NEW x \in Seq(S), NEW v \in S
  PROVE  /\ Len(Append(x, v)) = Len(x) + 1 /\ DOMAIN Append(x, v) = 1..(Len(x) + 1)
         /\ Append(x, v)[Len(x) + 1] = v /\ \A k \in 1..Len(x) : Append(x, v)[k] = x[k]
  OBVIOUS
\* Tail, element by element.
LEMMA TailFacts ==
  ASSUME NEW S, NEW x \in Seq(S), x # <<>>
  PROVE  /\ Len(Tail(x)) = Len(x) - 1 /\ DOMAIN Tail(x) = 1..(Len(x) - 1)
         /\ \A k \in 1..(Len(x) - 1) : Tail(x)[k] = x[k + 1]
  OBVIOUS
\* The checks of a proposal are a sequence of one or two.
LEMMA ProposalChecks ==
  ASSUME NEW u, NEW s, NEW t, NEW p, p = proposeFromRanges(u, s, t), p.some
  PROVE  Len(p.checks) \in Nat /\ DOMAIN p.checks = 1..Len(p.checks)
<1> DEFINE x == collectFromParent(u, s)
           y == collectFromParent(u, t)
<1>1. p = ProposalOf(u, s, x, t, y)
  BY DEF proposeFromRanges
<1> HIDE DEF x, y
<1>2. p.checks = CheckOf(x, s) \o CheckOf(y, t)
  BY <1>1 DEF ProposalOf, NothingProposed
<1> DEFINE c == buildCombinedFactCheck(x, s)
           d == buildCombinedFactCheck(y, t)
<1> HIDE DEF c, d
<1>3. CheckOf(x, s) \in Seq({c, d}) /\ CheckOf(y, t) \in Seq({c, d})
  <2>1. CheckOf(x, s) = <<>> \/ CheckOf(x, s) = <<c>>
    BY DEF CheckOf, c
  <2>2. CheckOf(y, t) = <<>> \/ CheckOf(y, t) = <<d>>
    BY DEF CheckOf, d
  <2>3. <<>> \in Seq({c, d}) /\ <<c>> \in Seq({c, d}) /\ <<d>> \in Seq({c, d})
    OBVIOUS
  <2> QED BY <2>1, <2>2, <2>3
<1> HIDE DEF CheckOf
<1>4. p.checks \in Seq({c, d})
  BY <1>2, <1>3
<1> QED BY <1>4

\* A function that got more instructions.
LEMMA GrowFacts ==
  ASSUME NEW f \in Function, NEW s \in Seq(Instruction)
  PROVE  [f EXCEPT !.body = @ \o s] \in Function
<1>1. f.body \o s \in Seq(Instruction)
  BY DEF Function
<1> DEFINE b == f.body \o s
<1> HIDE DEF b
<1>2. [f EXCEPT !.body = b] \in Function
  BY <1>1 DEF Function, b
<1> QED BY <1>2 DEF b
\* The functions of the driver are well formed.
LEMMA FunctionFacts ==
  ASSUME NEW f \in Function, SSA(f)
  PROVE  WellFormed(f) /\ f.args = Args
  BY TvNextAssumption DEF Function, WellFormed

\* A verdict on the first region without one.
LEMMA ConcludeKeeps ==
  ASSUME DriverInv, phase \in Working, regions # <<>>, NEW v \in Statuses, Conclude(v),
         Passed(v) => Justified(Head(regions), src, tgt)
  PROVE  DriverInv'
<1> DEFINE all == computeDiffRegions(src, tgt)
<1>1. /\ src.ret = tgt.ret /\ src.ret \in NamedOperand
      /\ src.ret.n \in Names(src.body) /\ tgt.ret.n \in Names(tgt.body)
      /\ regions \in Seq(RegionSet) /\ verdicts \in Seq(Statuses)
      /\ Len(verdicts) + Len(regions) = Len(all)
      /\ \A k \in DOMAIN regions : regions[k] = all[Len(verdicts) + k]
      /\ \A k \in DOMAIN verdicts : Passed(verdicts[k]) => Justified(all[k], src, tgt)
  BY DEF DriverInv, VerdictsInv
<1>2. /\ verdicts' = Append(verdicts, v) /\ regions' = Tail(regions) /\ phase' = "regions"
      /\ done' = 0 /\ src' = src /\ tgt' = tgt
  BY DEF Conclude
<1>3. FnInv'
  BY <1>2 DEF DriverInv, FnInv
<1>4. VerdictsInv'
  <2> HIDE DEF all
  <2> DEFINE n == Len(verdicts)
  <2>1. /\ n \in Nat /\ Len(regions) \in Nat \ {0} /\ Head(regions) = regions[1] /\ 1 \in DOMAIN regions
        /\ DOMAIN verdicts = 1..n /\ DOMAIN regions = 1..Len(regions)
    BY <1>1
  <2>2. regions' \in Seq(RegionSet) /\ verdicts' \in Seq(Statuses)
    BY <1>1, <1>2
  <2>3. /\ Len(verdicts') = n + 1 /\ Len(regions') = Len(regions) - 1
        /\ DOMAIN verdicts' = 1..(n + 1) /\ DOMAIN regions' = 1..(Len(regions) - 1)
        /\ verdicts'[n + 1] = v /\ \A k \in 1..n : verdicts'[k] = verdicts[k]
        /\ \A k \in 1..(Len(regions) - 1) : regions'[k] = regions[k + 1]
    <3> DEFINE x == Append(verdicts, v)
               y == Tail(regions)
    <3>1. /\ Len(x) = n + 1 /\ DOMAIN x = 1..(n + 1)
          /\ x[n + 1] = v /\ \A k \in 1..n : x[k] = verdicts[k]
      BY <1>1, AppendFacts
    <3>2. /\ Len(y) = Len(regions) - 1 /\ DOMAIN y = 1..(Len(regions) - 1)
          /\ \A k \in 1..(Len(regions) - 1) : y[k] = regions[k + 1]
      BY <1>1, TailFacts
    <3>3. verdicts' = x /\ regions' = y
      BY <1>2
    <3> HIDE DEF x, y, n
    <3> QED BY <3>1, <3>2, <3>3
  <2>4. Len(verdicts') + Len(regions') = Len(all)
    <3>1. (n + 1) + (Len(regions) - 1) = n + Len(regions)
      BY <2>1
    <3> QED BY <3>1, <1>1, <2>3
  <2>5. \A k \in DOMAIN regions' : regions'[k] = all[Len(verdicts') + k]
    <3> TAKE k \in DOMAIN regions'
    <3>1. k + 1 \in DOMAIN regions /\ regions'[k] = regions[k + 1]
      <4>1. k \in 1..(Len(regions) - 1)
        BY <2>3
      <4>2. k + 1 \in 1..Len(regions)
        BY <4>1, <2>1
      <4> QED BY <4>1, <4>2, <2>1, <2>3
    <3>2. regions[k + 1] = all[n + (k + 1)]
      BY <3>1, <1>1
    <3>3. n + (k + 1) = (n + 1) + k
      <4>1. k \in 1..(Len(regions) - 1)
        BY <2>3
      <4> QED BY <4>1, <2>1
    <3> QED BY <3>1, <3>2, <3>3, <2>3
  <2>6. \A k \in DOMAIN verdicts' : Passed(verdicts'[k]) => Justified(all[k], src, tgt)
    <3> SUFFICES ASSUME NEW k \in DOMAIN verdicts', Passed(verdicts'[k]) PROVE Justified(all[k], src, tgt)
      OBVIOUS
    <3>1. CASE k = n + 1
      <4>1. Head(regions) = all[n + 1]
        BY <2>1, <1>1
      <4> QED BY <4>1, <3>1, <2>3
    <3>2. CASE k # n + 1
      <4>1. k \in DOMAIN verdicts /\ verdicts'[k] = verdicts[k]
        BY <3>2, <2>1, <2>3
      <4> QED BY <4>1, <1>1
    <3> QED BY <3>1, <3>2
  <2> HIDE DEF n
  <2> QED BY <1>1, <1>2, <2>2, <2>4, <2>5, <2>6 DEF VerdictsInv, all
<1>5. UnitInv' /\ CheckInv' /\ AcceptedInv' /\ (phase \in {"load", "loaded"} => verdicts = <<>>)'
  BY <1>2 DEF UnitInv, CheckInv, AcceptedInv
<1> QED BY <1>3, <1>4, <1>5 DEF DriverInv

\* An answer of Alive2 that passes is right.
LEMMA OnceAnswers ==
  ASSUME NEW h, NEW v \in runOnce(h)
  PROVE  v \in Statuses /\ (Passed(v) => h)
<1>1. v \in {"Correct", "Unsound", "FailedToProve"} /\ (v = "Correct" => h)
  <2>1. CASE h
    BY <2>1 DEF runOnce
  <2>2. CASE ~h
    BY <2>2 DEF runOnce
  <2> QED BY <2>1, <2>2
<1>2. v \in Statuses /\ (Passed(v) => v = "Correct")
  BY <1>1 DEF Passed, Statuses
<1> QED BY <1>1, <1>2

\* The driver starts with nothing.
LEMMA DriverInit == Init => DriverInv
<1> SUFFICES ASSUME Init PROVE DriverInv
  OBVIOUS
<1>1. Fn(<<>>) \in Function /\ SSA(Fn(<<>>))
  BY DEF Fn, Function, SSA
<1>2. FnInv
  BY <1>1 DEF Init, FnInv
<1>3. VerdictsInv /\ UnitInv /\ CheckInv /\ AcceptedInv
  BY DEF Init, VerdictsInv, UnitInv, CheckInv, AcceptedInv, Working
<1> QED BY <1>2, <1>3 DEF Init, DriverInv

\* Every step keeps what the driver knows.
LEMMA DriverStep == DriverInv /\ [Next]_vars => DriverInv'
<1> SUFFICES ASSUME DriverInv, [Next]_vars PROVE DriverInv'
  OBVIOUS
<1>0. /\ FnInv /\ VerdictsInv /\ UnitInv /\ CheckInv /\ AcceptedInv
      /\ phase \in {"load", "loaded"} => verdicts = <<>>
  BY DEF DriverInv
<1>f. WellFormed(src) /\ WellFormed(tgt)
  BY <1>0, FunctionFacts DEF FnInv
\* More instructions of both functions.
<1>g. ASSUME NEW s \in Seq(Instruction), NEW t \in Seq(Instruction), Grow(s, t)
      PROVE  FnInv' /\ phase = "load"
  <2> DEFINE f == [src EXCEPT !.body = @ \o s]
             g == [tgt EXCEPT !.body = @ \o t]
  <2>1. f \in Function /\ g \in Function
    BY <1>0, GrowFacts DEF FnInv
  <2>2. SSA(f) /\ SSA(g) /\ src' = f /\ tgt' = g /\ phase = "load"
    BY <1>g DEF Grow
  <2> HIDE DEF f, g
  <2>3. FnInv'
    BY <2>1, <2>2 DEF FnInv
  <2> QED BY <2>2, <2>3
<1>1. CASE AddPair
  <2>1. PICK p \in Menu[Len(src.body) + 1] : Grow(<<p[1]>>, <<p[2]>>)
    BY <1>1 DEF AddPair
  <2>2. <<p[1]>> \in Seq(Instruction) /\ <<p[2]>> \in Seq(Instruction)
    <3>1. Len(src.body) + 1 \in 1..Len(Menu)
      BY <1>1, <1>f DEF AddPair, WellFormed
    <3>2. Menu[Len(src.body) + 1] \in SUBSET (Instruction \X Instruction)
      BY <3>1, TvNextAssumption
    <3>3. p[1] \in Instruction /\ p[2] \in Instruction
      BY <3>2, <2>1
    <3> QED BY <3>3
  <2>3. FnInv' /\ phase = "load"
    BY <2>1, <2>2, <1>g
  <2>4. UNCHANGED <<phase, regions, unit, plain, proposal, done, verdicts>>
    BY <1>1 DEF AddPair
  <2> QED BY <2>3, <2>4, <1>0 DEF DriverInv, VerdictsInv, UnitInv, CheckInv, AcceptedInv, Working
<1>2. CASE AddTail
  <2>1. PICK p \in Tails : Grow(p[1], p[2])
    BY <1>2 DEF AddTail
  <2>2. p[1] \in Seq(Instruction) /\ p[2] \in Seq(Instruction)
    BY <2>1, TvNextAssumption
  <2>3. FnInv' /\ phase = "load"
    BY <2>1, <2>2, <1>g
  <2>4. phase' = "loaded" /\ UNCHANGED <<regions, unit, plain, proposal, done, verdicts>>
    BY <1>2 DEF AddTail
  <2> QED BY <2>3, <2>4, <1>0 DEF DriverInv, VerdictsInv, UnitInv, CheckInv, AcceptedInv, Working
<1>3. CASE Load
  <2>1. PICK p \in Rets : LET s == [src EXCEPT !.ret = p[1]]  t == [tgt EXCEPT !.ret = p[2]]
                          IN  /\ p[1].n \in Names(src.body) /\ p[2].n \in Names(tgt.body)
                              /\ src' = s /\ tgt' = t
                              /\ IF s.ret # t.ret THEN phase' = "rejected" /\ UNCHANGED regions
                                 ELSE phase' = "regions" /\ regions' = computeDiffRegions(s, t)
    BY <1>3 DEF Load
  <2>2. /\ phase \in {"load", "loaded"} /\ UNCHANGED <<unit, plain, proposal, done, verdicts>>
        /\ verdicts = <<>> /\ done = 0
    BY <1>3, <1>0 DEF Load, CheckInv
  <2>3. p[1] \in NamedOperand /\ p[2] \in NamedOperand
    BY TvNextAssumption
  <2>4. /\ src' \in Function /\ src'.body = src.body /\ src'.args = src.args /\ src'.ret = p[1]
        /\ tgt' \in Function /\ tgt'.body = tgt.body /\ tgt'.args = tgt.args /\ tgt'.ret = p[2]
    <3>1. \A f \in Function : \A r \in NamedOperand :
            LET h == [f EXCEPT !.ret = r]
            IN  h \in Function /\ h.body = f.body /\ h.args = f.args /\ h.ret = r
      BY DEF Function
    <3> QED BY <3>1, <2>1, <2>3, <1>0 DEF FnInv
  <2>5. SSA(src') /\ SSA(tgt')
    BY <2>4, <1>0 DEF FnInv, SSA, Before
  <2>6. FnInv'
    BY <2>4, <2>5 DEF FnInv
  <2>7. CASE p[1] # p[2]
    <3>1. phase' = "rejected"
      BY <2>1, <2>4, <2>7
    <3> QED BY <3>1, <2>2, <2>6 DEF DriverInv, VerdictsInv, UnitInv, CheckInv, AcceptedInv, Working
  <2>8. CASE p[1] = p[2]
    <3>1. phase' = "regions" /\ regions' = computeDiffRegions(src', tgt') /\ src'.ret = tgt'.ret
      BY <2>1, <2>4, <2>8
    <3>2. src'.body \in Seq(Instruction) /\ tgt'.body \in Seq(Instruction)
      BY <2>4 DEF Function
    <3>3. computeDiffRegions(src', tgt') \in Seq(RegionSet)
      BY <3>1, <3>2, RegionsFacts
    <3>4. VerdictsInv'
      <4>1. verdicts' = <<>> /\ Len(verdicts') = 0 /\ DOMAIN verdicts' = {} /\ verdicts' \in Seq(Statuses)
        BY <2>2
      <4> DEFINE all == computeDiffRegions(src', tgt')
      <4>2. regions' = all /\ Len(verdicts') + Len(regions') = Len(all)
        BY <4>1, <3>1, <3>3
      <4>3. \A k \in DOMAIN regions' : regions'[k] = all[Len(verdicts') + k]
        <5> TAKE k \in DOMAIN regions'
        <5>1. k \in Nat
          BY <3>1, <3>3
        <5>2. Len(verdicts') + k = k
          BY <4>1, <5>1
        <5> QED BY <5>2, <4>2
      <4>4. /\ src'.ret = tgt'.ret /\ src'.ret \in NamedOperand
            /\ src'.ret.n \in Names(src'.body) /\ tgt'.ret.n \in Names(tgt'.body)
        BY <2>1, <2>3, <2>4, <3>1
      <4>5. regions' \in Seq(RegionSet)
        BY <3>3, <4>2
      <4> QED BY <4>1, <4>2, <4>3, <4>4, <4>5 DEF VerdictsInv
    <3> QED BY <3>1, <3>4, <2>2, <2>6 DEF DriverInv, UnitInv, CheckInv, AcceptedInv
  <2> QED BY <2>7, <2>8
<1>4. CASE BuildUnit
  <2> DEFINE u == buildTvUnit(Head(regions))
  <2>1. /\ phase = "regions" /\ regions # <<>>
        /\ IF ~u.ok THEN Conclude("Error")
           ELSE phase' = "plain" /\ unit' = u /\ UNCHANGED <<src, tgt, regions, plain, proposal, done, verdicts>>
    BY <1>4 DEF BuildUnit
  <2>2. CASE ~u.ok
    <3>1. PICK v \in Statuses : v = "Error"
      BY DEF Statuses
    <3>2. Conclude(v) /\ ~Passed(v) /\ phase \in Working
      BY <2>1, <2>2, <3>1 DEF Passed, Working
    <3> QED BY <3>2, <2>1, ConcludeKeeps
  <2>3. CASE u.ok
    <3>1. phase' = "plain" /\ unit' = u /\ UNCHANGED <<src, tgt, regions, plain, proposal, done, verdicts>>
      BY <2>1, <2>3
    <3>2. FnInv'
      BY <3>1, <1>0 DEF FnInv
    <3>3. VerdictsInv'
      BY <3>1, <2>1, <1>0 DEF VerdictsInv, Working
    <3>4. UnitInv'
      BY <3>1, <2>1, <2>3 DEF UnitInv
    <3>5. CheckInv' /\ AcceptedInv'
      BY <3>1, <2>1, <1>0 DEF CheckInv, AcceptedInv
    <3> QED BY <3>1, <3>2, <3>3, <3>4, <3>5 DEF DriverInv
  <2> QED BY <2>2, <2>3
<1>5. CASE VerifyPlain
  <2>1. /\ phase = "plain" /\ phase \in Working /\ regions # <<>>
        /\ unit = buildTvUnit(Head(regions)) /\ unit.ok
    BY <1>5, <1>0 DEF VerifyPlain, UnitInv, Working
  <2>2. CASE unit.src = unit.tgt
    <3>0. PICK v \in Statuses : v = "SyntacticallyEqual"
      BY DEF Statuses
    <3>1. Conclude(v)
      BY <1>5, <2>2, <3>0 DEF VerifyPlain
    <3>2. Justified(Head(regions), src, tgt)
      BY <2>1, <2>2 DEF Justified
    <3> QED BY <3>1, <3>2, <2>1, ConcludeKeeps
  <2>3. CASE unit.src # unit.tgt
    <3>1. PICK v \in runOnce(UnitHolds(unit)) :
            IF Passed(v) THEN Conclude(v)
            ELSE phase' = "propose" /\ plain' = v /\ UNCHANGED <<src, tgt, regions, unit, proposal, done, verdicts>>
      BY <1>5, <2>3 DEF VerifyPlain
    <3>2. v \in Statuses /\ (Passed(v) => UnitHolds(unit))
      BY <3>1, OnceAnswers
    <3>3. CASE Passed(v)
      <4>1. Justified(Head(regions), src, tgt)
        BY <2>1, <3>2, <3>3 DEF Justified
      <4> QED BY <4>1, <3>1, <3>2, <3>3, <2>1, ConcludeKeeps
    <3>4. CASE ~Passed(v)
      <4>1. phase' = "propose" /\ plain' = v /\ UNCHANGED <<src, tgt, regions, unit, proposal, done, verdicts>>
        BY <3>1, <3>4
      <4>2. FnInv'
        BY <4>1, <1>0 DEF FnInv
      <4>3. VerdictsInv'
        BY <4>1, <2>1, <1>0 DEF VerdictsInv, Working
      <4>4. UnitInv'
        BY <4>1, <2>1, <3>2, <3>4 DEF UnitInv, Passed
      <4>5. CheckInv' /\ AcceptedInv'
        BY <4>1, <2>1, <1>0 DEF CheckInv, AcceptedInv
      <4> QED BY <4>1, <4>2, <4>3, <4>4, <4>5 DEF DriverInv
    <3> QED BY <3>3, <3>4
  <2> QED BY <2>2, <2>3
<1>6. CASE Propose
  <2> DEFINE p == proposeFromRanges(unit, src, tgt)
  <2>1. /\ phase = "propose" /\ phase \in Working /\ regions # <<>>
        /\ unit = buildTvUnit(Head(regions)) /\ unit.ok /\ plain \in Statuses /\ ~Passed(plain)
    BY <1>6, <1>0 DEF Propose, UnitInv, Working
  <2>2. IF ~p.ok THEN phase' = "crashed" /\ UNCHANGED <<src, tgt, regions, unit, plain, proposal, done, verdicts>>
        ELSE IF ~p.some THEN Conclude(plain)
        ELSE /\ phase' = "checks" /\ proposal' = p
             /\ UNCHANGED <<src, tgt, regions, unit, plain, done, verdicts>>
    BY <1>6 DEF Propose
  <2>3. CASE ~p.ok
    <3>1. phase' = "crashed" /\ UNCHANGED <<src, tgt, regions, unit, plain, proposal, done, verdicts>>
      BY <2>2, <2>3
    <3> QED BY <3>1, <2>1, <1>0 DEF DriverInv, FnInv, VerdictsInv, UnitInv, CheckInv, AcceptedInv, Working
  <2>4. CASE p.ok /\ ~p.some
    <3>1. Conclude(plain)
      BY <2>2, <2>4
    <3> QED BY <3>1, <2>1, ConcludeKeeps
  <2>5. CASE p.ok /\ p.some
    <3>1. phase' = "checks" /\ proposal' = p /\ UNCHANGED <<src, tgt, regions, unit, plain, done, verdicts>>
      BY <2>2, <2>5
    <3>2. Len(p.checks) \in Nat /\ DOMAIN p.checks = 1..Len(p.checks)
      BY <2>5, ProposalChecks
    <3> HIDE DEF p
    <3>3. FnInv'
      BY <3>1, <1>0 DEF FnInv
    <3>4. VerdictsInv'
      BY <3>1, <2>1, <1>0 DEF VerdictsInv, Working
    <3>5. UnitInv'
      BY <3>1, <2>1 DEF UnitInv, Passed
    <3>6. CheckInv'
      <4>1. done' = 0 /\ done' \in Nat
        BY <3>1, <2>1, <1>0 DEF CheckInv
      <4>2. proposal' = proposeFromRanges(unit', src', tgt')
        BY <3>1 DEF p
      <4> QED BY <4>1, <4>2, <3>1, <3>2, <2>5 DEF CheckInv
    <3>7. AcceptedInv'
      BY <3>1 DEF AcceptedInv
    <3> QED BY <3>1, <3>3, <3>4, <3>5, <3>6, <3>7 DEF DriverInv
  <2> QED BY <2>3, <2>4, <2>5
<1>7. CASE RunCheck
  <2>1. /\ phase = "checks" /\ phase \in Working /\ regions # <<>> /\ plain \in Statuses /\ ~Passed(plain)
    BY <1>7, <1>0 DEF RunCheck, UnitInv, Working
  <2>2. PICK v \in runOnce(CheckHolds(proposal.checks[done + 1])) :
          IF Passed(v)
          THEN done' = done + 1 /\ UNCHANGED <<phase, src, tgt, regions, unit, plain, proposal, verdicts>>
          ELSE Conclude(plain)
    BY <1>7 DEF RunCheck
  <2>3. CASE ~Passed(v)
    <3>1. Conclude(plain)
      BY <2>2, <2>3
    <3> QED BY <3>1, <2>1, ConcludeKeeps
  <2>4. CASE Passed(v)
    <3>1. done' = done + 1 /\ UNCHANGED <<phase, src, tgt, regions, unit, plain, proposal, verdicts>>
      BY <2>2, <2>4
    <3>2. CheckHolds(proposal.checks[done + 1])
      BY <2>2, <2>4, OnceAnswers
    <3>3. FnInv' /\ VerdictsInv' /\ UnitInv' /\ AcceptedInv'
      BY <3>1, <1>0 DEF FnInv, VerdictsInv, UnitInv, AcceptedInv
    <3>4. CheckInv'
      <4>1. done \in Nat /\ \A k \in 1..done : CheckHolds(proposal.checks[k])
        BY <1>0, <2>1 DEF CheckInv
      <4>2. \A k \in 1..(done + 1) : k = done + 1 \/ k \in 1..done
        BY <4>1
      <4>3. done + 1 \in Nat /\ \A k \in 1..(done + 1) : CheckHolds(proposal.checks[k])
        BY <4>1, <4>2, <3>2
      <4> QED BY <4>3, <3>1, <2>1, <1>0 DEF CheckInv
    <3> QED BY <3>1, <3>3, <3>4, <2>1 DEF DriverInv
  <2> QED BY <2>3, <2>4
<1>8. CASE VerifyModified
  <2>1. /\ phase = "checks" /\ phase \in Working /\ regions # <<>> /\ plain \in Statuses /\ ~Passed(plain)
        /\ unit = buildTvUnit(Head(regions)) /\ unit.ok
    BY <1>8, <1>0 DEF VerifyModified, UnitInv, Working
  <2>2. PICK v \in runOnce(UnitHolds(proposal.modified)) : Conclude(IF Passed(v) THEN v ELSE plain)
    BY <1>8 DEF VerifyModified
  <2>3. v \in Statuses /\ (Passed(v) => UnitHolds(proposal.modified))
    BY <2>2, OnceAnswers
  <2>4. proposal = proposeFromRanges(unit, src, tgt) /\ proposal.some /\ ChecksHold(proposal)
    BY <1>8, <1>0, <2>1 DEF VerifyModified, CheckInv, ChecksHold
  <2>5. CASE Passed(v)
    <3>1. Conclude(v)
      BY <2>2, <2>5
    <3>2. Justified(Head(regions), src, tgt)
      BY <2>1, <2>3, <2>4, <2>5 DEF Justified
    <3> QED BY <3>1, <3>2, <2>1, <2>3, ConcludeKeeps
  <2>6. CASE ~Passed(v)
    <3>1. Conclude(plain)
      BY <2>2, <2>6
    <3> QED BY <3>1, <2>1, ConcludeKeeps
  <2> QED BY <2>5, <2>6
<1>9. CASE composeVerdicts
  <2>1. /\ phase = "regions" /\ regions = <<>>
        /\ phase' = IF \A k \in DOMAIN verdicts : Passed(verdicts[k]) THEN "accepted" ELSE "rejected"
        /\ UNCHANGED <<src, tgt, regions, unit, plain, proposal, done, verdicts>>
    BY <1>9 DEF composeVerdicts
  <2>2. FnInv'
    BY <2>1, <1>0 DEF FnInv
  <2>3. VerdictsInv'
    BY <2>1, <1>0 DEF VerdictsInv, Working
  <2>4. AcceptedInv'
    BY <2>1 DEF AcceptedInv
  <2>5. UnitInv' /\ CheckInv'
    BY <2>1, <1>0 DEF UnitInv, CheckInv
  <2>6. phase' \notin {"load", "loaded"}
    BY <2>1
  <2> QED BY <2>2, <2>3, <2>4, <2>5, <2>6 DEF DriverInv
<1>10. CASE UNCHANGED vars
  BY <1>10, <1>0 DEF vars, DriverInv, FnInv, VerdictsInv, UnitInv, CheckInv, AcceptedInv
<1> QED BY <1>1, <1>2, <1>3, <1>4, <1>5, <1>6, <1>7, <1>8, <1>9, <1>10 DEF Next

(***************************************************************************)
(* The theorems about the driver.                                          *)
(***************************************************************************)
\* What the driver knows is always true.
LEMMA DriverInvariant == Spec => []DriverInv
  BY DriverInit, DriverStep, PTL DEF Spec

\* Whenever the modified unit is about to be verified, every assumption in it
\* is true of the values one of its parents computes, for all functions and
\* whatever the range analysis believed: the checks of proposeFromRanges that
\* passed cover each one of them, and what a slice computes is what the parent
\* computes.
THEOREM AssumptionsAreJustified == Spec => []AssumptionsJustified
<1>1. DriverInv => AssumptionsJustified
  <2> SUFFICES ASSUME DriverInv, phase = "checks", done = Len(proposal.checks), NEW a \in Assumed
               PROVE  \E f \in {src, tgt} : \A env \in Inputs(Args, FALSE) :
                        \A e \in Executions(f.body, Names(f.body), env) :
                          e # Dead => (About(a) \subseteq DOMAIN e /\ Holds(a, e))
    BY DEF AssumptionsJustified
  <2>1. src \in Function /\ tgt \in Function /\ SSA(src) /\ SSA(tgt)
    BY DEF DriverInv, FnInv
  <2>2. WellFormed(src) /\ WellFormed(tgt) /\ src.args = Args /\ tgt.args = Args
    BY <2>1, FunctionFacts
  <2>3. Head(regions) \in RegionSet /\ unit = buildTvUnit(Head(regions)) /\ unit.ok
    <3>1. regions \in Seq(RegionSet) /\ regions # <<>>
      BY DEF DriverInv, VerdictsInv, UnitInv, Working
    <3>2. Head(regions) \in RegionSet
      BY <3>1
    <3> QED BY <3>2 DEF DriverInv, UnitInv
  <2>4. IsUnit(unit)
    BY <2>3, UnitFacts
  <2>5. proposal = proposeFromRanges(unit, src, tgt) /\ proposal.some /\ ChecksHold(proposal)
    BY DEF DriverInv, CheckInv, ChecksHold
  <2>6. PICK f \in {src, tgt} : HoldsOnceComputed(a, unit, f)
    BY <2>2, <2>4, <2>5, ProposalHolds DEF Assumed
  <2>7. WellFormed(f) /\ f.args = Args /\ Len(f.body) \in Nat /\ DOMAIN f.body = 1..Len(f.body)
    BY <2>2, <2>6 DEF WellFormed
  <2>8. Len(f.body) \in 0..Len(f.body) /\ NamesUpTo(f, Len(f.body)) = Names(f.body)
    BY <2>7 DEF NamesUpTo, Names
  <2>9. \A env \in Inputs(Args, FALSE) : \A e \in Executions(f.body, Names(f.body), env) :
          e # Dead => (About(a) \subseteq DOMAIN e /\ Holds(a, e))
    BY <2>6, <2>7, <2>8 DEF HoldsOnceComputed, Executions
  <2> QED BY <2>9
<1> QED BY <1>1, DriverInvariant, PTL

(***************************************************************************)
(* A segment of a function, and the half of a unit that stands for it.     *)
(***************************************************************************)
\* The half, when no clone has to be renamed.
Half(insts, P) == [args |-> P, body |-> insts, ret |-> ResultOf(Last(insts))]

\* A record that is overwritten with what it holds is what it was.
LEMMA SameInstruction ==
  ASSUME NEW i \in Instruction
  PROVE  [i EXCEPT !.name = i.name, !.a = i.a] = i
  BY DEF Instruction
LEMMA SameOperand ==
  ASSUME NEW v \in NamedOperand
  PROVE  [v EXCEPT !.n = v.n] = v
  BY DEF NamedOperand

\* buildHalf copies the instructions when no name of theirs is a parameter.
LEMMA HalfIsClone ==
  ASSUME NEW insts \in Seq(Instruction), NEW P, insts # <<>>, \A v \in P : v.n \notin Names(insts)
  PROVE  buildHalf(insts, P) = Half(insts, P)
<1> DEFINE Wired(i) == [k \in DOMAIN i.a |-> IF ~Const(i.a[k]) /\ i.a[k].n \in Names(insts)
                                             THEN [i.a[k] EXCEPT !.n = CloneName(i.a[k].n, P)]
                                             ELSE i.a[k]]
           Clone(i) == [i EXCEPT !.name = CloneName(i.name, P), !.a = Wired(i)]
           body == [k \in DOMAIN insts |-> Clone(insts[k])]
<1>1. buildHalf(insts, P) = [args |-> P, body |-> body, ret |-> [k |-> "v", n |-> Last(body).name, w |-> Last(body).w]]
  BY DEF buildHalf
<1>2. \A n \in Names(insts) : CloneName(n, P) = n
  BY DEF CloneName
<1>3. ASSUME NEW k \in DOMAIN insts PROVE Clone(insts[k]) = insts[k]
  <2> DEFINE i == insts[k]
  <2>1. i \in Instruction /\ i.name \in Names(insts)
    BY <1>3 DEF Names
  <2>2. i.a \in Seq(NamedOperand \cup ConstOperand)
    BY <2>1 DEF Instruction
  <2> HIDE DEF i
  <2>3. \A j \in DOMAIN i.a : Wired(i)[j] = i.a[j]
    <3> SUFFICES ASSUME NEW j \in DOMAIN i.a, ~Const(i.a[j]), i.a[j].n \in Names(insts)
                 PROVE  [i.a[j] EXCEPT !.n = CloneName(i.a[j].n, P)] = i.a[j]
      OBVIOUS
    <3>1. i.a[j] \in NamedOperand
      <4>1. i.a[j] \in NamedOperand \cup ConstOperand
        BY <2>2
      <4>2. \A c \in ConstOperand : Const(c)
        BY DEF ConstOperand, Const
      <4> QED BY <4>1, <4>2
    <3>2. CloneName(i.a[j].n, P) = i.a[j].n
      BY <1>2
    <3> QED BY <3>1, <3>2, SameOperand
  <2>4. Wired(i) = i.a
    <3>1. Wired(i) = [j \in DOMAIN i.a |-> Wired(i)[j]]
      OBVIOUS
    <3>2. i.a = [j \in DOMAIN i.a |-> i.a[j]]
      BY <2>2
    <3> HIDE DEF Wired
    <3> QED BY <3>1, <3>2, <2>3
  <2> HIDE DEF Wired
  <2>5. Clone(i) = i
    BY <2>1, <2>4, <1>2, SameInstruction
  <2> QED BY <2>5 DEF i
<1>4. body = insts
  <2> HIDE DEF Clone
  <2>1. body = [k \in DOMAIN insts |-> insts[k]]
    BY <1>3
  <2>2. insts = [k \in DOMAIN insts |-> insts[k]]
    OBVIOUS
  <2> QED BY <2>1, <2>2
<1> HIDE DEF body
<1> QED BY <1>1, <1>4 DEF Half, ResultOf

\* The positions lo to hi of a function.
IsSegment(f, lo, hi, s) == lo \in 1..Len(f.body) /\ hi \in lo..Len(f.body) /\ s = SubSeq(f.body, lo, hi)

\* Parameters known before a segment, among them all it takes from there.
Feeds(P, f, lo, s) == P \subseteq Before(f, lo) /\ collectExternalOperands(s) \subseteq P
\* A segment as a half.
SegmentHalf(f, lo, hi, s, P) ==
  /\ s \in Seq(Instruction) /\ s # <<>> /\ Last(s) = f.body[hi]
  /\ \A v \in Before(f, lo) : v.n \notin Names(s)
  /\ WellFormed(Half(s, P))

\* A segment is a half when it is fed.
LEMMA SegmentFacts ==
  ASSUME NEW f, WellFormed(f), NEW lo, NEW hi, NEW seg, IsSegment(f, lo, hi, seg), NEW P, Feeds(P, f, lo, seg)
  PROVE  SegmentHalf(f, lo, hi, seg, P)
<1> USE DEF Feeds
<1> DEFINE s == SubSeq(f.body, lo, hi)
           B == f.body
           h == Half(s, P)
<1>z. lo \in 1..Len(B) /\ hi \in lo..Len(B) /\ seg = s
  BY DEF IsSegment
<1>0. B \in Seq(Instruction) /\ Len(B) \in Nat /\ DOMAIN B = 1..Len(B) /\ lo \in Nat /\ hi \in Nat
  BY <1>z DEF WellFormed
<1>1. /\ s \in Seq(Instruction) /\ Len(s) = hi - lo + 1 /\ DOMAIN s = 1..Len(s)
      /\ \A k \in 1..Len(s) : s[k] = B[lo + k - 1]
  BY <1>z, <1>0
<1>2. s # <<>>
  BY <1>z, <1>0, <1>1
<1>3. Last(s) = B[hi]
  <2>1. Len(s) \in 1..Len(s) /\ lo + Len(s) - 1 = hi
    BY <1>z, <1>0, <1>1
  <2>2. s[Len(s)] = B[lo + Len(s) - 1]
    BY <1>1, <2>1
  <2> HIDE DEF s
  <2> QED BY <2>1, <2>2 DEF Last
<1> HIDE DEF s
<1>a. \A k \in 1..Len(s) : lo + k - 1 \in 1..Len(B) /\ lo + k - 1 >= lo /\ lo + k - 1 <= hi
  BY <1>z, <1>0, <1>1
<1>4. ASSUME NEW v \in Before(f, lo), v.n \in Names(s) PROVE FALSE
  <2>1. PICK k \in 1..Len(s) : v.n = s[k].name
    BY <1>1, <1>4 DEF Names
  <2>2. v.n = B[lo + k - 1].name /\ lo + k - 1 \in 1..Len(B) /\ lo + k - 1 >= lo
    BY <1>1, <1>a, <2>1
  <2>3. CASE v \in f.args
    BY <2>2, <2>3, NamesDistinct
  <2>4. CASE v \notin f.args
    <3>1. PICK q \in 1..(lo - 1) : v = ResultOf(B[q])
      BY <1>4, <2>4 DEF Before
    <3>2. q \in 1..Len(B) /\ v.n = B[q].name /\ q # lo + k - 1
      BY <1>z, <1>0, <2>2, <3>1 DEF ResultOf
    <3> QED BY <2>2, <3>2, NamesDistinct
  <2> QED BY <2>3, <2>4
<1>5. SSA(h)
  <2>0. h.args = P /\ h.body = s
    BY DEF Half
  <2> HIDE DEF h
  <2> SUFFICES ASSUME NEW k \in DOMAIN s
               PROVE  /\ \A v \in Before(h, k) : v.n # s[k].name
                      /\ \A j \in DOMAIN s[k].a : Const(s[k].a[j]) \/ s[k].a[j] \in Before(h, k)
    BY <2>0 DEF SSA
  <2> DEFINE m == lo + k - 1
  <2>1. k \in 1..Len(s) /\ s[k] = B[m] /\ m \in 1..Len(B) /\ s[k].name \in Names(s) /\ m - lo + 1 = k
    <3>1. k \in 1..Len(s)
      BY <1>1
    <3>2. s[k].name \in Names(s)
      BY DEF Names
    <3>3. s[k] = B[m] /\ m \in 1..Len(B)
      BY <3>1, <1>1, <1>a
    <3>4. m - lo + 1 = k
      BY <3>1, <1>0, <1>1, <1>z
    <3> QED BY <3>1, <3>2, <3>3, <3>4
  <2>2. \A q \in 1..(k - 1) : q \in 1..Len(s) /\ lo + q - 1 # m
    BY <2>1, <1>0, <1>1, <1>z
  <2> HIDE DEF m
  <2>3. \A v \in Before(h, k) : v.n # s[k].name
    <3> SUFFICES ASSUME NEW v \in Before(h, k) PROVE v.n # s[k].name
      OBVIOUS
    <3>1. CASE v \in P
      BY <3>1, <1>4, <2>1
    <3>2. CASE v \notin P
      <4>1. PICK q \in 1..(k - 1) : v = ResultOf(s[q])
        BY <3>2, <2>0 DEF Before
      <4>2. v.n = B[lo + q - 1].name /\ lo + q - 1 \in 1..Len(B) /\ lo + q - 1 # m
        BY <4>1, <2>2, <1>1, <1>a DEF ResultOf
      <4> QED BY <4>2, <2>1, NamesDistinct
    <3> QED BY <3>1, <3>2
  <2>4. ASSUME NEW j \in DOMAIN s[k].a, ~Const(s[k].a[j]) PROVE s[k].a[j] \in Before(h, k)
    <3> DEFINE v == s[k].a[j]
    <3>1. CASE v.n \notin Names(s)
      <4>1. v \in Operands(s)
        BY <2>4 DEF Operands, Range
      <4>2. v \in P
        BY <4>1, <3>1, <2>4, <1>z DEF collectExternalOperands
      <4> QED BY <4>2, <2>0 DEF Before
    <3>2. CASE v.n \in Names(s)
      <4>1. v \in Before(f, m)
        BY <2>4, <2>1, <1>0 DEF WellFormed, SSA
      <4>2. v \notin Before(f, lo)
        BY <3>2, <1>4
      <4>3. PICK q \in 1..(m - 1) : v = ResultOf(B[q])
        BY <4>1, <4>2 DEF Before
      <4>4. ~(q <= lo - 1)
        <5> SUFFICES ASSUME q <= lo - 1 PROVE FALSE
          OBVIOUS
        <5>1. q \in 1..(lo - 1)
          BY <1>0, <1>z
        <5> QED BY <5>1, <4>2, <4>3 DEF Before
      <4>5. q - lo + 1 \in 1..(k - 1) /\ q - lo + 1 \in 1..Len(s) /\ lo + (q - lo + 1) - 1 = q
        BY <4>4, <2>1, <1>0, <1>1, <1>z
      <4>6. s[q - lo + 1] = B[q]
        BY <4>5, <1>1
      <4>7. v = ResultOf(s[q - lo + 1])
        BY <4>3, <4>6
      <4> QED BY <4>5, <4>7, <2>0 DEF Before
    <3> QED BY <3>1, <3>2
  <2> QED BY <2>3, <2>4
<1>6. Before(f, lo) \subseteq NamedOperand
  <2> SUFFICES ASSUME NEW q \in 1..(lo - 1) PROVE ResultOf(B[q]) \in NamedOperand
    BY DEF Before, WellFormed
  <2>1. B[q] \in Instruction
    BY <1>z, <1>0
  <2> QED BY <2>1 DEF Instruction, ResultOf, NamedOperand
<1>7. WellFormed(h)
  <2>1. h.args = P /\ h.body = s
    BY DEF Half
  <2> HIDE DEF h
  <2> QED BY <2>1, <1>1, <1>5, <1>6 DEF WellFormed
<1> QED BY <1>z, <1>1, <1>2, <1>3, <1>4, <1>7 DEF SegmentHalf

\* Two environments, source and target, that agree on operands.
Agree(x, e, L) == \A v \in L : Has(x, v) /\ Has(e, v) /\ Covers(x[v.n], e[v.n])
\* The values of parameters in an environment.
ValuesOf(e, P) == [n \in {v.n : v \in P} |-> e[n]]

\* They are inputs of a half.
LEMMA RestrictedInputs ==
  ASSUME NEW P, NEW e, \A v \in P : Has(e, v)
  PROVE  /\ ValuesOf(e, P) \in Inputs(P, TRUE) /\ ValuesOf(e, P) # Dead
         /\ \A v \in P : v.n \in DOMAIN ValuesOf(e, P) /\ ValuesOf(e, P)[v.n] = e[v.n]
<1> DEFINE r == ValuesOf(e, P)
<1>1. \A v \in P : v.n \in DOMAIN r /\ r[v.n] = e[v.n] /\ r[v.n] \in Domain(v, TRUE)
  BY DEF ValuesOf, Has
<1>2. r \in [{v.n : v \in P} -> UNION {Domain(v, TRUE) : v \in P}]
  <2> SUFFICES ASSUME NEW v \in P PROVE e[v.n] \in UNION {Domain(u, TRUE) : u \in P}
    BY DEF ValuesOf
  <2> QED BY DEF Has
<1>3. r # Dead
  <2> SUFFICES ASSUME r = Dead PROVE FALSE
    OBVIOUS
  <2>1. DOMAIN r = {v.n : v \in P}
    BY DEF ValuesOf
  <2>2. "ub" \in DOMAIN r /\ r["ub"] = UB
    BY DEF Dead
  <2>3. PICK v \in P : v.n = "ub"
    BY <2>1, <2>2
  <2>4. UB \in Domain(v, TRUE)
    BY <1>1, <2>2, <2>3
  <2> QED BY <2>4 DEF Domain, UB, Poison
<1> HIDE DEF r
<1> QED BY <1>1, <1>2, <1>3 DEF Inputs, r

\* A half executes like itself: every result has its width.
LEMMA HalfTyped ==
  ASSUME NEW h, WellFormed(h), NEW env, env # Dead, \A v \in h.args : Has(env, v),
         NEW e \in Runs(h.body, Names(h.body), {env})[Len(h.body)], e # Dead
  PROVE  \A v \in Before(h, Len(h.body) + 1) : Has(e, v)
<1>1. Len(h.body) \in Nat
  BY DEF WellFormed
<1>2. Before(h, 0 + 1) = h.args
  BY DEF Before
<1>3. Rel(h, {}, 0, env, env)
  BY <1>2 DEF Rel, Covers
<1>4. DependsOnly({}, h)
  BY DEF DependsOnly
<1>5. Len(h.body) \in 0..Len(h.body)
  BY <1>1
<1>7. Runs(h.body, {}, {env})[Len(h.body)] = Runs(h.body, {}, {env})[0]
  <2>1. 0 \in 0..Len(h.body) /\ \A q \in (0 + 1)..Len(h.body) : h.body[q].name \notin {}
    BY <1>1
  <2> QED BY <2>1, <1>1, SkipsRest
<1>8. Runs(h.body, {}, {env})[0] = {env}
  BY <1>1, RunsStep
<1>9. Dead \notin Runs(h.body, {}, {env})[Len(h.body)]
  BY <1>7, <1>8
<1>10. \E x \in Runs(h.body, {}, {env})[Len(h.body)] : x # Dead /\ Rel(h, {}, Len(h.body), x, e)
  BY <1>3, <1>4, <1>5, <1>9, Simulates
<1> QED BY <1>10 DEF Rel

\* The outcomes of a half that are not UB are values of its result.
LEMMA HalfOutcomes ==
  ASSUME NEW s, NEW P, WellFormed(Half(s, P)), s # <<>>, NEW env, env # Dead, \A v \in P : Has(env, v)
  PROVE  LET R == Runs(s, Names(s), {env})[Len(s)]
             r == ResultOf(Last(s))
         IN  /\ UB \in Outcomes(Half(s, P), env) <=> Dead \in R
             /\ \A e \in R : e # Dead => Has(e, r) /\ e[r.n] # UB /\ e[r.n] \in Outcomes(Half(s, P), env)
             /\ \A y \in Outcomes(Half(s, P), env) : y # UB => \E e \in R : e # Dead /\ e[r.n] = y
<1> DEFINE h == Half(s, P)
           R == Runs(s, Names(s), {env})[Len(s)]
           r == ResultOf(Last(s))
<1>1. h.args = P /\ h.body = s /\ h.ret = r
  BY DEF Half
<1>2. s \in Seq(Instruction) /\ Len(s) \in Nat \ {0}
  BY <1>1 DEF WellFormed
<1>3. \A e \in R : e # Dead => Has(e, r)
  <2>1. r \in Before(h, Len(s) + 1)
    <3>1. Last(s) = s[Len(s)] /\ Len(s) \in 1..((Len(s) + 1) - 1)
      BY <1>2 DEF Last
    <3> HIDE DEF h
    <3> QED BY <3>1, <1>1 DEF Before
  <2>2. \A e \in R : e # Dead => \A v \in Before(h, Len(s) + 1) : Has(e, v)
    <3> HIDE DEF h
    <3>1. WellFormed(h)
      BY DEF h
    <3> QED BY <3>1, <1>1, HalfTyped
  <2> QED BY <2>1, <2>2
<1>4. \A e \in R : e # Dead => e[r.n] # UB
  <2>1. \A v : UB \notin Domain(v, TRUE)
    BY DEF Domain, UB, Poison
  <2> QED BY <2>1, <1>3 DEF Has
<1>5. Outcomes(h, env) = {IF e = Dead THEN UB ELSE e[r.n] : e \in R}
  <2>1. ~Const(r)
    BY DEF Const, ResultOf
  <2>2. \A e : ValueIn(h.ret, e) = e[r.n]
    BY <2>1, <1>1 DEF ValueIn
  <2> HIDE DEF h, r
  <2> QED BY <2>2, <1>1 DEF Outcomes, Executions
<1> HIDE DEF R, r, h
<1>6. UB \in Outcomes(h, env) <=> Dead \in R
  BY <1>4, <1>5
<1>7. \A e \in R : e # Dead => e[r.n] \in Outcomes(h, env)
  BY <1>5
<1>8. \A y \in Outcomes(h, env) : y # UB => \E e \in R : e # Dead /\ e[r.n] = y
  BY <1>5
<1> QED BY <1>3, <1>4, <1>6, <1>7, <1>8 DEF R, r, h

\* A half on values that cover those of another environment.
LEMMA HalfCovers ==
  ASSUME NEW s, NEW P, WellFormed(Half(s, P)), s # <<>>, NEW x, NEW e, x # Dead, e # Dead, Agree(x, e, P),
         NEW d \in Runs(s, Names(s), {e})[Len(s)]
  PROVE  \/ Dead \in Runs(s, Names(s), {x})[Len(s)]
         \/ d # Dead /\ \E y \in Runs(s, Names(s), {x})[Len(s)] :
                          y # Dead /\ Agree(y, d, {ResultOf(Last(s))})
<1> DEFINE h == Half(s, P)
<1>1. h.args = P /\ h.body = s /\ WellFormed(h)
  BY DEF Half
<1> HIDE DEF h
<1>2. s \in Seq(Instruction) /\ Len(s) \in Nat \ {0}
  BY <1>1 DEF WellFormed
<1>3. Before(h, 0 + 1) = P
  BY <1>1 DEF Before
<1>4. Rel(h, Names(s), 0, x, e)
  BY <1>3 DEF Rel, Agree
<1>5. DependsOnly(Names(s), h)
  BY <1>1 DEF DependsOnly
<1>6. Len(s) \in 0..Len(s)
  BY <1>2
<1>7. CASE Dead \notin Runs(s, Names(s), {x})[Len(s)]
  <2>1. d # Dead /\ \E y \in Runs(s, Names(s), {x})[Len(s)] : y # Dead /\ Rel(h, Names(s), Len(s), y, d)
    BY <1>1, <1>4, <1>5, <1>6, <1>7, Simulates
  <2>2. PICK y \in Runs(s, Names(s), {x})[Len(s)] : y # Dead /\ Rel(h, Names(s), Len(s), y, d)
    BY <2>1
  <2>3. Last(s) = s[Len(s)] /\ Len(s) \in 1..((Len(s) + 1) - 1) /\ Len(s) \in DOMAIN s
    BY <1>2 DEF Last
  <2>4. ResultOf(Last(s)) \in Before(h, Len(s) + 1) /\ ResultOf(Last(s)).n \in Names(s)
    BY <2>3, <1>1 DEF Before, Names, ResultOf
  <2>5. Agree(y, d, {ResultOf(Last(s))})
    BY <2>2, <2>4 DEF Rel, Agree
  <2> QED BY <2>1, <2>2, <2>5
<1> QED BY <1>7

\* Where a segment ends from an environment.
Ends(s, x) == Runs(s, Names(s), {x})[Len(s)]
\* Halves of a segment that refine on the values of et.
Refining(s, t, P, et) ==
  /\ WellFormed(Half(s, P)) /\ WellFormed(Half(t, P)) /\ s # <<>> /\ t # <<>>
  /\ ResultOf(Last(s)) = ResultOf(Last(t))
  /\ RefinedBy(Outcomes(Half(s, P), ValuesOf(et, P)), Outcomes(Half(t, P), ValuesOf(et, P)))
\* Operands that a segment does not redefine, its parameters among them.
Spared(L, s, t, P) == P \subseteq L /\ \A v \in L : v.n \notin Names(s) /\ v.n \notin Names(t)
\* An end of the target that an end of the source covers.
Covered(s, es, d, L) == \/ Dead \in Ends(s, es)
                        \/ d # Dead /\ \E x \in Ends(s, es) : x # Dead /\ Agree(x, d, L)

\* Halves that refine carry agreement over a segment.
LEMMA SegmentStep ==
  ASSUME NEW s, NEW t, NEW P, NEW L, Spared(L, s, t, P),
         NEW es, NEW et, es # Dead, et # Dead, Agree(es, et, L), Refining(s, t, P, et), NEW d \in Ends(t, et)
  PROVE  Covered(s, es, d, L \cup {ResultOf(Last(t))})
<1> USE DEF Spared, Refining
<1> SUFFICES \/ Dead \in Runs(s, Names(s), {es})[Len(s)]
             \/ d # Dead /\ \E x \in Runs(s, Names(s), {es})[Len(s)] :
                              x # Dead /\ Agree(x, d, L \cup {ResultOf(Last(t))})
  BY DEF Covered, Ends
<1> USE DEF Ends
<1> DEFINE env == ValuesOf(et, P)
           r == ResultOf(Last(s))
           A == Outcomes(Half(s, P), env)
           C == Outcomes(Half(t, P), env)
<1>0. /\ s \in Seq(Instruction) /\ Len(s) \in Nat /\ DOMAIN s = 1..Len(s)
      /\ t \in Seq(Instruction) /\ Len(t) \in Nat /\ DOMAIN t = 1..Len(t)
  BY DEF WellFormed, Half
<1>1. /\ env # Dead /\ \A v \in P : v.n \in DOMAIN env /\ env[v.n] = et[v.n]
  BY RestrictedInputs DEF Agree
<1>2. Agree(env, et, P) /\ Agree(es, env, P) /\ \A v \in P : Has(env, v)
  BY <1>1 DEF Agree, Has, Covers
<1> HIDE DEF env
<1>3. \/ Dead \in Runs(t, Names(t), {env})[Len(t)]
      \/ d # Dead /\ \E y \in Runs(t, Names(t), {env})[Len(t)] : y # Dead /\ Agree(y, d, {r})
  BY <1>1, <1>2, HalfCovers
<1>4. \A e \in Runs(s, Names(s), {env})[Len(s)] :
        \/ Dead \in Runs(s, Names(s), {es})[Len(s)]
        \/ e # Dead /\ \E x \in Runs(s, Names(s), {es})[Len(s)] : x # Dead /\ Agree(x, e, {r})
  BY <1>1, <1>2, HalfCovers
<1>5. /\ UB \in A <=> Dead \in Runs(s, Names(s), {env})[Len(s)]
      /\ \A y \in A : y # UB => \E e \in Runs(s, Names(s), {env})[Len(s)] : e # Dead /\ e[r.n] = y
  BY <1>1, <1>2, HalfOutcomes
<1>6. /\ UB \in C <=> Dead \in Runs(t, Names(t), {env})[Len(t)]
      /\ \A e \in Runs(t, Names(t), {env})[Len(t)] : e # Dead => Has(e, r) /\ e[r.n] # UB /\ e[r.n] \in C
  <2>1. r = ResultOf(Last(t))
    OBVIOUS
  <2> HIDE DEF r
  <2> DEFINE q == ResultOf(Last(t))
  <2>2. /\ UB \in C <=> Dead \in Runs(t, Names(t), {env})[Len(t)]
        /\ \A e \in Runs(t, Names(t), {env})[Len(t)] : e # Dead => Has(e, q) /\ e[q.n] # UB /\ e[q.n] \in C
    BY <1>1, <1>2, HalfOutcomes
  <2> QED BY <2>1, <2>2
<1>7. RefinedBy(A, C)
  BY DEF env
<1> HIDE DEF A, C
<1>8. CASE Dead \in Runs(s, Names(s), {es})[Len(s)]
  BY <1>8
<1>9. CASE Dead \notin Runs(s, Names(s), {es})[Len(s)]
  <2>1. UB \notin A
    BY <1>4, <1>5, <1>9
  <2>2. UB \notin C /\ (Poison \in A \/ C \subseteq A)
    BY <2>1, <1>7 DEF RefinedBy
  <2>3. PICK y \in Runs(t, Names(t), {env})[Len(t)] : d # Dead /\ y # Dead /\ Agree(y, d, {r})
    BY <2>2, <1>3, <1>6
  <2>4. y[r.n] \in C /\ Covers(y[r.n], d[r.n]) /\ Has(d, r)
    BY <2>3, <1>6 DEF Agree
  <2>5. PICK a \in A : Covers(a, y[r.n]) /\ a # UB
    <3>1. Poison # UB
      BY DEF Poison, UB
    <3> QED BY <2>1, <2>2, <2>4 DEF Covers
  <2>6. PICK e \in Runs(s, Names(s), {env})[Len(s)] : e # Dead /\ e[r.n] = a
    BY <2>5, <1>5
  <2>7. PICK x \in Runs(s, Names(s), {es})[Len(s)] : x # Dead /\ Agree(x, e, {r})
    BY <2>6, <1>4, <1>9
  <2>8. Has(x, r) /\ Covers(x[r.n], d[r.n])
    BY <2>4, <2>5, <2>6, <2>7 DEF Agree, Covers
  <2>9. \A v \in L : Has(x, v) /\ Has(d, v) /\ Covers(x[v.n], d[v.n])
    <3> SUFFICES ASSUME NEW v \in L PROVE Has(x, v) /\ Has(d, v) /\ Covers(x[v.n], d[v.n])
      OBVIOUS
    <3>1. Has(es, v) /\ Has(et, v) /\ Covers(es[v.n], et[v.n])
      BY DEF Agree
    <3>2. v.n \in DOMAIN x /\ x[v.n] = es[v.n]
      <4>1. Len(s) \in 0..Len(s)
        BY <1>0
      <4>2. \A m \in DOMAIN es : m \in DOMAIN x /\ (m \notin Names(s) => x[m] = es[m])
        BY <4>1, <1>0, <2>7, Frame
      <4> QED BY <4>2, <3>1 DEF Has
    <3>3. v.n \in DOMAIN d /\ d[v.n] = et[v.n]
      <4>1. Len(t) \in 0..Len(t)
        BY <1>0
      <4>2. \A m \in DOMAIN et : m \in DOMAIN d /\ (m \notin Names(t) => d[m] = et[m])
        BY <4>1, <1>0, <2>3, Frame
      <4> QED BY <4>2, <3>1 DEF Has
    <3> QED BY <3>1, <3>2, <3>3 DEF Has
  <2>10. Agree(x, d, L \cup {ResultOf(Last(t))})
    BY <2>4, <2>8, <2>9 DEF Agree
  <2> QED BY <2>3, <2>7, <2>10
<1> QED BY <1>8, <1>9

\* What is known before a position is an argument or one of the first names.
LEMMA BeforeNames ==
  ASSUME NEW f, WellFormed(f), NEW lo \in 1..Len(f.body), NEW v \in Before(f, lo), v.n \in Names(f.body)
  PROVE  v.n \in NamesUpTo(f, lo - 1)
<1>1. DOMAIN f.body = 1..Len(f.body)
  BY DEF WellFormed
<1>2. v \notin f.args
  <2>1. PICK k \in DOMAIN f.body : v.n = f.body[k].name
    BY DEF Names
  <2> QED BY <2>1, <1>1, NamesDistinct
<1>3. PICK q \in 1..(lo - 1) : v = ResultOf(f.body[q])
  BY <1>2 DEF Before
<1> QED BY <1>3 DEF NamesUpTo, ResultOf

(***************************************************************************)
(* The two functions, from the same input.                                 *)
(***************************************************************************)
\* The environments of a function after p positions.
Reached(f, env, p) == Runs(f.body, Names(f.body), {env})[p]
\* After ps positions of S and pt of T, what T reached is covered by what S
\* reached, on the operands L.
Simulated(S, T, ps, pt, env, L) ==
  \A d \in Reached(T, env, pt) :
    \/ Dead \in Reached(S, env, ps)
    \/ d # Dead /\ \E x \in Reached(S, env, ps) : x # Dead /\ Agree(x, d, L)
\* The operands of a segment that it does not define.
External(s, t) == collectExternalOperands(s) \cup collectExternalOperands(t)
\* The halves of a segment refine on what T reached before position lo.
SegmentRefined(S, T, lo, s, t, env, L) ==
  \A es \in Reached(S, env, lo - 1), et \in Reached(T, env, lo - 1) :
    es # Dead /\ et # Dead /\ Agree(es, et, L) =>
      RefinedBy(Outcomes(Half(s, External(s, t)), ValuesOf(et, External(s, t))),
                Outcomes(Half(t, External(s, t)), ValuesOf(et, External(s, t))))

\* A segment continues from what its function reached.
LEMMA SegmentReached ==
  ASSUME NEW f, WellFormed(f), NEW lo, NEW hi, NEW s, IsSegment(f, lo, hi, s), NEW env
  PROVE  /\ Reached(f, env, hi) = UNION {Ends(s, x) : x \in Reached(f, env, lo - 1)}
         /\ Dead \in Reached(f, env, lo - 1) => Dead \in Reached(f, env, hi)
<1> DEFINE B == f.body
           p == lo - 1
           E == Runs(B, Names(B), {env})[p]
<1>1. B \in Seq(Instruction) /\ Len(B) \in Nat /\ lo \in 1..Len(B) /\ hi \in lo..Len(B) /\ s = SubSeq(B, lo, hi)
  BY DEF WellFormed, IsSegment
<1>2. p \in 0..Len(B) /\ hi \in p..Len(B) /\ p + 1 = lo /\ hi - p \in Nat
  BY <1>1
<1> HIDE DEF p, B
<1>3. Len(s) = hi - p /\ Runs(B, Names(B), {env})[hi] = Runs(s, Names(s), E)[hi - p]
  <2>1. /\ Len(SubSeq(B, p + 1, hi)) = hi - p
        /\ Runs(B, Names(B), {env})[hi] =
             Runs(SubSeq(B, p + 1, hi), Names(SubSeq(B, p + 1, hi)), Runs(B, Names(B), {env})[p])[hi - p]
    <3>1. B \in Seq(Instruction)
      BY <1>1
    <3> QED BY <3>1, <1>2, RunsSplit
  <2>2. s = SubSeq(B, p + 1, hi)
    BY <1>1, <1>2
  <2> QED BY <2>1, <2>2
<1>4. Dead \in E => Dead \in Runs(B, Names(B), {env})[hi]
  <2>1. Len(B) \in Nat
    BY <1>1
  <2> QED BY <2>1, <1>2, DeadStays
<1> HIDE DEF E
<1>5. Runs(s, Names(s), E)[Len(s)] = UNION {Runs(s, Names(s), {x})[Len(s)] : x \in E}
  <2>1. Len(s) \in Nat /\ Len(s) \in 0..Len(s)
    BY <1>2, <1>3
  <2> DEFINE n == Len(s)
             K == Names(s)
  <2> HIDE DEF n, K
  <2>2. n \in 0..Len(s) /\ Len(s) \in Nat
    BY <2>1 DEF n
  <2>3. \A d : d \in Runs(s, K, E)[n] <=> \E x \in E : d \in Runs(s, K, {x})[n]
    BY <2>2, RunsUnion
  <2>4. Runs(s, K, E)[n] = UNION {Runs(s, K, {x})[n] : x \in E}
    BY <2>3
  <2> QED BY <2>4 DEF n, K
<1> QED BY <1>3, <1>4, <1>5 DEF Reached, Ends, E, p, B

\* One segment of both functions.
LEMMA SegmentRuns ==
  ASSUME NEW S, NEW T, WellFormed(S), WellFormed(T),
         NEW lo, NEW hs, NEW ht, NEW s, NEW t, IsSegment(S, lo, hs, s), IsSegment(T, lo, ht, t),
         NEW L, L \subseteq Before(S, lo), L \subseteq Before(T, lo), External(s, t) \subseteq L,
         ResultOf(S.body[hs]) = ResultOf(T.body[ht]),
         NEW env, Simulated(S, T, lo - 1, lo - 1, env, L), SegmentRefined(S, T, lo, s, t, env, L)
  PROVE  Simulated(S, T, hs, ht, env, L \cup {ResultOf(T.body[ht])})
<1> DEFINE P == External(s, t)
           p == lo - 1
<1>1. P \subseteq L /\ Feeds(P, S, lo, s) /\ Feeds(P, T, lo, t)
  BY DEF External, Feeds
<1> HIDE DEF P, p
<1>2. SegmentHalf(S, lo, hs, s, P)
  BY <1>1, SegmentFacts
<1>3. SegmentHalf(T, lo, ht, t, P)
  BY <1>1, SegmentFacts
<1>4. Spared(L, s, t, P)
  BY <1>1, <1>2, <1>3 DEF Spared, SegmentHalf
<1>5. /\ Reached(S, env, hs) = UNION {Ends(s, x) : x \in Reached(S, env, p)}
      /\ Dead \in Reached(S, env, p) => Dead \in Reached(S, env, hs)
  BY SegmentReached DEF p
<1>6. Reached(T, env, ht) = UNION {Ends(t, x) : x \in Reached(T, env, p)}
  BY SegmentReached DEF p
<1> SUFFICES ASSUME NEW d \in Reached(T, env, ht), Dead \notin Reached(S, env, hs)
             PROVE  d # Dead /\ \E x \in Reached(S, env, hs) : x # Dead /\ Agree(x, d, L \cup {ResultOf(T.body[ht])})
  BY DEF Simulated
<1>7. PICK et \in Reached(T, env, p) : d \in Ends(t, et)
  BY <1>6
<1>8. PICK es \in Reached(S, env, p) : et # Dead /\ es # Dead /\ Agree(es, et, L)
  BY <1>5, <1>7 DEF Simulated, p
<1>9. Refining(s, t, P, et)
  <2>1. RefinedBy(Outcomes(Half(s, P), ValuesOf(et, P)), Outcomes(Half(t, P), ValuesOf(et, P)))
    BY <1>7, <1>8 DEF SegmentRefined, P, p
  <2> QED BY <2>1, <1>2, <1>3 DEF Refining, SegmentHalf
<1>10. Covered(s, es, d, L \cup {ResultOf(Last(t))})
  BY <1>4, <1>7, <1>8, <1>9, SegmentStep
<1>11. Ends(s, es) \subseteq Reached(S, env, hs) /\ Last(t) = T.body[ht]
  BY <1>3, <1>5, <1>8 DEF SegmentHalf
<1> QED BY <1>10, <1>11 DEF Covered

\* Refinement of a set of outcomes by itself.
LEMMA RefinedBySelf == ASSUME NEW A PROVE RefinedBy(A, A)
  BY DEF RefinedBy

\* The unit of a region that passed, on what the parents compute.
LEMMA RegionRefined ==
  ASSUME NEW S, NEW T, WellFormed(S), WellFormed(T),
         NEW lo, NEW hs, NEW ht, NEW r \in RegionSet,
         IsSegment(S, lo, hs, r.src), IsSegment(T, lo, ht, r.tgt),
         NEW L, L \subseteq Before(S, lo), L \subseteq Before(T, lo), External(r.src, r.tgt) \subseteq L,
         Justified(r, S, T), S.args = T.args, NEW env \in Inputs(S.args, FALSE)
  PROVE  SegmentRefined(S, T, lo, r.src, r.tgt, env, L)
<1> DEFINE s == r.src
           t == r.tgt
           P == External(s, t)
           u == buildTvUnit(r)
           q == proposeFromRanges(u, S, T)
<1>0. /\ lo \in 1..Len(S.body) /\ lo \in 1..Len(T.body)
      /\ lo - 1 \in 0..Len(S.body) /\ lo - 1 \in 0..Len(T.body)
  BY DEF WellFormed, IsSegment
<1>1. P = Params(r)
  BY DEF External, Params, unionNamedOperands
<1>2. P \subseteq L /\ P \subseteq Before(S, lo) /\ P \subseteq Before(T, lo)
  OBVIOUS
<1>3. Feeds(P, S, lo, s) /\ Feeds(P, T, lo, t)
  BY <1>2 DEF External, Feeds
<1> HIDE DEF P
<1>4. SegmentHalf(S, lo, hs, s, P)
  BY <1>3, SegmentFacts
<1>5. SegmentHalf(T, lo, ht, t, P)
  BY <1>3, SegmentFacts
<1>6. u.ok /\ (u.src = u.tgt \/ UnitHolds(u) \/ (q.some /\ ChecksHold(q) /\ UnitHolds(q.modified)))
  BY DEF Justified
<1>7. IsUnit(u) /\ u.assumes = {} /\ u.src = buildHalf(s, P) /\ u.tgt = buildHalf(t, P)
  BY <1>1, <1>6, UnitFacts
<1>8. u.src = Half(s, P) /\ u.tgt = Half(t, P)
  <2>1. buildHalf(s, P) = Half(s, P)
    BY <1>2, <1>4, HalfIsClone DEF SegmentHalf
  <2>2. buildHalf(t, P) = Half(t, P)
    BY <1>2, <1>5, HalfIsClone DEF SegmentHalf
  <2> QED BY <2>1, <2>2, <1>7
<1>9. u.src.args = P
  BY <1>8 DEF Half
<1> SUFFICES ASSUME NEW es \in Reached(S, env, lo - 1), NEW et \in Reached(T, env, lo - 1),
                    es # Dead, et # Dead, Agree(es, et, L)
             PROVE  RefinedBy(Outcomes(u.src, ValuesOf(et, P)), Outcomes(u.tgt, ValuesOf(et, P)))
  BY <1>8 DEF SegmentRefined, P
<1> DEFINE eu == ValuesOf(et, P)
<1>10. eu \in Inputs(P, TRUE) /\ \A v \in P : v.n \in DOMAIN eu /\ eu[v.n] = et[v.n]
  BY <1>2, RestrictedInputs DEF Agree
<1> HIDE DEF eu
<1>11. CASE u.src = u.tgt
  BY <1>11, RefinedBySelf DEF eu
<1>12. CASE UnitHolds(u)
  BY <1>12, <1>7, <1>9, <1>10 DEF UnitHolds, eu
<1>13. CASE q.some /\ ChecksHold(q) /\ UnitHolds(q.modified)
  <2> HIDE DEF u
  <2>1. /\ q.modified.src = u.src /\ q.modified.tgt = u.tgt
        /\ \A a \in q.modified.assumes :
             /\ HoldsOnceComputed(a, u, S) \/ HoldsOnceComputed(a, u, T)
             /\ Assumption(a) /\ About(a) \subseteq ArgNames(u)
    BY <1>7, <1>13, ProposalHolds
  <2> HIDE DEF q
  <2>2. ASSUME NEW a \in q.modified.assumes PROVE Holds(a, eu)
    <3>1. \A n \in About(a) : \E v \in P : v.n = n
      BY <2>1, <2>2, <1>9 DEF ArgNames
    <3>2. CASE HoldsOnceComputed(a, u, S)
      <4>1. ArgNames(u) \cap Names(S.body) \subseteq NamesUpTo(S, lo - 1)
        BY <1>0, <1>2, <1>9, BeforeNames DEF ArgNames
      <4>2. Holds(a, es)
        BY <4>1, <3>2, <1>0 DEF HoldsOnceComputed, Reached
      <4>3. \A n \in About(a) : Covers(es[n], eu[n])
        BY <3>1, <1>2, <1>10 DEF Agree
      <4> QED BY <4>2, <4>3, <2>1, <2>2, HoldsCovered
    <3>3. CASE HoldsOnceComputed(a, u, T)
      <4>1. ArgNames(u) \cap Names(T.body) \subseteq NamesUpTo(T, lo - 1)
        BY <1>0, <1>2, <1>9, BeforeNames DEF ArgNames
      <4>2. Holds(a, et)
        BY <4>1, <3>3, <1>0 DEF HoldsOnceComputed, Reached
      <4>3. \A n \in About(a) : Covers(et[n], eu[n])
        BY <3>1, <1>10 DEF Covers
      <4> QED BY <4>2, <4>3, <2>1, <2>2, HoldsCovered
    <3> QED BY <3>2, <3>3, <2>1, <2>2
  <2> QED BY <2>1, <2>2, <1>9, <1>10, <1>13 DEF UnitHolds, eu
<1> QED BY <1>6, <1>11, <1>12, <1>13

(***************************************************************************)
(* From group to group.                                                    *)
(***************************************************************************)
\* Position p is in a group, and not its exit.
Inside(g, p) == \E j \in DOMAIN g : g[j][1] <= p /\ p < g[j][2]
\* What both functions know after p positions.
Visible(T, g, p) == T.args \cup {ResultOf(T.body[q]) : q \in {k \in 1..p : ~Inside(g, k)}}
\* The results of a segment, its exit apart, are not used after it.
Hides(f, lo, hi) ==
  \A q \in lo..(hi - 1) :
    /\ f.ret.n # f.body[q].name
    /\ \A k \in (hi + 1)..Len(f.body) : \A j \in DOMAIN f.body[k].a :
         ~Const(f.body[k].a[j]) => f.body[k].a[j].n # f.body[q].name
\* The two segments refine wherever the functions agree on what they take.
SegmentsRefine(S, T, lo, s, t) ==
  \A env \in Inputs(S.args, FALSE) : \A L :
    L \subseteq Before(S, lo) /\ L \subseteq Before(T, lo) /\ External(s, t) \subseteq L =>
      SegmentRefined(S, T, lo, s, t, env, L)
\* What is known of a group whose region passed.
GroupPassed(S, T, lo, hi) ==
  /\ Hides(S, lo, hi) /\ Hides(T, lo, hi) /\ ResultOf(S.body[hi]) = ResultOf(T.body[hi])
  /\ SegmentsRefine(S, T, lo, SubSeq(S.body, lo, hi), SubSeq(T.body, lo, hi))
\* Two functions whose groups all passed.
Paired(S, T, g, len) ==
  /\ WellFormed(S) /\ WellFormed(T) /\ S.args = T.args
  /\ len \in Nat /\ len <= Len(S.body) /\ len <= Len(T.body)
  /\ GroupsUpTo(g, len + 1, S, T)
  /\ \A j \in DOMAIN g : GroupPassed(S, T, g[j][1], g[j][2])

\* A group is an interval of the compared positions.
LEMMA GroupBounds ==
  ASSUME NEW S, NEW T, NEW g, NEW len, Paired(S, T, g, len), NEW j \in DOMAIN g
  PROVE  /\ g[j][1] \in Nat /\ g[j][2] \in Nat /\ 1 <= g[j][1] /\ g[j][1] <= g[j][2] /\ g[j][2] <= len
         /\ \A i \in DOMAIN g : i # j => g[i][2] < g[j][1] \/ g[j][2] < g[i][1]
<1>1. GroupsUpTo(g, len + 1, S, T) /\ len \in Nat
  BY DEF Paired
<1>2. g[j] \in Nat \X Nat /\ 1 <= g[j][1] /\ g[j][1] <= g[j][2] /\ g[j][2] < len + 1
  BY <1>1 DEF GroupsUpTo
<1>3. g[j][1] \in Nat /\ g[j][2] \in Nat /\ g[j][2] <= len
  BY <1>1, <1>2
<1> QED BY <1>1, <1>2, <1>3 DEF GroupsUpTo

\* A visible position gives both functions the same result.
LEMMA SameResult ==
  ASSUME NEW S, NEW T, NEW g, NEW len, Paired(S, T, g, len), NEW q \in 1..len, ~Inside(g, q)
  PROVE  ResultOf(S.body[q]) = ResultOf(T.body[q])
<1>1. len \in Nat /\ GroupsUpTo(g, len + 1, S, T)
  BY DEF Paired
<1>2. S.body[q] = T.body[q] \/ \E j \in DOMAIN g : g[j][1] <= q /\ q <= g[j][2]
  <2>1. q \in 1..((len + 1) - 1)
    BY <1>1
  <2> QED BY <2>1, <1>1 DEF GroupsUpTo
<1>3. CASE S.body[q] = T.body[q]
  BY <1>3
<1>4. CASE \E j \in DOMAIN g : g[j][1] <= q /\ q <= g[j][2]
  <2>1. PICK j \in DOMAIN g : g[j][1] <= q /\ q <= g[j][2]
    BY <1>4
  <2>2. g[j][2] \in Nat
    BY GroupBounds
  <2>3. q = g[j][2]
    BY <2>1, <2>2 DEF Inside
  <2>4. GroupPassed(S, T, g[j][1], g[j][2])
    BY <2>1 DEF Paired
  <2> QED BY <2>3, <2>4 DEF GroupPassed
<1> QED BY <1>2, <1>3, <1>4

\* What is visible is known to both functions.
LEMMA VisibleKnown ==
  ASSUME NEW S, NEW T, NEW g, NEW len, Paired(S, T, g, len), NEW p \in 0..len
  PROVE  Visible(T, g, p) \subseteq Before(S, p + 1) /\ Visible(T, g, p) \subseteq Before(T, p + 1)
<1>1. len \in Nat /\ S.args = T.args
  BY DEF Paired
<1> SUFFICES ASSUME NEW v \in Visible(T, g, p) PROVE v \in Before(S, p + 1) /\ v \in Before(T, p + 1)
  OBVIOUS
<1>2. CASE v \in T.args
  BY <1>1, <1>2 DEF Before
<1>3. CASE v \notin T.args
  <2>1. PICK q \in 1..p : ~Inside(g, q) /\ v = ResultOf(T.body[q])
    BY <1>3 DEF Visible
  <2>2. q \in 1..len /\ q \in 1..((p + 1) - 1)
    BY <1>1
  <2>3. v = ResultOf(S.body[q])
    BY <2>1, <2>2, SameResult
  <2> QED BY <2>1, <2>2, <2>3 DEF Before
<1> QED BY <1>2, <1>3

\* A segment that starts where no group is open takes only what is visible.
LEMMA ExternalVisible ==
  ASSUME NEW S, NEW T, NEW g, NEW len, Paired(S, T, g, len), NEW p \in 0..len, ~Inside(g, p),
         NEW f \in {S, T}, NEW hi, NEW s, IsSegment(f, p + 1, hi, s)
  PROVE  collectExternalOperands(s) \subseteq Visible(T, g, p)
<1> DEFINE B == f.body
<1>0. /\ WellFormed(f) /\ f.args = T.args /\ len \in Nat /\ p \in Nat /\ len <= Len(B)
      /\ B \in Seq(Instruction) /\ Len(B) \in Nat /\ DOMAIN B = 1..Len(B)
  BY DEF Paired, WellFormed
<1>1. p + 1 \in 1..Len(B) /\ hi \in (p + 1)..Len(B) /\ s = SubSeq(B, p + 1, hi)
  BY DEF IsSegment
<1>2. /\ s \in Seq(Instruction) /\ Len(s) = hi - p /\ DOMAIN s = 1..Len(s)
      /\ \A k \in 1..(hi - p) : s[k] = B[p + k] /\ p + k \in 1..Len(B) /\ p + k > p
  BY <1>0, <1>1
<1> SUFFICES ASSUME NEW v \in collectExternalOperands(s) PROVE v \in Visible(T, g, p)
  OBVIOUS
<1>3. v \in Operands(s) /\ ~Const(v) /\ v.n \notin Names(s)
  BY DEF collectExternalOperands
<1>4. PICK m \in DOMAIN s : v \in Range(s[m].a)
  BY <1>3 DEF Operands
<1>5. PICK j \in DOMAIN s[m].a : v = s[m].a[j]
  BY <1>4 DEF Range
<1> DEFINE k == p + m
<1>6. s[m] = B[k] /\ k \in 1..Len(B) /\ k > p /\ k <= hi
  BY <1>0, <1>1, <1>2, <1>4
<1>7. v \in Before(f, k)
  BY <1>0, <1>3, <1>5, <1>6 DEF WellFormed, SSA
<1>8. CASE v \in f.args
  BY <1>8, <1>0 DEF Visible
<1>9. CASE v \notin f.args
  <2>1. PICK q \in 1..(k - 1) : v = ResultOf(B[q])
    BY <1>7, <1>9 DEF Before
  <2>2. v.n = B[q].name /\ q \in Nat /\ q >= 1 /\ q < k
    <3> HIDE DEF k
    <3> QED BY <2>1, <1>6 DEF ResultOf
  <2>3. q <= p
    <3> SUFFICES ASSUME q > p PROVE FALSE
      BY <2>2, <1>0
    <3>1. q - p \in 1..(hi - p) /\ q - p \in DOMAIN s /\ p + (q - p) = q
      BY <2>2, <1>0, <1>1, <1>2, <1>6
    <3>2. s[q - p].name = v.n
      BY <3>1, <2>2, <1>2
    <3> QED BY <3>1, <3>2, <1>3 DEF Names
  <2>4. ~Inside(g, q)
    <3> SUFFICES ASSUME Inside(g, q) PROVE FALSE
      OBVIOUS
    <3>1. PICK i \in DOMAIN g : g[i][1] <= q /\ q < g[i][2]
      BY DEF Inside
    <3>2. g[i][1] \in Nat /\ g[i][2] \in Nat
      BY <3>1, GroupBounds
    <3>3. g[i][2] <= p
      BY <3>1, <3>2, <2>2, <2>3, <1>0 DEF Inside
    <3>4. Hides(f, g[i][1], g[i][2])
      BY <3>1 DEF Paired, GroupPassed
    <3>5. q \in g[i][1]..(g[i][2] - 1) /\ k \in (g[i][2] + 1)..Len(B)
      BY <3>1, <3>2, <3>3, <2>2, <1>0, <1>6
    <3>6. B[k].a[j] = v /\ j \in DOMAIN B[k].a
      BY <1>5, <1>6
    <3> QED BY <3>4, <3>5, <3>6, <1>3, <2>2 DEF Hides
  <2>5. q \in 1..p /\ q \in 1..len
    BY <2>2, <2>3, <1>0
  <2>6. v = ResultOf(T.body[q])
    <3>1. ResultOf(S.body[q]) = ResultOf(T.body[q])
      BY <2>4, <2>5, SameResult
    <3> QED BY <3>1, <2>1
  <2> QED BY <2>4, <2>5, <2>6 DEF Visible
<1> QED BY <1>8, <1>9

\* An input is not the dead environment.
LEMMA InputNotDead ==
  ASSUME NEW A, NEW env \in Inputs(A, FALSE)
  PROVE  env # Dead
<1> SUFFICES ASSUME env = Dead PROVE FALSE
  OBVIOUS
<1>1. DOMAIN env = {v.n : v \in A} /\ \A v \in A : env[v.n] \in Domain(v, FALSE)
  BY DEF Inputs
<1>2. "ub" \in DOMAIN env /\ env["ub"] = UB
  BY DEF Dead
<1>3. PICK v \in A : v.n = "ub"
  BY <1>1, <1>2
<1>4. UB \in Domain(v, FALSE)
  BY <1>1, <1>2, <1>3
<1> QED BY <1>4 DEF Domain, UB

\* After a segment with one visible position, its exit, that is visible too.
LEMMA VisibleNext ==
  ASSUME NEW T, NEW g, NEW p \in Nat, NEW hi \in Nat, p < hi, ~Inside(g, hi),
         \A q \in (p + 1)..(hi - 1) : Inside(g, q)
  PROVE  Visible(T, g, hi) = Visible(T, g, p) \cup {ResultOf(T.body[hi])}
<1>1. {k \in 1..hi : ~Inside(g, k)} = {k \in 1..p : ~Inside(g, k)} \cup {hi}
  <2>1. \A k \in 1..hi : k \in 1..p \/ k = hi \/ k \in (p + 1)..(hi - 1)
    OBVIOUS
  <2>2. \A k \in 1..p : k \in 1..hi
    OBVIOUS
  <2>3. hi \in 1..hi
    OBVIOUS
  <2> QED BY <2>1, <2>2, <2>3
<1> QED BY <1>1 DEF Visible

\* Before a group no group is open, and its positions are inside it.
LEMMA GroupEdges ==
  ASSUME NEW S, NEW T, NEW g, NEW len, Paired(S, T, g, len), NEW j \in DOMAIN g
  PROVE  /\ g[j][1] - 1 \in 0..len /\ ~Inside(g, g[j][1] - 1)
         /\ \A q \in g[j][1]..(g[j][2] - 1) : Inside(g, q)
<1>1. /\ g[j][1] \in Nat /\ g[j][2] \in Nat /\ 1 <= g[j][1] /\ g[j][1] <= g[j][2] /\ g[j][2] <= len
      /\ \A i \in DOMAIN g : i # j => g[i][2] < g[j][1] \/ g[j][2] < g[i][1]
  BY GroupBounds
<1>2. len \in Nat
  BY DEF Paired
<1>3. ~Inside(g, g[j][1] - 1)
  <2> SUFFICES ASSUME NEW i \in DOMAIN g, g[i][1] <= g[j][1] - 1, g[j][1] - 1 < g[i][2] PROVE FALSE
    BY DEF Inside
  <2>1. g[i][1] \in Nat /\ g[i][2] \in Nat
    BY GroupBounds
  <2>2. i # j
    BY <2>1
  <2>3. g[i][2] < g[j][1] \/ g[j][2] < g[i][1]
    BY <2>2, <1>1
  <2> QED BY <2>1, <2>3, <1>1
<1>4. g[j][1] - 1 \in 0..len
  BY <1>1, <1>2
<1>5. ASSUME NEW q \in g[j][1]..(g[j][2] - 1) PROVE Inside(g, q)
  BY <1>1, <1>5 DEF Inside
<1> QED BY <1>3, <1>4, <1>5

\* A sequence cut to one position is that position.
LEMMA CutToOne ==
  ASSUME NEW B \in Seq(Instruction), NEW C \in Seq(Instruction), NEW p,
         p \in 1..Len(B), p \in 1..Len(C), B[p] = C[p]
  PROVE  SubSeq(B, p, p) = SubSeq(C, p, p)
<1> DEFINE I == Instruction
<1> HIDE DEF I
<1>0. B \in Seq(I) /\ C \in Seq(I)
  BY DEF I
<1>1. SubSeq(B, p, p) = [k \in 1..1 |-> B[p]] /\ SubSeq(C, p, p) = [k \in 1..1 |-> C[p]]
  BY <1>0 
<1> QED BY <1>1

\* One position that is the same on both sides refines.
LEMMA SamePosition ==
  ASSUME NEW S, NEW T, WellFormed(S), WellFormed(T), NEW p, p \in 1..Len(S.body), p \in 1..Len(T.body),
         S.body[p] = T.body[p]
  PROVE  /\ IsSegment(S, p, p, SubSeq(S.body, p, p)) /\ IsSegment(T, p, p, SubSeq(T.body, p, p))
         /\ SegmentsRefine(S, T, p, SubSeq(S.body, p, p), SubSeq(T.body, p, p))
<1> DEFINE s == SubSeq(S.body, p, p)
           t == SubSeq(T.body, p, p)
<1>0. S.body \in Seq(Instruction) /\ T.body \in Seq(Instruction) /\ p \in Nat
  BY DEF WellFormed
<1>1. p \in p..Len(S.body) /\ p \in p..Len(T.body)
  BY <1>0
<1>2. IsSegment(S, p, p, s) /\ IsSegment(T, p, p, t)
  BY <1>1 DEF IsSegment
<1>3. s = t
  BY <1>0, CutToOne
<1> HIDE DEF s, t
<1>4. SegmentsRefine(S, T, p, s, t)
  BY <1>3, RefinedBySelf DEF SegmentsRefine, SegmentRefined
<1> QED BY <1>2, <1>4 DEF s, t

\* One segment that refines and brings one visible position.
LEMMA VisibleStep ==
  ASSUME NEW S, NEW T, NEW g, NEW len, Paired(S, T, g, len),
         NEW p \in 0..len, ~Inside(g, p), NEW hs, NEW ht, NEW s, NEW t,
         IsSegment(S, p + 1, hs, s), IsSegment(T, p + 1, ht, t), ResultOf(S.body[hs]) = ResultOf(T.body[ht]),
         SegmentsRefine(S, T, p + 1, s, t),
         NEW env \in Inputs(S.args, FALSE), Simulated(S, T, p, p, env, Visible(T, g, p))
  PROVE  Simulated(S, T, hs, ht, env, Visible(T, g, p) \cup {ResultOf(T.body[ht])})
<1> DEFINE L == Visible(T, g, p)
           lo == p + 1
<1>1. L \subseteq Before(S, lo) /\ L \subseteq Before(T, lo)
  BY VisibleKnown
<1>2. External(s, t) \subseteq L
  <2>1. collectExternalOperands(s) \subseteq L
    BY ExternalVisible
  <2>2. collectExternalOperands(t) \subseteq L
    BY ExternalVisible
  <2> QED BY <2>1, <2>2 DEF External
<1>3. lo - 1 = p /\ WellFormed(S) /\ WellFormed(T)
  BY DEF Paired
<1> HIDE DEF L, lo
<1>4. IsSegment(S, lo, hs, s) /\ IsSegment(T, lo, ht, t) /\ SegmentsRefine(S, T, lo, s, t)
  BY DEF lo
<1>5. SegmentRefined(S, T, lo, s, t, env, L)
  BY <1>1, <1>2, <1>4 DEF SegmentsRefine
<1>6. Simulated(S, T, lo - 1, lo - 1, env, L)
  BY <1>3 DEF L
<1>7. Simulated(S, T, hs, ht, env, L \cup {ResultOf(T.body[ht])})
  BY <1>1, <1>2, <1>3, <1>4, <1>5, <1>6, SegmentRuns
<1> QED BY <1>7 DEF L

\* Wherever no group is open, the source simulates the target on what is
\* visible.
LEMMA GroupsSimulate ==
  ASSUME NEW S, NEW T, NEW g, NEW len, Paired(S, T, g, len), NEW env \in Inputs(S.args, FALSE)
  PROVE  \A p \in 0..len : ~Inside(g, p) => Simulated(S, T, p, p, env, Visible(T, g, p))
<1> DEFINE P(p) == ~Inside(g, p) => Simulated(S, T, p, p, env, Visible(T, g, p))
           Bad == {p \in 0..len : ~P(p)}
<1>0. /\ len \in Nat /\ len <= Len(S.body) /\ len <= Len(T.body) /\ S.args = T.args
      /\ WellFormed(S) /\ WellFormed(T) /\ Len(S.body) \in Nat /\ Len(T.body) \in Nat
  BY DEF Paired, WellFormed
<1>1. P(0)
  <2>1. Reached(S, env, 0) = {env} /\ Reached(T, env, 0) = {env}
    BY <1>0, RunsStep DEF Reached
  <2>2. Visible(T, g, 0) = T.args
    BY DEF Visible
  <2>3. \A v \in T.args : Has(env, v)
    BY <1>0 DEF Inputs, Has, Domain
  <2>4. env # Dead
    BY InputNotDead
  <2>5. Agree(env, env, Visible(T, g, 0))
    BY <2>2, <2>3 DEF Agree, Covers
  <2> QED BY <2>1, <2>4, <2>5 DEF Simulated
<1>2. Bad = {}
  <2> SUFFICES ASSUME Bad # {} PROVE FALSE
    OBVIOUS
  <2>1. PICK p \in Bad : \A q \in Bad : p <= q
    <3>1. Bad \subseteq Nat
      BY <1>0
    <3> QED BY <3>1, LeastNat
  <2>2. p \in 1..len /\ ~Inside(g, p)
    BY <2>1, <1>0, <1>1
  <2>3. S.body[p] = T.body[p] \/ \E j \in DOMAIN g : g[j][1] <= p /\ p <= g[j][2]
    <3>1. p \in 1..((len + 1) - 1)
      BY <2>2, <1>0
    <3> QED BY <3>1 DEF Paired, GroupsUpTo
  <2>4. ResultOf(S.body[p]) = ResultOf(T.body[p])
    BY <2>2, SameResult
  <2>5. CASE \E j \in DOMAIN g : g[j][1] <= p /\ p <= g[j][2]
    <3>1. PICK j \in DOMAIN g : g[j][1] <= p /\ p <= g[j][2]
      BY <2>5
    <3> DEFINE lo == g[j][1]
               b == lo - 1
    <3>2. lo \in Nat /\ g[j][2] \in Nat /\ 1 <= lo
      BY GroupBounds
    <3>3. p = g[j][2]
      BY <3>1, <3>2, <2>2 DEF Inside
    <3>4. b \in 0..len /\ ~Inside(g, b) /\ \A q \in lo..(p - 1) : Inside(g, q)
      BY <3>3, GroupEdges
    <3>5. b + 1 = lo /\ b \in Nat /\ b < p
      BY <3>1, <3>2, <2>2
    <3>6. P(b)
      BY <2>1, <3>4, <3>5
    <3>7. GroupPassed(S, T, lo, p)
      BY <3>1, <3>3 DEF Paired
    <3> DEFINE s == SubSeq(S.body, lo, p)
               t == SubSeq(T.body, lo, p)
    <3>8. IsSegment(S, lo, p, s) /\ IsSegment(T, lo, p, t)
      <4>1. lo \in 1..Len(S.body) /\ p \in lo..Len(S.body)
        BY <3>1, <3>2, <2>2, <1>0
      <4>2. lo \in 1..Len(T.body) /\ p \in lo..Len(T.body)
        BY <3>1, <3>2, <2>2, <1>0
      <4> QED BY <4>1, <4>2 DEF IsSegment
    <3>9. SegmentsRefine(S, T, lo, s, t)
      BY <3>7 DEF GroupPassed
    <3> HIDE DEF s, t, lo, b
    <3>10. Simulated(S, T, p, p, env, Visible(T, g, b) \cup {ResultOf(T.body[p])})
      BY <3>4, <3>5, <3>6, <3>8, <3>9, <2>4, VisibleStep
    <3>11. Visible(T, g, p) = Visible(T, g, b) \cup {ResultOf(T.body[p])}
      BY <3>4, <3>5, <2>2, VisibleNext
    <3> QED BY <3>10, <3>11, <2>1
  <2>6. CASE ~ \E j \in DOMAIN g : g[j][1] <= p /\ p <= g[j][2]
    <3> DEFINE b == p - 1
    <3>1. b \in 0..len /\ b \in Nat /\ b + 1 = p /\ b < p /\ p \in Nat
      BY <2>2, <1>0
    <3>2. ~Inside(g, b)
      <4> SUFFICES ASSUME NEW j \in DOMAIN g, g[j][1] <= b, b < g[j][2] PROVE FALSE
        BY DEF Inside
      <4>1. g[j][1] \in Nat /\ g[j][2] \in Nat
        BY GroupBounds
      <4>2. g[j][1] <= p /\ p <= g[j][2]
        BY <4>1, <3>1
      <4> QED BY <4>2, <2>6
    <3>3. P(b)
      BY <2>1, <3>1
    <3> DEFINE s == SubSeq(S.body, p, p)
               t == SubSeq(T.body, p, p)
    <3>4. p \in 1..Len(S.body) /\ p \in 1..Len(T.body)
      BY <2>2, <1>0
    <3>5. IsSegment(S, p, p, s) /\ IsSegment(T, p, p, t) /\ SegmentsRefine(S, T, p, s, t)
      BY <3>4, <2>3, <2>6, <1>0, SamePosition
    <3> HIDE DEF s, t, b
    <3>6. Simulated(S, T, p, p, env, Visible(T, g, b) \cup {ResultOf(T.body[p])})
      BY <3>1, <3>2, <3>3, <3>5, <2>4, VisibleStep
    <3>7. \A q \in (b + 1)..(p - 1) : Inside(g, q)
      BY <3>1
    <3>8. Visible(T, g, p) = Visible(T, g, b) \cup {ResultOf(T.body[p])}
      BY <3>1, <3>7, <2>2, VisibleNext
    <3> QED BY <3>6, <3>8, <2>1
  <2> QED BY <2>5, <2>6
<1> QED BY <1>2

(***************************************************************************)
(* All regions passed.                                                     *)
(***************************************************************************)
\* A segment, position by position.
LEMMA SegmentElements ==
  ASSUME NEW f, WellFormed(f), NEW lo, NEW hi, NEW s, IsSegment(f, lo, hi, s)
  PROVE  /\ lo \in Nat /\ hi \in Nat /\ Len(f.body) \in Nat /\ DOMAIN f.body = 1..Len(f.body)
         /\ 1 <= lo /\ lo <= hi /\ hi <= Len(f.body)
         /\ s \in Seq(Instruction) /\ Len(s) = hi - lo + 1 /\ DOMAIN s = 1..(hi - lo + 1)
         /\ \A q \in lo..hi : q - lo + 1 \in DOMAIN s /\ s[q - lo + 1] = f.body[q]
         /\ \A m \in DOMAIN s : \E q \in lo..hi : s[m] = f.body[q]
         /\ Last(s) = f.body[hi]
<1> DEFINE B == f.body
           I == Instruction
<1>1. B \in Seq(I) /\ lo \in 1..Len(B) /\ hi \in lo..Len(B) /\ s = SubSeq(B, lo, hi)
  BY DEF WellFormed, IsSegment
<1> HIDE DEF B, I
<1>2. lo \in Nat /\ hi \in Nat /\ Len(B) \in Nat /\ DOMAIN B = 1..Len(B) /\ 1 <= lo /\ lo <= hi /\ hi <= Len(B)
  BY <1>1
<1>3. s \in Seq(I) /\ Len(s) = hi - lo + 1 /\ DOMAIN s = 1..(hi - lo + 1)
  BY <1>1, <1>2
<1>4. \A m \in 1..(hi - lo + 1) : s[m] = B[lo + m - 1] /\ lo + m - 1 \in lo..hi
  BY <1>1, <1>2
<1>5. ASSUME NEW q \in lo..hi PROVE q - lo + 1 \in DOMAIN s /\ s[q - lo + 1] = B[q]
  <2>1. q - lo + 1 \in 1..(hi - lo + 1) /\ lo + (q - lo + 1) - 1 = q
    BY <1>2
  <2> QED BY <2>1, <1>3, <1>4
<1>6. Last(s) = B[hi]
  <2>1. hi \in lo..hi
    BY <1>2
  <2> QED BY <2>1, <1>3, <1>5 DEF Last
<1> QED BY <1>2, <1>3, <1>4, <1>5, <1>6 DEF B, I

\* A segment that is self-contained hides what is not its exit.
LEMMA SelfHidden ==
  ASSUME NEW f, WellFormed(f), NEW lo, NEW hi, NEW s, IsSegment(f, lo, hi, s), SelfContained(s, f)
  PROVE  Hides(f, lo, hi)
<1> DEFINE B == f.body
<1>1. /\ lo \in Nat /\ hi \in Nat /\ Len(B) \in Nat /\ DOMAIN B = 1..Len(B)
      /\ 1 <= lo /\ lo <= hi /\ hi <= Len(B) /\ Len(s) = hi - lo + 1
      /\ \A q \in lo..hi : q - lo + 1 \in DOMAIN s /\ s[q - lo + 1] = B[q]
      /\ \A m \in DOMAIN s : \E q \in lo..hi : s[m] = B[q]
  BY SegmentElements
<1>0. lo \in Nat /\ hi \in Nat /\ Len(B) \in Nat /\ 1 <= lo /\ lo <= hi /\ hi <= Len(B)
  BY <1>1
<1> SUFFICES ASSUME NEW q \in lo..(hi - 1)
             PROVE  /\ f.ret.n # B[q].name
                    /\ \A k \in (hi + 1)..Len(B) : \A j \in DOMAIN B[k].a :
                         ~Const(B[k].a[j]) => B[k].a[j].n # B[q].name
  BY DEF Hides
<1>2. q \in lo..hi /\ q - lo + 1 < Len(s)
  BY <1>1
<1>3. ~UsedOutside(B[q].name, s, f)
  BY <1>1, <1>2 DEF SelfContained
<1>4. f.ret.n # B[q].name
  BY <1>3 DEF UsedOutside
<1>5. ASSUME NEW k \in (hi + 1)..Len(B), NEW j \in DOMAIN B[k].a, ~Const(B[k].a[j]), B[k].a[j].n = B[q].name
      PROVE  FALSE
  <2>1. k \in 1..Len(B)
    BY <1>1
  <2>2. B[k].name \notin Names(s)
    <3> SUFFICES ASSUME B[k].name \in Names(s) PROVE FALSE
      OBVIOUS
    <3>1. PICK m \in DOMAIN s : s[m].name = B[k].name
      BY DEF Names
    <3>2. PICK i \in lo..hi : s[m] = B[i]
      BY <1>1
    <3>3. i \in 1..Len(B) /\ i # k
      BY <1>0
    <3> QED BY <3>1, <3>2, <3>3, <2>1, NamesDistinct
  <2>3. B[k] \in Instruction
    BY <2>1 DEF WellFormed
  <2>4. B[k].a[j] \in NamedOperand \cup ConstOperand
    <3>1. B[k].a \in Seq(NamedOperand \cup ConstOperand)
      BY <2>3 DEF Instruction
    <3> QED BY <3>1, <1>5
  <2>5. B[k].a[j] = [k |-> "v", n |-> B[q].name, w |-> B[k].a[j].w]
    <3>1. B[k].a[j] \in NamedOperand
      BY <2>4, <1>5 DEF ConstOperand, Const
    <3>2. \A v \in NamedOperand : v = [k |-> "v", n |-> v.n, w |-> v.w]
      BY DEF NamedOperand
    <3> QED BY <3>1, <3>2, <1>5
  <2> QED BY <2>1, <2>2, <2>5, <1>1, <1>3, <1>5 DEF UsedOutside
<1> QED BY <1>4, <1>5

\* A region that passed and keeps its values to itself.
RegionPassed(r, S, T) ==
  /\ Justified(r, S, T) /\ SelfContained(r.src, S) /\ SelfContained(r.tgt, T)
  /\ Last(r.src).name = Last(r.tgt).name

\* Where the exit of a segment is.
Exits(f, lo, hi, s) == hi - lo + 1 \in DOMAIN s /\ s[hi - lo + 1] = f.body[hi]
LEMMA SegmentExit ==
  ASSUME NEW f, WellFormed(f), NEW lo, NEW hi, NEW s, IsSegment(f, lo, hi, s)
  PROVE  Exits(f, lo, hi, s)
<1>1. lo \in Nat /\ hi \in Nat /\ lo <= hi
  BY SegmentElements
<1>2. hi \in lo..hi
  BY <1>1
<1>3. \A q \in lo..hi : q - lo + 1 \in DOMAIN s /\ s[q - lo + 1] = f.body[q]
  BY SegmentElements
<1> QED BY <1>2, <1>3 DEF Exits

\* What a region that passed says of its segments.
LEMMA PassedSegments ==
  ASSUME NEW S, NEW T, WellFormed(S), WellFormed(T), S.args = T.args,
         NEW lo, NEW hs, NEW ht, NEW r \in RegionSet, r.is_asymmetric \/ hs = ht,
         IsSegment(S, lo, hs, r.src), IsSegment(T, lo, ht, r.tgt), RegionPassed(r, S, T)
  PROVE  /\ Hides(S, lo, hs) /\ Hides(T, lo, ht) /\ ResultOf(S.body[hs]) = ResultOf(T.body[ht])
         /\ SegmentsRefine(S, T, lo, r.src, r.tgt)
<1>1. Hides(S, lo, hs) /\ Hides(T, lo, ht)
  BY SelfHidden DEF RegionPassed
<1>2. Last(r.src) = S.body[hs] /\ Last(r.tgt) = T.body[ht]
  BY SegmentElements
<1>3. Last(r.src).w = Last(r.tgt).w
  <2>1. buildTvUnit(r).ok
    BY DEF RegionPassed, Justified
  <2>2. IF r.is_asymmetric THEN r.src # <<>> /\ r.tgt # <<>> /\ Last(r.src).w = Last(r.tgt).w
        ELSE \A k \in DOMAIN r.src : r.src[k].w = r.tgt[k].w
    BY <2>1, UnitFacts
  <2>3. CASE r.is_asymmetric
    BY <2>2, <2>3
  <2>4. CASE ~r.is_asymmetric
    <3>1. hs = ht
      BY <2>4
    <3>2. Exits(S, lo, hs, r.src) /\ Exits(T, lo, hs, r.tgt)
      BY <3>1, SegmentExit
    <3> QED BY <3>1, <3>2, <2>2, <2>4, <1>2 DEF Exits
  <2> QED BY <2>3, <2>4
<1>4. ResultOf(S.body[hs]) = ResultOf(T.body[ht])
  BY <1>2, <1>3 DEF RegionPassed, ResultOf
<1>5. SegmentsRefine(S, T, lo, r.src, r.tgt)
  BY RegionRefined DEF SegmentsRefine, RegionPassed
<1> QED BY <1>1, <1>4, <1>5

\* Functions whose regions all passed.
AllPassed(S, T) ==
  /\ WellFormed(S) /\ WellFormed(T) /\ S.args = T.args /\ S.ret = T.ret
  /\ \A k \in DOMAIN computeDiffRegions(S, T) :
       LET r == computeDiffRegions(S, T)[k] IN r.src # <<>> /\ r.tgt # <<>> /\ RegionPassed(r, S, T)

\* The regions of two functions, as the segments they are.
RegionsAre(S, T, ds, g, len) ==
  /\ ds \in Seq(RegionSet)
  /\ Len(ds) = IF Len(S.body) = Len(T.body) THEN Len(g) ELSE Len(g) + 1
  /\ \A j \in 1..Len(g) :
       ds[j] = Region(SubSeq(S.body, g[j][1], g[j][2]), SubSeq(T.body, g[j][1], g[j][2]), FALSE)
  /\ Len(S.body) # Len(T.body) =>
       ds[Len(g) + 1] = Region(SubSeq(S.body, len + 1, Len(S.body)), SubSeq(T.body, len + 1, Len(T.body)), TRUE)
LEMMA RegionsHold ==
  ASSUME NEW S, NEW T, S.body \in Seq(Instruction), T.body \in Seq(Instruction), S.ret = T.ret
  PROVE  RegionsAre(S, T, computeDiffRegions(S, T), Groups(S, T), PairedLength(S, T))
<1> SUFFICES /\ computeDiffRegions(S, T) \in Seq(RegionSet)
             /\ Len(computeDiffRegions(S, T)) =
                  IF Len(S.body) = Len(T.body) THEN Len(Groups(S, T)) ELSE Len(Groups(S, T)) + 1
             /\ \A j \in 1..Len(Groups(S, T)) :
                  computeDiffRegions(S, T)[j] =
                    Region(SubSeq(S.body, Groups(S, T)[j][1], Groups(S, T)[j][2]),
                           SubSeq(T.body, Groups(S, T)[j][1], Groups(S, T)[j][2]), FALSE)
             /\ Len(S.body) # Len(T.body) =>
                  computeDiffRegions(S, T)[Len(Groups(S, T)) + 1] =
                    Region(SubSeq(S.body, PairedLength(S, T) + 1, Len(S.body)),
                           SubSeq(T.body, PairedLength(S, T) + 1, Len(T.body)), TRUE)
  BY Zenon DEF RegionsAre
<1> QED BY RegionsFacts, Zenon

\* Then every group passed.
LEMMA PassedIsPaired ==
  ASSUME NEW S, NEW T, AllPassed(S, T)
  PROVE  Paired(S, T, Groups(S, T), PairedLength(S, T))
<1> DEFINE g == Groups(S, T)
           len == PairedLength(S, T)
           ds == computeDiffRegions(S, T)
<1>1. /\ WellFormed(S) /\ WellFormed(T) /\ S.args = T.args /\ S.ret = T.ret
      /\ S.body \in Seq(Instruction) /\ T.body \in Seq(Instruction)
  BY DEF AllPassed, WellFormed
<1>2. len \in Nat /\ len <= Len(S.body) /\ len <= Len(T.body) /\ Len(S.body) \in Nat /\ Len(T.body) \in Nat
  BY <1>1, PairedLengthFacts
<1>3. GroupsUpTo(g, len + 1, S, T)
  BY <1>1, GroupsOK
<1>R. RegionsAre(S, T, ds, g, len)
  BY <1>1, RegionsHold
<1> HIDE DEF g, len, ds
<1>4. /\ ds \in Seq(RegionSet) /\ (Len(ds) = Len(g) \/ Len(ds) = Len(g) + 1)
      /\ \A j \in 1..Len(g) :
           ds[j] = Region(SubSeq(S.body, g[j][1], g[j][2]), SubSeq(T.body, g[j][1], g[j][2]), FALSE)
  BY <1>R, Zenon DEF RegionsAre
<1>5. DOMAIN g = 1..Len(g) /\ Len(g) \in Nat
  BY <1>3 DEF GroupsUpTo
<1>6. ASSUME NEW j \in DOMAIN g PROVE GroupPassed(S, T, g[j][1], g[j][2])
  <2> DEFINE lo == g[j][1]
             hi == g[j][2]
             r == ds[j]
             s == SubSeq(S.body, lo, hi)
             t == SubSeq(T.body, lo, hi)
  <2>1. lo \in Nat /\ hi \in Nat /\ 1 <= lo /\ lo <= hi /\ hi <= len
    <3>1. g[j] \in Nat \X Nat /\ 1 <= g[j][1] /\ g[j][1] <= g[j][2] /\ g[j][2] < len + 1
      BY <1>3, <1>6 DEF GroupsUpTo
    <3> QED BY <3>1, <1>2
  <2>2. r \in RegionSet /\ j \in DOMAIN ds
    <3>0. ds \in Seq(RegionSet) /\ (Len(ds) = Len(g) \/ Len(ds) = Len(g) + 1)
      BY <1>4
    <3> HIDE DEF RegionSet
    <3>1. j \in 1..Len(ds) /\ DOMAIN ds = 1..Len(ds)
      BY <3>0, <1>5, <1>6
    <3>2. ds \in Seq(RegionSet)
      BY <3>0
    <3>3. j \in DOMAIN ds
      BY <3>1
    <3>4. ds[j] \in RegionSet
      BY <3>2, <3>3
    <3> QED BY <3>3, <3>4
  <2>3. r = Region(s, t, FALSE)
    BY <1>4, <1>5, <1>6
  <2> HIDE DEF lo, hi, r, s, t
  <2>4. r.src = s /\ r.tgt = t
    BY <2>3 DEF Region
  <2>5. IsSegment(S, lo, hi, s) /\ IsSegment(T, lo, hi, t)
    <3>1. lo \in 1..Len(S.body) /\ hi \in lo..Len(S.body) /\ lo \in 1..Len(T.body) /\ hi \in lo..Len(T.body)
      BY <2>1, <1>2
    <3> QED BY <3>1 DEF IsSegment, s, t
  <2>6. RegionPassed(r, S, T)
    BY <2>2 DEF AllPassed, ds, r
  <2>7. /\ Hides(S, lo, hi) /\ Hides(T, lo, hi) /\ ResultOf(S.body[hi]) = ResultOf(T.body[hi])
        /\ SegmentsRefine(S, T, lo, r.src, r.tgt)
    BY <2>2, <2>4, <2>5, <2>6, <1>1, PassedSegments
  <2>8. GroupPassed(S, T, lo, hi)
    BY <2>4, <2>7 DEF GroupPassed, s, t
  <2> QED BY <2>8 DEF lo, hi
<1>7. Paired(S, T, g, len)
  BY <1>1, <1>2, <1>3, <1>6 DEF Paired
<1> QED BY <1>7 DEF g, len

\* The tails of different lengths, when there are any.
TailPassed(S, T, lo) ==
  LET hs == Len(S.body)  ht == Len(T.body)
      s == SubSeq(S.body, lo, hs)  t == SubSeq(T.body, lo, ht)
  IN  /\ IsSegment(S, lo, hs, s) /\ IsSegment(T, lo, ht, t) /\ ResultOf(S.body[hs]) = ResultOf(T.body[ht])
      /\ Hides(S, lo, hs) /\ Hides(T, lo, ht) /\ SegmentsRefine(S, T, lo, s, t)
LEMMA PassedTail ==
  ASSUME NEW S, NEW T, AllPassed(S, T), Len(S.body) # Len(T.body)
  PROVE  TailPassed(S, T, PairedLength(S, T) + 1)
<1> DEFINE len == PairedLength(S, T)
           lo == len + 1
           hs == Len(S.body)
           ht == Len(T.body)
           ds == computeDiffRegions(S, T)
           n == Len(Groups(S, T)) + 1
           r == ds[n]
           s == SubSeq(S.body, lo, hs)
           t == SubSeq(T.body, lo, ht)
<1>1. /\ WellFormed(S) /\ WellFormed(T) /\ S.args = T.args /\ S.ret = T.ret
      /\ S.body \in Seq(Instruction) /\ T.body \in Seq(Instruction)
  BY DEF AllPassed, WellFormed
<1>2. len \in Nat /\ len <= hs /\ len <= ht /\ hs \in Nat /\ ht \in Nat
  BY <1>1, PairedLengthFacts
<1>3. ds \in Seq(RegionSet) /\ Len(ds) = n /\ r = Region(s, t, TRUE)
  <2>1. RegionsAre(S, T, ds, Groups(S, T), len)
    BY <1>1, RegionsHold
  <2> HIDE DEF ds, len
  <2> QED BY <2>1, Zenon DEF RegionsAre
<1>4. Len(Groups(S, T)) \in Nat
  <2>1. GroupsUpTo(Groups(S, T), len + 1, S, T)
    BY <1>1, GroupsOK
  <2> QED BY <2>1 DEF GroupsUpTo
<1>5. n \in DOMAIN ds
  <2> HIDE DEF ds
  <2>1. DOMAIN ds = 1..n
    BY <1>3
  <2> QED BY <2>1, <1>4
<1>6. r.src # <<>> /\ r.tgt # <<>> /\ RegionPassed(r, S, T)
  BY <1>5 DEF AllPassed
<1>7. r \in RegionSet
  <2>1. ds \in Seq(RegionSet)
    BY <1>3
  <2> HIDE DEF ds, n
  <2> QED BY <2>1, <1>5
<1> HIDE DEF r, s, t, ds, n
<1>8. r.src = s /\ r.tgt = t /\ r.is_asymmetric
  BY <1>3 DEF Region
<1>9. lo <= hs /\ lo <= ht
  <2>1. \A B \in Seq(Instruction) : SubSeq(B, lo, Len(B)) # <<>> => lo <= Len(B)
    <3> DEFINE I == Instruction
    <3> HIDE DEF I, len
    <3>1. \A B \in Seq(I) : SubSeq(B, lo, Len(B)) # <<>> => lo <= Len(B)
      BY <1>2
    <3> QED BY <3>1 DEF I
  <2>2. s # <<>> /\ t # <<>>
    BY <1>6, <1>8
  <2> HIDE DEF len
  <2> QED BY <2>1, <2>2, <1>1 DEF s, t
<1>10. IsSegment(S, lo, hs, s) /\ IsSegment(T, lo, ht, t)
  <2> HIDE DEF len
  <2>1. lo \in 1..hs /\ hs \in lo..hs /\ lo \in 1..ht /\ ht \in lo..ht
    BY <1>2, <1>9
  <2> QED BY <2>1 DEF IsSegment, s, t
<1> HIDE DEF lo, hs, ht
<1>11. /\ Hides(S, lo, hs) /\ Hides(T, lo, ht) /\ ResultOf(S.body[hs]) = ResultOf(T.body[ht])
       /\ SegmentsRefine(S, T, lo, r.src, r.tgt)
  BY <1>1, <1>6, <1>7, <1>8, <1>10, PassedSegments
<1> QED BY <1>8, <1>10, <1>11 DEF TailPassed, s, t, lo, hs, ht

\* The ends of a function.
LEMMA ReachedIsExecutions ==
  ASSUME NEW f, NEW env
  PROVE  Executions(f.body, Names(f.body), env) = Reached(f, env, Len(f.body))
  BY DEF Executions, Reached

\* Functions that end in agreement on what they return refine.
LEMMA EndsRefine ==
  ASSUME NEW S, NEW T, S.ret = T.ret, ~Const(T.ret), NEW env, NEW L,
         Simulated(S, T, Len(S.body), Len(T.body), env, L), \E v \in L : v.n = T.ret.n
  PROVE  RefinedBy(Outcomes(S, env), Outcomes(T, env))
<1> DEFINE RS == Reached(S, env, Len(S.body))
           RT == Reached(T, env, Len(T.body))
           Out(e) == IF e = Dead THEN UB ELSE e[T.ret.n]
<1>1. Outcomes(S, env) = {Out(e) : e \in RS} /\ Outcomes(T, env) = {Out(e) : e \in RT}
  BY ReachedIsExecutions DEF Outcomes, ValueIn
<1>2. \A d \in RT : Dead \in RS \/ (d # Dead /\ \E x \in RS : x # Dead /\ Agree(x, d, L))
  BY DEF Simulated
<1>3. PICK v \in L : v.n = T.ret.n
  OBVIOUS
<1> HIDE DEF RS, RT
<1>4. CASE Dead \in RS
  <2>1. UB \in Outcomes(S, env)
    BY <1>1, <1>4
  <2> QED BY <2>1 DEF RefinedBy
<1>5. CASE Dead \notin RS
  <2>1. ASSUME NEW d \in RT PROVE Out(d) # UB /\ (Poison \in Outcomes(S, env) \/ Out(d) \in Outcomes(S, env))
    <3>1. d # Dead
      BY <1>2, <1>5, <2>1
    <3>2. PICK x \in RS : x # Dead /\ Agree(x, d, L)
      BY <1>2, <1>5, <2>1
    <3>3. Has(d, v) /\ Covers(x[v.n], d[v.n])
      BY <3>2, <1>3 DEF Agree
    <3>4. d[v.n] # UB
      BY <3>3 DEF Has, Domain, UB, Poison
    <3>5. Out(d) = d[v.n] /\ Out(x) = x[v.n] /\ Out(x) \in Outcomes(S, env)
      BY <3>1, <3>2, <1>1, <1>3
    <3> QED BY <3>3, <3>4, <3>5 DEF Covers
  <2>2. UB \notin Outcomes(T, env)
    BY <2>1, <1>1
  <2>3. Poison \in Outcomes(S, env) \/ Outcomes(T, env) \subseteq Outcomes(S, env)
    BY <2>1, <1>1
  <2> QED BY <2>2, <2>3 DEF RefinedBy
<1> QED BY <1>4, <1>5

\* Functions that agree position by position to their ends.
LEMMA EvenRefine ==
  ASSUME NEW S, NEW T, AllPassed(S, T), T.ret \in NamedOperand, T.ret.n \in Names(T.body),
         Len(S.body) = Len(T.body), NEW env \in Inputs(S.args, FALSE)
  PROVE  RefinedBy(Outcomes(S, env), Outcomes(T, env))
<1> DEFINE g == Groups(S, T)
           len == PairedLength(S, T)
<1>1. Paired(S, T, g, len)
  BY PassedIsPaired
<1>2. len = Len(S.body) /\ len = Len(T.body) /\ len \in Nat
  BY PairedLengthFacts DEF AllPassed, WellFormed
<1> HIDE DEF g, len
<1>3. ~Inside(g, len)
  <2> SUFFICES ASSUME NEW j \in DOMAIN g, len < g[j][2] PROVE FALSE
    BY DEF Inside
  <2>1. g[j][2] \in Nat /\ g[j][2] <= len
    BY <1>1, GroupBounds
  <2> QED BY <2>1, <1>2
<1>4. Simulated(S, T, len, len, env, Visible(T, g, len))
  <2>1. len \in 0..len
    BY <1>2
  <2> QED BY <2>1, <1>1, <1>3, GroupsSimulate
<1>5. \E v \in Visible(T, g, len) : v.n = T.ret.n
  <2>1. PICK q \in 1..len : T.body[q].name = T.ret.n
    BY <1>2 DEF Names, AllPassed, WellFormed
  <2>2. ~Inside(g, q)
    <3> SUFFICES ASSUME NEW j \in DOMAIN g, g[j][1] <= q, q < g[j][2] PROVE FALSE
      BY DEF Inside
    <3>1. g[j][1] \in Nat /\ g[j][2] \in Nat
      BY <1>1, GroupBounds
    <3>2. Hides(T, g[j][1], g[j][2])
      BY <1>1 DEF Paired, GroupPassed
    <3>3. q \in g[j][1]..(g[j][2] - 1)
      BY <3>1, <1>2
    <3> QED BY <3>2, <3>3, <2>1 DEF Hides
  <2>3. ResultOf(T.body[q]) \in Visible(T, g, len)
    BY <2>2 DEF Visible
  <2> QED BY <2>1, <2>3 DEF ResultOf
<1>6. S.ret = T.ret /\ ~Const(T.ret)
  BY DEF AllPassed, NamedOperand, Const
<1> QED BY <1>2, <1>4, <1>5, <1>6, EndsRefine

\* Functions that end in tails of different lengths.
LEMMA UnevenRefine ==
  ASSUME NEW S, NEW T, AllPassed(S, T), T.ret \in NamedOperand, T.ret.n \in Names(T.body),
         Len(S.body) # Len(T.body), NEW env \in Inputs(S.args, FALSE)
  PROVE  RefinedBy(Outcomes(S, env), Outcomes(T, env))
<1> DEFINE g == Groups(S, T)
           len == PairedLength(S, T)
           hs == Len(S.body)
           ht == Len(T.body)
           s == SubSeq(S.body, len + 1, hs)
           t == SubSeq(T.body, len + 1, ht)
           L == Visible(T, g, len) \cup {ResultOf(T.body[ht])}
<1>1. Paired(S, T, g, len)
  BY PassedIsPaired
<1>2. len \in Nat /\ ht \in Nat /\ DOMAIN T.body = 1..ht
  BY PairedLengthFacts DEF AllPassed, WellFormed
<1>3. TailPassed(S, T, len + 1)
  BY PassedTail
<1> HIDE DEF g, len
<1>4. ~Inside(g, len)
  <2> SUFFICES ASSUME NEW j \in DOMAIN g, len < g[j][2] PROVE FALSE
    BY DEF Inside
  <2>1. g[j][2] \in Nat /\ g[j][2] <= len
    BY <1>1, GroupBounds
  <2> QED BY <2>1, <1>2
<1>5. Simulated(S, T, len, len, env, Visible(T, g, len))
  <2>1. len \in 0..len
    BY <1>2
  <2> QED BY <2>1, <1>1, <1>4, GroupsSimulate
<1>6. /\ IsSegment(S, len + 1, hs, s) /\ IsSegment(T, len + 1, ht, t) /\ ResultOf(S.body[hs]) = ResultOf(T.body[ht])
      /\ Hides(T, len + 1, ht) /\ SegmentsRefine(S, T, len + 1, s, t)
  BY <1>3, Zenon DEF TailPassed
<1> HIDE DEF s, t, hs, ht
<1>7. Simulated(S, T, hs, ht, env, L)
  <2>1. len \in 0..len
    BY <1>2
  <2> QED BY <2>1, <1>1, <1>4, <1>5, <1>6, VisibleStep
<1>8. \E v \in L : v.n = T.ret.n
  <2>1. PICK q \in 1..ht : T.body[q].name = T.ret.n
    BY <1>2 DEF Names
  <2>2. CASE q \in 1..len
    <3>1. ~Inside(g, q)
      <4> SUFFICES ASSUME NEW j \in DOMAIN g, g[j][1] <= q, q < g[j][2] PROVE FALSE
        BY DEF Inside
      <4>1. g[j][1] \in Nat /\ g[j][2] \in Nat
        BY <1>1, GroupBounds
      <4>2. Hides(T, g[j][1], g[j][2])
        BY <1>1 DEF Paired, GroupPassed
      <4>3. q \in g[j][1]..(g[j][2] - 1)
        BY <4>1, <1>2
      <4> QED BY <4>2, <4>3, <2>1 DEF Hides
    <3>2. ResultOf(T.body[q]) \in L
      BY <2>2, <3>1 DEF Visible
    <3> QED BY <2>1, <3>2 DEF ResultOf
  <2>3. CASE q \in (len + 1)..(ht - 1)
    BY <2>1, <2>3, <1>6 DEF Hides
  <2>4. CASE q = ht
    <3>1. ResultOf(T.body[q]) \in L
      BY <2>4
    <3> QED BY <2>1, <3>1 DEF ResultOf
  <2>5. q \in 1..len \/ q \in (len + 1)..(ht - 1) \/ q = ht
    BY <1>2
  <2> QED BY <2>2, <2>3, <2>4, <2>5
<1>9. S.ret = T.ret /\ ~Const(T.ret)
  BY DEF AllPassed, NamedOperand, Const
<1> QED BY <1>7, <1>8, <1>9, EndsRefine DEF hs, ht

\* Whenever the driver accepts, all regions passed.
LEMMA AcceptedPassed ==
  ASSUME DriverInv, phase = "accepted", AllSelfContained
  PROVE  AllPassed(src, tgt) /\ tgt.ret \in NamedOperand /\ tgt.ret.n \in Names(tgt.body) /\ src.args = Args
<1> DEFINE ds == computeDiffRegions(src, tgt)
<1>1. src \in Function /\ tgt \in Function /\ SSA(src) /\ SSA(tgt)
  BY DEF DriverInv, FnInv
<1>2. WellFormed(src) /\ WellFormed(tgt) /\ src.args = Args /\ tgt.args = Args
  BY <1>1, FunctionFacts, TvNextAssumption DEF WellFormed
<1>3. /\ src.ret = tgt.ret /\ src.ret \in NamedOperand /\ tgt.ret.n \in Names(tgt.body)
      /\ regions \in Seq(RegionSet) /\ verdicts \in Seq(Statuses)
      /\ Len(verdicts) + Len(regions) = Len(ds)
      /\ \A k \in DOMAIN verdicts : Passed(verdicts[k]) => Justified(ds[k], src, tgt)
  BY Zenon DEF DriverInv, VerdictsInv
<1>4. regions = <<>> /\ \A k \in DOMAIN verdicts : Passed(verdicts[k])
  BY DEF DriverInv, AcceptedInv
<1>5. RegionsAre(src, tgt, ds, Groups(src, tgt), PairedLength(src, tgt))
  BY <1>2, <1>3, RegionsHold DEF WellFormed
<1>6. ds \in Seq(RegionSet)
  BY <1>5 DEF RegionsAre
<1>7. \A k \in DOMAIN ds : /\ SelfContained(ds[k].src, src) /\ SelfContained(ds[k].tgt, tgt)
                           /\ ds[k].src # <<>> /\ ds[k].tgt # <<>>
                           /\ Last(ds[k].src).name = Last(ds[k].tgt).name
  BY Zenon DEF AllSelfContained
<1> HIDE DEF ds
<1>8. DOMAIN verdicts = DOMAIN ds
  <2>1. Len(regions) = 0 /\ Len(verdicts) \in Nat /\ Len(verdicts) = Len(ds)
    BY <1>3, <1>4
  <2>2. DOMAIN verdicts = 1..Len(verdicts)
    BY <1>3
  <2>3. DOMAIN ds = 1..Len(ds)
    BY <1>6
  <2> QED BY <2>1, <2>2, <2>3
<1>9. \A k \in DOMAIN ds : ds[k].src # <<>> /\ ds[k].tgt # <<>> /\ RegionPassed(ds[k], src, tgt)
  BY <1>3, <1>4, <1>7, <1>8, Zenon DEF RegionPassed
<1>10. AllPassed(src, tgt)
  BY <1>2, <1>3, <1>9 DEF AllPassed, ds
<1> QED BY <1>2, <1>3, <1>10

\* composeVerdicts accepts only pairs that refine, for all functions, menus
\* and widths, when what a region defines leaves it through its exit: units
\* that were checked one by one, some of them under assumptions about their
\* parents, add up to the whole function.
THEOREM AcceptedMeansRefined == Spec => []AcceptedIsRefinement
<1>1. DriverInv => AcceptedIsRefinement
  <2> SUFFICES ASSUME DriverInv, phase = "accepted", AllSelfContained, NEW env \in Inputs(Args, FALSE)
               PROVE  RefinedBy(Outcomes(src, env), Outcomes(tgt, env))
    BY DEF AcceptedIsRefinement, Refines
  <2>1. AllPassed(src, tgt) /\ tgt.ret \in NamedOperand /\ tgt.ret.n \in Names(tgt.body) /\ env \in Inputs(src.args, FALSE)
    BY AcceptedPassed
  <2>2. CASE Len(src.body) = Len(tgt.body)
    BY <2>1, <2>2, EvenRefine
  <2>3. CASE Len(src.body) # Len(tgt.body)
    BY <2>1, <2>3, UnevenRefine
  <2> QED BY <2>2, <2>3
<1> QED BY <1>1, DriverInvariant, PTL
=============================================================================
