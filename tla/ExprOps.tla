------------------------------ MODULE ExprOps ------------------------------
(***************************************************************************)
(* A machine that calls the constructors of Expr in any order.  It keeps   *)
(* with every term the call that made it; Meaning gives the value the call *)
(* stands for, computed on integers.                                       *)
(***************************************************************************)
EXTENDS Expr

CONSTANTS Nums,      \* numerals used as operands
          OpsA, OpsB,  \* operators applied to one register at a time
          LastOps    \* operators that combine the two registers

\* A term t and the call c that built it.
VARIABLES A, B, phase
vars_ == <<A, B, phase>>

\* Two stores and a load: c.a is <<array, i, x, j, y, at>>.
ReadVal(c, v, env) ==
  IF v[6] > c.p[1] THEN Undef
  ELSE IF v[6] = v[4] THEN v[5] ELSE IF v[6] = v[2] THEN v[3] ELSE v[1][v[6]]

\* The scale, the width or the third operand the machine uses.
Third(k, env) ==
  IF k \in {"sextOrTrunc", "zextOrTrunc"} THEN W + 1
  ELSE IF k \in {"fshl", "fshr"} THEN env[2] ELSE 1

\* The value of a call under env: leaves are terms, calls are nodes of Meaning.
RECURSIVE CallVal(_, _)
CallVal(c, env) ==
  IF c.a = <<>> \/ c.k \in {"carray", "lambda"} THEN Eval(c, env)
  ELSE LET v == [i \in DOMAIN c.a |-> CallVal(c.a[i], env)]
       IN  IF c.k = "ite" THEN IF Eval(c.a[1], env) = 1 THEN v[2] ELSE v[3]
           ELSE IF c.k = "read" THEN ReadVal(c, v, env)
           ELSE IF \E i \in DOMAIN v : v[i] = Undef THEN Undef
           ELSE IF c.k = "concat" THEN v[1] * 2^(c.a[2].w) + v[2]
           ELSE Meaning(c.k, c.a[1].w, v[1], v[2], Third(c.k, env))

(***************************************************************************)
(* The machine.                                                            *)
(***************************************************************************)
Leaf(t) == [t |-> t, c |-> t]
Operands == {Var(1, W), Var(2, W)} \cup {Num(n, W) : n \in Nums}

TypesFit(k, l, r) ==
  IF k \in BoolOps THEN l.w = 0 /\ r.w = 0
  ELSE IF k \in Unary THEN l.w >= 2 /\ l = r
  ELSE IF k = "concat" THEN l.w > 0 /\ r.w > 0 /\ l.w + r.w <= 2 * W + 1
  ELSE /\ l.w = r.w
       /\ l.w >= CASE k = "eq" -> 0 [] k \in CmpOps \cup {"bvand", "bvor", "bvxor"} -> 1 [] OTHER -> 2

\* One constructor call on the two terms.
Called(k, t, x, y) == [t |-> t, c |-> Node(k, t.w, <<>>, <<x.c, y.c>>)]
Call(k, x, y) == Called(k, Make("call", <<k>>, <<x.t, y.t>>), x, y)
CallIf(q, x, y) ==
  LET t == mkIf(q, x.t, y.t)
  IN  [t |-> t, c |-> Node("ite", t.w, <<>>, <<q, x.c, y.c>>)]

\* If-then-elses of words and of bits, and what they are combined with: terms
\* whose own rewrites need an if-then-else below them.
Conditions == {Var(3, 0), Eq(Var(4, 1), Num(1, 1))}
Ifs(qs, ts) == ts \cup {CallIf(q, x, y) : q \in qs, x \in ts, y \in ts}
WordSeeds  == Ifs(Conditions, {Leaf(Var(1, W))} \cup {Leaf(Num(n, W)) : n \in {0} \cup Nums})
BitSeeds   == Ifs(Conditions \cup {ule(Var(1, W), Num(1, W))}, {Leaf(Var(4, 1)), Leaf(Num(0, 1)), Leaf(Num(1, 1))})
BoolSeeds  == {Leaf(t) : t \in {True, False} \cup Conditions} \cup {Call("eq", Leaf(Var(3, 0)), Leaf(False))}

Init == \/ /\ A \in {Leaf(Var(1, W)), Leaf(IntSMin(W))}
           /\ B \in {Leaf(Var(1, W)), Leaf(Var(2, W))}
           /\ phase = 0
        \/ /\ \E S \in {WordSeeds, BitSeeds, BoolSeeds} : A \in S /\ B \in S
           /\ phase = 2

\* A call on A and an operand, on an operand and B, or on both terms.
Fits(to, k, o) ==
  CASE to = "A"    -> phase = 0 /\ k \in OpsA
    [] to = "B"    -> phase = 1 /\ k \in OpsB /\ o \in Operands
    [] to = "both" -> phase \in {0, 1, 2} /\ o = A.t
                        /\ k \in IF phase = 2 THEN OpsA \cup CmpOps \cup BoolOps ELSE LastOps
Apply ==
  \E to \in {"A", "B", "both"}, k \in OpsA \cup OpsB \cup CmpOps \cup BoolOps \cup LastOps, o \in Operands \cup {A.t} :
    /\ Fits(to, k, o)
    /\ \E x \in {IF to = "B" THEN Leaf(o) ELSE A},
          y \in {IF to = "A" THEN Leaf(o) ELSE IF to = "both" /\ k \in Unary THEN A ELSE B} :
         /\ TypesFit(k, x.t, y.t)
         /\ \E c \in {Call(k, x, y)} : /\ A' = IF to = "B" THEN A ELSE c
                                      /\ B' = IF to = "B" THEN c ELSE B
    /\ phase' = [A |-> 1, B |-> 2, both |-> 3][to]

\* The condition is a Boolean variable, a bit test or its negation.
Select == /\ phase = 2 /\ A.t.w = B.t.w
          /\ \E q \in {Var(3, 0), Not(Var(3, 0)), Eq(Var(4, 1), Num(1, 1))} :
               A' = CallIf(q, A, B)
          /\ phase' = 3
          /\ UNCHANGED B

\* Memory is encoded with arrays: an unknown one, a constant one or one that a
\* bulk write made, which has the value of B where its condition on the index
\* holds; two stores, then a load whose index is known not to exceed max_idx.
ArrayVar == Node("var", -1, <<5>>, <<>>)
Indices  == {Var(4, IdxW), Num(0, IdxW), Num(1, IdxW)}
Bulk(q)  == [t |-> mkLambda(mkIf(q, B.t, load(ArrayVar, Bound, 2^IdxW - 1))),
             c |-> Node("lambda", -1, <<>>,
                        <<Node("ite", EltW, <<>>, <<q, B.c, Node("select", EltW, <<>>, <<ArrayVar, Bound>>)>>)>>)]
Arrays   == {Leaf(ArrayVar), [t |-> mkConstArray(B.t), c |-> Node("carray", -1, <<>>, <<B.c>>)]}
              \cup {Bulk(q) : q \in {False, Var(3, 0), Eq(Bound, Num(1, IdxW)), ule(Bound, Var(4, IdxW))}}
ReadBack == /\ phase = 0 /\ A.t.w = EltW /\ B.t.w = EltW
            /\ \E i, j, at \in Indices, arr \in Arrays, max \in 0..1 :
                 LET st == store(store(arr.t, i, A.t), j, B.t)
                 IN  A' = [t |-> load(st, at, max),
                           c |-> Node("read", EltW, <<max>>, <<arr.c, i, A.c, j, B.c, at>>)]
            /\ phase' = 3
            /\ UNCHANGED B

Next == ReadBack \/ Apply \/ Select
Spec == Init /\ [][Next]_vars_

(***************************************************************************)
(* Properties.                                                             *)
(***************************************************************************)
\* Assignments; the variables that occur nowhere are fixed.
Envs(ts) ==
  LET used == {v.p[1] : v \in UNION {vars(t) : t \in ts}}
      dom(i, w) == IF i \in used THEN 0..(2^w - 1) ELSE {0}
      arrays == IF 5 \in used THEN [0..(2^IdxW - 1) -> 0..(2^EltW - 1)]
                ELSE {[i \in 0..(2^IdxW - 1) |-> 0]}
  IN  dom(1, W) \X dom(2, W) \X dom(3, 1) \X dom(4, 1) \X arrays \X {0}

\* A term is well formed: its width is the one of the operator, numerals are in
\* range and an extract lies inside its operand.
RECURSIVE WellFormed(_)
WellFormed(t) ==
  /\ t.k = "num" => t.p[1] \in 0..(2^t.w - 1)
  /\ t.k = "extract" => /\ t.p[1] >= t.p[2] /\ t.p[1] < t.a[1].w
                        /\ t.w = t.p[1] - t.p[2] + 1
  /\ t.k = "concat" => t.w = t.a[1].w + t.a[2].w
  /\ t.k \in {"eq", "ule", "sle"} => t.a[1].w = t.a[2].w /\ t.w = 0
  /\ t.k = "ite" => t.a[1].w = 0 /\ t.a[2].w = t.w /\ t.a[3].w = t.w
  /\ \A i \in DOMAIN t.a : WellFormed(t.a[i])

\* Whatever rewrites met while it was built, the term that a sequence of
\* constructor calls returns is well formed and has, under every assignment, the
\* value the calls stand for (except where the program is already undefined).
\* A signed fixed-point product stands for the one rounded down, which is what
\* smul_fix_helper's ashr computes; its comment speaks of rounding towards zero.
RewritesKeepMeaning ==
  /\ WellFormed(A.t) /\ WellFormed(B.t)
  /\ \A env \in Envs({A.t, A.c}) :
       LET v == CallVal(A.c, env) IN v # Undef => Eval(A.t, env) = v
=============================================================================
