-------------------------------- MODULE Expr --------------------------------
(***************************************************************************)
(* The smart constructors of src/smt/expr.cpp.  Every SMT formula of       *)
(* Alive2 is built by them: each one tries a list of rewrites in a fixed   *)
(* order and only then asks Z3 for a node.  A wrong rewrite silently       *)
(* changes the verification condition, and which rewrites meet depends on  *)
(* the order in which an encoder happens to call the constructors.         *)
(*                                                                         *)
(* A term is the tree Z3 keeps: k names the Z3 operator, w is the width    *)
(* of the sort (0 for Bool, -1 for an array), p the integer parameters     *)
(* (the value of a numeral, the name of a variable, the bounds of an       *)
(* extract) and a the arguments.  Booleans are 0 and 1.                    *)
(***************************************************************************)
EXTENDS BVMeaning, SequencesExt

CONSTANTS W,      \* width of the bit-vector variables
          IdxW,   \* width of the index sort of arrays
          EltW    \* width of the element sort of arrays

BW == INSTANCE Bitwise

Node(k, w, p, a) == [k |-> k, w |-> w, p |-> p, a |-> a]
Num(n, w)        == Node("num", w, <<n % 2^w>>, <<>>)
Var(i, w)        == Node("var", w, <<i>>, <<>>)
True             == Node("true", 0, <<>>, <<>>)
False            == Node("false", 0, <<>>, <<>>)
MkBool(b)        == IF b THEN True ELSE False
AllOnes(w)       == Num(2^w - 1, w)

(***************************************************************************)
(* Z3's operators on values v (widths ws), and the value of a term under   *)
(* an assignment env of its variables.                                     *)
(***************************************************************************)
Z3Op(k, w, p, ws, v) ==
  CASE k = "bvadd"   -> (v[1] + v[2]) % 2^w
    [] k = "bvmul"   -> (v[1] * v[2]) % 2^w
    [] k = "bvand"   -> BW!&(v[1], v[2])
    [] k = "bvor"    -> BW!|(v[1], v[2])
    [] k = "bvxor"   -> BW!^^(v[1], v[2])
    [] k = "bvnot"   -> 2^w - 1 - v[1]
    [] k = "bvshl"   -> IF v[2] >= w THEN 0 ELSE (v[1] * 2^v[2]) % 2^w
    [] k = "bvlshr"  -> IF v[2] >= w THEN 0 ELSE v[1] \div 2^v[2]
    [] k = "bvashr"  -> (SVal(v[1], w) \div 2^(IF v[2] > w THEN w ELSE v[2])) % 2^w
    [] k = "bvudiv"  -> IF v[2] = 0 THEN 2^w - 1 ELSE v[1] \div v[2]
    [] k = "bvurem"  -> IF v[2] = 0 THEN v[1] ELSE v[1] % v[2]
    [] k = "bvsdiv"  -> IF v[2] = 0 THEN IF SVal(v[1], w) < 0 THEN 1 ELSE 2^w - 1
                        ELSE TDiv(SVal(v[1], w), SVal(v[2], w)) % 2^w
    [] k = "bvsrem"  -> IF v[2] = 0 THEN v[1]
                        ELSE TRem(SVal(v[1], w), SVal(v[2], w)) % 2^w
    [] k = "concat"  -> v[1] * 2^ws[2] + v[2]
    [] k = "extract" -> (v[1] \div 2^p[2]) % 2^(p[1] - p[2] + 1)
    [] k = "sext"    -> SVal(v[1], ws[1]) % 2^w
    [] k = "ule"     -> ToInt(v[1] <= v[2])
    [] k = "sle"     -> ToInt(SVal(v[1], ws[1]) <= SVal(v[2], ws[2]))
    [] k = "eq"      -> ToInt(v[1] = v[2])
    [] k = "and"     -> v[1] * v[2]
    [] k = "or"      -> ToInt(v[1] + v[2] > 0)
    [] k = "not"     -> 1 - v[1]
    [] k = "ite"     -> IF v[1] = 1 THEN v[2] ELSE v[3]
    [] k = "select"  -> v[1][v[2]]
    [] k = "store"   -> [v[1] EXCEPT ![v[2]] = v[3]]
    [] k = "carray"  -> [i \in 0..(2^IdxW - 1) |-> v[1]]

\* The variable that a lambda binds.
Bound == Var(6, IdxW)

RECURSIVE Eval(_, _)
Eval(t, env) ==
  CASE t.k = "num"   -> t.p[1]
    [] t.k = "true"  -> 1
    [] t.k = "false" -> 0
    [] t.k = "var"   -> env[t.p[1]]
    [] t.k = "lambda" -> [i \in 0..(2^IdxW - 1) |-> Eval(t.a[1], [env EXCEPT ![Bound.p[1]] = i])]
    [] OTHER -> Z3Op(t.k, t.w, t.p, [i \in DOMAIN t.a |-> t.a[i].w],
                     [i \in DOMAIN t.a |-> Eval(t.a[i], env)])

(***************************************************************************)
(* Recognisers.  Z3 shares equal terms, so eq is equality of trees.        *)
(***************************************************************************)
isConst(t)     == t.k \in {"num", "true", "false"}
isVar(t)       == t.k = "var"
isTrue(t)      == t.k = "true"
isFalse(t)     == t.k = "false"
isUInt(t)      == t.k = "num"
isZero(t)      == isUInt(t) /\ t.p[1] = 0
isOne(t)       == isUInt(t) /\ t.p[1] = 1
isAllOnes(t)   == t.w > 0 /\ t = AllOnes(t.w)
isAppOf(t, k)  == t.k = k
alwaysFalse(t) == FALSE

IntSMin(w) == Num(2^(w - 1), w)
IntSMax(w) == Num(2^(w - 1) - 1, w)
IntUMax(w) == AllOnes(w)
isSMin(t)  == t = IntSMin(t.w)
isSMax(t)  == t = IntSMax(t.w)

\* The numeral n is 2^log for log = Log2(n).
IsPow2(n) == n > 0 /\ \E i \in 0..16 : n = 2^i
Log2(n)   == CHOOSE i \in 0..16 : n = 2^i
is_power2(t) == isUInt(t) /\ IsPow2(t.p[1])

\* The number of significant bits of n.
BitLen(n) == CHOOSE i \in 0..16 : n < 2^i /\ (i = 0 \/ n >= 2^(i - 1))

RECURSIVE min_leading_zeros(_)
min_leading_zeros(t) ==
  IF isAppOf(t, "concat") THEN min_leading_zeros(t.a[1])
  ELSE IF isUInt(t) THEN t.w - BitLen(t.p[1]) ELSE 0

\* A numeral with a run of ones at the bottom.
min_trailing_ones(t) ==
  IF isUInt(t) THEN CHOOSE i \in 0..t.w : /\ \A j \in 0..(i - 1) : Bit(t.p[1], j) = 1
                                          /\ Bit(t.p[1], i) = 0
  ELSE 0

Base(t)   == IF isAppOf(t, "bvadd") /\ isUInt(t.a[1]) THEN t.a[2]
             ELSE IF isAppOf(t, "bvadd") /\ isUInt(t.a[2]) THEN t.a[1] ELSE t
Offset(t) == IF isAppOf(t, "bvadd") /\ isUInt(t.a[1]) THEN t.a[1].p[1]
             ELSE IF isAppOf(t, "bvadd") /\ isUInt(t.a[2]) THEN t.a[2].p[1] ELSE 0

(***************************************************************************)
(* A fresh Z3 node; simplify_const folds it when every input is a          *)
(* constant.  Operands of a commutative operator are put in the order of   *)
(* their Z3 ids; any order does, here constants come last.                 *)
(***************************************************************************)
OfVal(w, v) == IF w = 0 THEN MkBool(v = 1) ELSE Num(v, w)
simplify_const(t) ==
  IF \A i \in DOMAIN t.a : isConst(t.a[i]) THEN OfVal(t.w, Eval(t, <<>>)) ELSE t
App(k, w, p, a) == simplify_const(Node(k, w, p, a))
binop_fold(k, w, l, r) == App(k, w, <<>>, <<l, r>>)
Swapped(l, r) == isConst(l) \/ (isVar(r) /\ ~isVar(l) /\ ~isConst(r))
CommApp(k, w, l, r) == App(k, w, <<>>, IF Swapped(l, r) THEN <<r, l>> ELSE <<l, r>>)

(***************************************************************************)
(* The constructors call each other.  Make is the only recursive operator: *)
(* it applies the rules of one constructor, and the rules build their      *)
(* terms with the constructors' names.                                     *)
(***************************************************************************)
RECURSIVE Make(_, _, _)
Plus(l, r)     == Make("bvadd", <<>>, <<l, r>>)
Times(l, r)    == Make("bvmul", <<>>, <<l, r>>)
Shl(l, r)      == Make("bvshl", <<>>, <<l, r>>)
And(l, r)      == Make("bvand", <<>>, <<l, r>>)
Or(l, r)       == Make("bvor", <<>>, <<l, r>>)
Xor(l, r)      == Make("bvxor", <<>>, <<l, r>>)
Eq(l, r)       == Make("eq", <<>>, <<l, r>>)
ule(l, r)      == Make("ule", <<>>, <<l, r>>)
concat(l, r)   == Make("concat", <<>>, <<l, r>>)
sext(t, n)     == Make("sext", <<n>>, <<t>>)
mkIf(c, t, e)  == Make("ite", <<>>, <<c, t, e>>)
extractD(t, hi, lo, depth) == Make("extract", <<hi, lo, depth>>, <<t>>)
add_no_uoverflow(l, r) == Make("add_no_uoverflow", <<>>, <<l, r>>)

\* How deep extract looks into if-then-else and bitwise operators.
ExtractDepth == 3
extract(t, hi, lo) == extractD(t, hi, lo, ExtractDepth)
trunc(t, w)        == extract(t, w - 1, 0)
zext(t, n)         == IF n = 0 THEN t ELSE concat(Num(0, n), t)
zextOrTrunc(t, w)  == IF t.w < w THEN zext(t, w - t.w) ELSE trunc(t, w)
sextOrTrunc(t, w)  == IF t.w < w THEN sext(t, w - t.w) ELSE trunc(t, w)
sign(t)            == extract(t, t.w - 1, t.w - 1)

Not(t) == IF isTrue(t) THEN False ELSE IF isFalse(t) THEN True
          ELSE IF isAppOf(t, "not") THEN t.a[1]
          ELSE Node("not", 0, <<>>, <<t>>)
BvNot(t) == App("bvnot", t.w, <<>>, <<t>>)

AndB(l, r) ==
  IF l = r \/ isFalse(l) \/ isTrue(r) THEN l
  ELSE IF isTrue(l) \/ isFalse(r) THEN r
  ELSE Node("and", 0, <<>>, <<l, r>>)

IsNotOf(l, r) == isAppOf(l, "not") /\ l.a[1] = r
OrB(l, r) ==
  IF l = r \/ isFalse(r) \/ isTrue(l) THEN l
  ELSE IF isTrue(r) \/ isFalse(l) THEN r
  ELSE IF IsNotOf(l, r) \/ IsNotOf(r, l) THEN True
  ELSE IF /\ isAppOf(l, "and") /\ isAppOf(r, "and") /\ l.a[2] = r.a[2]
          /\ IsNotOf(l.a[1], r.a[1]) \/ IsNotOf(r.a[1], l.a[1])
       THEN l.a[2]
  ELSE Node("or", 0, <<>>, <<l, r>>)

mk_and(ts)       == FoldLeft(AndB, True, ts)
implies(l, r)    == IF l = r THEN True ELSE OrB(Not(l), r)
notImplies(l, r) == IF l = r THEN False ELSE AndB(l, Not(r))
isNegative(t)    == Eq(sign(t), Num(1, 1))
toBVBool(t)      == mkIf(t, Num(1, 1), Num(0, 1))

(***************************************************************************)
(* Arithmetic.                                                             *)
(***************************************************************************)
\* Re-association of constants: c1 op (c2 op x) becomes (c1 op c2) op x.
Identity(k, t)  == CASE k \in {"bvadd", "bvor", "bvxor"} -> isZero(t)
                     [] k = "bvmul" -> isOne(t)  [] k = "bvand" -> isAllOnes(t)
Absorvent(k, t) == CASE k \in {"bvadd", "bvxor"} -> alwaysFalse(t)
                     [] k \in {"bvmul", "bvand"} -> isZero(t)
                     [] k = "bvor" -> isAllOnes(t)
Reassociate(k, c, t) ==
  IF isAppOf(t, k) /\ isConst(t.a[1]) THEN Make(k, <<>>, <<Make(k, <<>>, <<c, t.a[1]>>), t.a[2]>>)
  ELSE IF isAppOf(t, k) /\ isConst(t.a[2])
       THEN Make(k, <<>>, <<Make(k, <<>>, <<c, t.a[2]>>), t.a[1]>>)
  ELSE CommApp(k, c.w, c, t)
binopc(k, l, r) ==
  IF Absorvent(k, l) \/ Identity(k, r) THEN l
  ELSE IF Absorvent(k, r) \/ Identity(k, l) THEN r
  ELSE IF isConst(l) \/ isConst(r)
       THEN Reassociate(k, IF isConst(l) THEN l ELSE r, IF isConst(l) THEN r ELSE l)
  ELSE CommApp(k, l.w, l, r)

PlusRules(l, r) ==
  LET low == l.a[2]
      r2  == trunc(r, low.w)
  IN  IF /\ isConst(r) /\ isAppOf(l, "concat") /\ isConst(low)
         /\ zextOrTrunc(r2, r.w) = r
         /\ isTrue(add_no_uoverflow(low, r2))
      THEN concat(l.a[1], Plus(low, r2))
      ELSE binopc("bvadd", l, r)

TimesRules(l, r) ==
  IF is_power2(r) THEN Shl(l, Num(Log2(r.p[1]), l.w))
  ELSE IF is_power2(l) THEN Shl(r, Num(Log2(l.p[1]), l.w))
  ELSE binopc("bvmul", l, r)

Minus(l, r) == IF l = r THEN Num(0, l.w) ELSE Plus(l, Times(AllOnes(l.w), r))

sdiv(l, r) ==
  IF l = r THEN Num(1, l.w)
  ELSE IF isZero(r) THEN r
  ELSE IF isZero(l) \/ isOne(r) THEN l
  ELSE IF isSMin(l) /\ isAllOnes(r) THEN Num(0, l.w)
  ELSE binop_fold("bvsdiv", l.w, l, r)

udiv(l, r) ==
  IF l = r THEN Num(1, l.w)
  ELSE IF isZero(r) THEN r
  ELSE IF isZero(l) \/ isOne(r) THEN l
  ELSE binop_fold("bvudiv", l.w, l, r)

urem(l, r) ==
  IF l = r \/ isZero(l) \/ (isUInt(r) /\ r.p[1] <= 1) THEN Num(0, l.w)
  ELSE IF is_power2(r)
       THEN LET log == Log2(r.p[1])
            IN  concat(Num(0, l.w - log), extract(l, log - 1, 0))
  ELSE binop_fold("bvurem", l.w, l, r)

srem(l, r) ==
  IF l = r \/ isZero(l) \/ (isSMin(l) /\ isAllOnes(r)) THEN Num(0, l.w)
  ELSE IF isZero(r) THEN r
  ELSE IF isFalse(isNegative(l)) /\ isFalse(isNegative(r)) THEN urem(l, r)
  ELSE binop_fold("bvsrem", l.w, l, r)

ShlRules(l, r) ==
  IF isZero(l) \/ isZero(r) THEN l
  ELSE IF isUInt(r)
       THEN IF r.p[1] >= l.w THEN Num(0, l.w)
            ELSE concat(extract(l, l.w - r.p[1] - 1, 0), Num(0, r.p[1]))
  ELSE binop_fold("bvshl", l.w, l, r)

ashr(l, r) == IF isZero(l) \/ isZero(r) THEN l ELSE binop_fold("bvashr", l.w, l, r)

lshr(l, r) ==
  IF isZero(l) \/ isZero(r) THEN l
  ELSE IF isUInt(r)
       THEN IF r.p[1] >= l.w THEN Num(0, l.w)
            ELSE concat(Num(0, r.p[1]), extract(l, l.w - 1, r.p[1]))
  ELSE binop_fold("bvlshr", l.w, l, r)

(***************************************************************************)
(* Bitwise operators.                                                      *)
(***************************************************************************)
\* n is a run of ones: the mask is an extract between zeros.
Trail(n)  == CHOOSE i \in 0..16 : Bit(n, i) = 1 /\ \A j \in 0..(i - 1) : Bit(n, j) = 0
IsMask(t) == isUInt(t) /\ t.p[1] # 0 /\ IsPow2((t.p[1] \div 2^Trail(t.p[1])) + 1)
FoldExtract(m, t) ==
  LET n     == m.p[1]
      lead  == m.w - BitLen(n)
      trail == Trail(n)
      mid   == extract(t, BitLen(n) - 1, trail)
      top   == IF lead > 0 THEN concat(Num(0, lead), mid) ELSE mid
  IN  IF trail > 0 THEN concat(top, Num(0, trail)) ELSE top

\* A 1-bit if-then-else that stands for its condition or for the negation.
IsBoolIte(t) == /\ isAppOf(t, "ite")
                /\ \/ isOne(t.a[2]) /\ isZero(t.a[3])
                   \/ isZero(t.a[2]) /\ isOne(t.a[3])
get_bool(t)  == IF isOne(t.a[2]) THEN t.a[1] ELSE Not(t.a[1])

AndRules(l, r) ==
  IF l = r \/ isZero(l) \/ isAllOnes(r) THEN l
  ELSE IF isAllOnes(l) \/ isZero(r) THEN r
  ELSE IF IsMask(l) THEN FoldExtract(l, r)
  ELSE IF IsMask(r) THEN FoldExtract(r, l)
  ELSE IF l.w = 1 /\ IsBoolIte(l) /\ IsBoolIte(r)
       THEN toBVBool(AndB(get_bool(l), get_bool(r)))
  ELSE binopc("bvand", l, r)

OrRules(l, r) ==
  IF l = r \/ isAllOnes(l) \/ isZero(r) THEN l
  ELSE IF isZero(l) \/ isAllOnes(r) THEN r
  ELSE IF l.w = 1 /\ IsBoolIte(l) /\ IsBoolIte(r)
       THEN toBVBool(OrB(get_bool(l), get_bool(r)))
  ELSE binopc("bvor", l, r)

XorRules(l, r) ==
  IF l = r THEN Num(0, l.w)
  ELSE IF isAllOnes(l) THEN IF l.w = 1 THEN toBVBool(Eq(r, Num(0, 1))) ELSE BvNot(r)
  ELSE IF isAllOnes(r) THEN IF l.w = 1 THEN toBVBool(Eq(l, Num(0, 1))) ELSE BvNot(l)
  ELSE binopc("bvxor", l, r)

(***************************************************************************)
(* Comparisons.                                                            *)
(***************************************************************************)
uleRules(l, r) ==
  IF l = r \/ isZero(l) \/ isAllOnes(r) THEN True
  ELSE IF isZero(r) \/ isAllOnes(l) THEN Eq(l, r)
  ELSE IF min_leading_zeros(l) + min_trailing_ones(r) >= l.w THEN True
  ELSE binop_fold("ule", 0, l, r)

uge(l, r) == ule(r, l)
ult(l, r) == IF isUInt(r)
             THEN IF r.p[1] = 0 THEN False ELSE ule(l, Num(r.p[1] - 1, l.w))
             ELSE Not(ule(r, l))
ugt(l, r) == IF isAllOnes(r) THEN False
             ELSE IF isUInt(r) THEN uge(l, Plus(Num(r.p[1], l.w), Num(1, l.w)))
             ELSE Not(ule(l, r))
sle(l, r) == IF l = r \/ isSMax(r) THEN True ELSE binop_fold("sle", 0, l, r)
sge(l, r) == sle(r, l)
slt(l, r) == IF isSMin(r) THEN False
             ELSE IF isUInt(r) THEN sle(l, Num(SVal(r.p[1], r.w) - 1, l.w))
             ELSE Not(sle(r, l))
sgt(l, r) == Not(sle(l, r))

\* (concat ..) == (concat ..): the aligned parts, and the overlap of two
\* constant parts when the parts are not aligned.
ConcatEqs(l, r) ==
  LET part(i)   ==
        LET li == IF i = 1 THEN 0 ELSE l.a[1].w  ri == IF i = 1 THEN 0 ELSE r.a[1].w
            lb == l.a[i].w  rb == r.a[i].w
        IN  IF li = ri /\ lb = rb THEN Eq(l.a[i], r.a[i])
            ELSE IF ~(isConst(l.a[i]) /\ isConst(r.a[i])) THEN True
            ELSE IF li >= ri /\ li < ri + rb
                 THEN LET ov   == IF rb - (li - ri) < lb THEN rb - (li - ri) ELSE lb
                          roff == ri + rb - (li + ov)
                      IN  Eq(extract(l.a[i], lb - 1, lb - ov),
                             extract(r.a[i], roff + ov - 1, roff))
            ELSE IF ri >= li /\ ri < li + lb
                 THEN LET ov   == IF lb - (ri - li) < rb THEN lb - (ri - li) ELSE rb
                          loff == li + lb - (ri + ov)
                      IN  Eq(extract(l.a[i], loff + ov - 1, loff),
                             extract(r.a[i], rb - 1, rb - ov))
            ELSE True
  IN  mk_and(<<part(1), part(2)>>)
Aligned(l, r) == isAppOf(l, "concat") /\ isAppOf(r, "concat") /\ l.a[1].w = r.a[1].w

\* (concat x y) == const, part by part.
ConcatEqConst(l, c) ==
  mk_and(<<Eq(l.a[1], extract(c, l.w - 1, l.a[2].w)),
           Eq(l.a[2], extract(c, l.a[2].w - 1, 0))>>)

IteEqIte(l, r) == /\ isAppOf(r, "ite") /\ l.a[2] = r.a[2] /\ l.a[3] = r.a[3]
                  /\ l.a[2] # l.a[3] /\ isConst(l.a[2]) /\ isConst(l.a[3])
PushEqIntoIte(l, r) == \/ isConst(r) /\ (isConst(l.a[2]) \/ isConst(l.a[3]))
                       \/ isConst(l.a[2]) /\ isConst(l.a[3]) /\ ~isVar(r)
\* Mutant: the sum may wrap.
SumAbove(l, r) == isTrue(ult(r, l.a[1])) \/ isTrue(ult(r, l.a[2]))
NonNegSumAbove(l, r) == /\ isFalse(isNegative(l.a[1])) /\ isFalse(isNegative(l.a[2]))
                        /\ isTrue(ult(r, l.a[1])) \/ isTrue(ult(r, l.a[2]))

EqRest(l, r) ==
  IF isAppOf(l, "bvadd") /\ NonNegSumAbove(l, r) THEN False
  ELSE IF isAppOf(l, "bvurem") /\ isTrue(uge(r, l.a[2])) THEN False
  ELSE IF isAppOf(l, "sext") /\ isAppOf(r, "sext") /\ l.a[1].w = r.a[1].w
       THEN Eq(l.a[1], r.a[1])
  ELSE IF isAppOf(l, "sext") /\ isZero(r) THEN Eq(l.a[1], Num(0, l.a[1].w))
  ELSE CommApp("eq", 0, l, r)

EqIte(l, r) ==
  IF isAppOf(l, "ite") /\ IteEqIte(l, r) THEN Eq(l.a[1], r.a[1])
  ELSE IF isAppOf(l, "ite") /\ PushEqIntoIte(l, r)
       THEN mkIf(l.a[1], Eq(l.a[2], r), Eq(l.a[3], r))
  ELSE IF ~isAppOf(l, "ite") /\ isAppOf(r, "ite") THEN Eq(r, l)
  ELSE EqRest(l, r)

EqOfParts(l, r, eqs) == IF Aligned(l, r) \/ isFalse(eqs) THEN eqs ELSE EqIte(l, r)
EqConcat(l, r) ==
  IF isAppOf(l, "concat") /\ isConst(r) THEN ConcatEqConst(l, r)
  ELSE EqOfParts(l, r, IF isAppOf(l, "concat") /\ isAppOf(r, "concat") THEN ConcatEqs(l, r) ELSE True)

EqRules(l, r) ==
  IF l = r THEN True
  ELSE IF isConst(l) THEN IF isConst(r) THEN False ELSE Eq(r, l)
  ELSE IF isTrue(r) THEN l
  ELSE IF isFalse(r) THEN Not(l)
  ELSE IF /\ isAppOf(l, "eq") /\ l.a[1].w = 1 /\ isAppOf(r, "eq")
          /\ l.a[1] = r.a[1]
       THEN Eq(l.a[2], r.a[2])
  ELSE IF Base(l) = Base(r) /\ Offset(l) # Offset(r) THEN False
  ELSE EqConcat(l, r)

NotEq(l, r) == Not(Eq(l, r))

(***************************************************************************)
(* Widths.                                                                 *)
(***************************************************************************)
sextRules(t, n) ==
  IF n = 0 THEN t
  ELSE IF isAppOf(t, "sext") THEN sext(t.a[1], t.w - t.a[1].w + n)
  ELSE IF isFalse(isNegative(t)) THEN zext(t, n)
  ELSE App("sext", t.w + n, <<n>>, <<t>>)

isExtract(t) == isAppOf(t, "extract")
Adjacent(l, r) == isExtract(l) /\ isExtract(r) /\ l.p[2] = r.p[1] + 1
Joined(l, r)   == extract(l.a[1], l.p[1], r.p[2])
concatRules(l, r) ==
  IF Adjacent(l, r) /\ l.a[1] = r.a[1] THEN Joined(l, r)
  \* No extract meets this width: its upper bound would lie outside.
  ELSE IF /\ Adjacent(l, r) /\ r.p[2] = 0 /\ isAppOf(l.a[1], "concat") /\ l.a[1].a[2] = r.a[1]
          /\ l.p[1] - l.a[1].a[1].w = r.a[1].w
       THEN concat(l.a[1].a[1], r.a[1])
  ELSE IF isAppOf(r, "concat") /\ Adjacent(l, r.a[1]) /\ l.a[1] = r.a[1].a[1]
       THEN concat(Joined(l, r.a[1]), r.a[2])
  ELSE IF isAppOf(l, "concat") /\ Adjacent(l.a[2], r) /\ l.a[2].a[1] = r.a[1]
       THEN concat(l.a[1], Joined(l.a[2], r))
  ELSE IF isConst(l) /\ isAppOf(r, "concat") /\ isConst(r.a[1])
       THEN concat(concat(l, r.a[1]), r.a[2])
  ELSE App("concat", l.w + r.w, <<>>, <<l, r>>)
concat_zeros(t, n) == IF n = 0 THEN t ELSE concat(t, Num(0, n))

ExtractConcat(t, hi, lo) ==
  LET x == t.a[1]  y == t.a[2]  yw == y.w
  IN  IF hi < yw THEN extract(y, hi, lo)
      ELSE IF lo >= yw THEN extract(x, hi - yw, lo - yw)
      ELSE IF lo = 0 THEN concat(extract(x, hi - yw, 0), y)
      ELSE IF isConst(x) \/ isConst(y)
           THEN concat(extract(x, hi - yw, 0), extract(y, yw - 1, lo))
      ELSE Node("extract", hi - lo + 1, <<hi, lo>>, <<t>>)

\* extract of a bitwise operator: an absorbing or a common part.
ExtractBitwise(t, hi, lo, d) ==
  LET part(i) == extractD(t.a[i], hi, lo, d)
      Abs(x)  == IF t.k = "bvand" THEN isZero(x) ELSE isAllOnes(x)
  IN  IF Abs(part(1)) THEN part(1)
      ELSE IF Abs(part(2)) \/ part(1) = part(2) THEN part(2)
      ELSE Node("extract", hi - lo + 1, <<hi, lo>>, <<t>>)

ExtractOf(t, hi, lo, depth, raw) ==
  LET d == depth - 1
  IN  IF lo = 0 /\ hi = t.w - 1 THEN t
      ELSE IF depth = 0 THEN raw
      ELSE IF isExtract(t) THEN extract(t.a[1], hi + t.p[2], lo + t.p[2])
      ELSE IF lo = 0 /\ isAppOf(t, "sext")
           THEN IF hi < t.a[1].w THEN extract(t.a[1], hi, 0)
                ELSE sext(t.a[1], hi - t.a[1].w + 1)
      ELSE IF isAppOf(t, "bvashr") /\ isUInt(t.a[2]) /\ hi + t.a[2].p[1] < t.w
           THEN extract(t.a[1], hi + t.a[2].p[1], lo + t.a[2].p[1])
      ELSE IF isAppOf(t, "concat") THEN ExtractConcat(t, hi, lo)
      ELSE IF isAppOf(t, "ite")
           THEN LET th == extractD(t.a[2], hi, lo, d)
                    el == extractD(t.a[3], hi, lo, d)
                IN  IF th = el THEN th
                    ELSE IF isConst(th) /\ isConst(el) THEN mkIf(t.a[1], th, el)
                    ELSE raw
      ELSE IF t.k \in {"bvand", "bvor"} THEN ExtractBitwise(t, hi, lo, d)
      ELSE raw
extractRules(t, hi, lo, depth) ==
  ExtractOf(t, hi, lo, depth, App("extract", hi - lo + 1, <<hi, lo>>, <<t>>))

(***************************************************************************)
(* if-then-else and arrays.                                                *)
(***************************************************************************)
\* (ite (= x 1) 1 0) and (ite (= x 1) 0 1) on one bit.
BitTest(c, t) == /\ t.w = 1 /\ isAppOf(c, "eq") /\ c.a[1].w = 1
                 /\ isOne(c.a[1]) \/ isOne(c.a[2])
Tested(c)     == IF isOne(c.a[1]) THEN c.a[2] ELSE c.a[1]

mkIfRules(c, t, e) ==
  IF isTrue(c) \/ t = e THEN t
  ELSE IF isFalse(c) THEN e
  ELSE IF isTrue(t) \/ c = t THEN OrB(c, e)
  ELSE IF isFalse(t) THEN AndB(Not(c), e)
  ELSE IF isTrue(e) THEN OrB(Not(c), t)
  ELSE IF isFalse(e) THEN AndB(c, t)
  ELSE IF isAppOf(c, "not") THEN mkIf(c.a[1], e, t)
  ELSE IF BitTest(c, t) /\ isOne(t) /\ isZero(e) THEN Tested(c)
  ELSE IF BitTest(c, t) /\ isZero(t) /\ isOne(e) THEN BvNot(Tested(c))
  ELSE IF isAppOf(e, "ite") /\ t = e.a[2] THEN mkIf(OrB(c, e.a[1]), t, e.a[3])
  ELSE Node("ite", t.w, <<>>, <<c, t, e>>)

mkConstArray(v) == Node("carray", -1, <<>>, <<v>>)

RECURSIVE store(_, _, _)
store(arr, idx, v) ==
  IF isAppOf(arr, "store") /\ isTrue(Eq(idx, arr.a[2]))
  THEN store(arr.a[1], idx, v)
  ELSE IF isAppOf(arr, "carray") /\ arr.a[1] = v THEN arr
  ELSE Node("store", -1, <<>>, <<arr, idx, v>>)

\* expr::vars: the variables of a term.
RECURSIVE vars(_)
vars(t) == IF isVar(t) THEN {t} ELSE UNION {vars(t.a[i]) : i \in DOMAIN t.a}

\* The array of the values val has for each index.
mkLambda(val) ==
  IF Bound \notin vars(val) THEN mkConstArray(val)
  ELSE IF isAppOf(val, "select") /\ val.a[2] = Bound THEN val.a[1]
  ELSE Node("lambda", -1, <<>>, <<val>>)
RECURSIVE subst_var(_, _)
subst_var(t, idx) ==
  IF t = Bound THEN idx ELSE [t EXCEPT !.a = [i \in DOMAIN t.a |-> subst_var(t.a[i], idx)]]

RECURSIVE load(_, _, _), foldTopLevel(_)
load(arr, idx, max_idx) ==
  LET raw == Node("select", EltW, <<>>, <<arr, idx>>)
  IN  IF isAppOf(arr, "store")
      THEN IF isUInt(arr.a[2]) /\ arr.a[2].p[1] > max_idx
           THEN load(arr.a[1], idx, max_idx)
           ELSE LET cmp == Eq(idx, arr.a[2])
                    was == load(arr.a[1], idx, max_idx)
                IN  IF isTrue(cmp) THEN arr.a[3]
                    ELSE IF isFalse(cmp) \/ arr.a[3] = was THEN was
                    ELSE raw
      ELSE IF isAppOf(arr, "carray") THEN arr.a[1]
      ELSE IF isAppOf(arr, "lambda") THEN foldTopLevel(subst_var(arr.a[1], idx))
      ELSE raw
foldTopLevel(t) ==
  IF isAppOf(t, "ite") THEN mkIf(foldTopLevel(t.a[1]), foldTopLevel(t.a[2]), foldTopLevel(t.a[3]))
  ELSE IF isAppOf(t, "select") /\ isConst(t.a[2]) THEN load(t.a[1], t.a[2], 2^IdxW - 1)
  ELSE IF t.a # <<>> THEN simplify_const(t)
  ELSE t

add_no_uoverflowRules(l, r) ==
  IF min_leading_zeros(l) >= 1 /\ min_leading_zeros(r) >= 1 THEN True
  ELSE IF isConst(r) THEN ule(l, Minus(AllOnes(r.w), r))
  ELSE IF isConst(l) THEN ule(r, Minus(AllOnes(l.w), l))
  ELSE Eq(sign(Plus(zext(l, 1), zext(r, 1))), Num(0, 1))

(***************************************************************************)
(* Overflow predicates.                                                    *)
(***************************************************************************)
InSRange(t, c, v) == IF isTrue(isNegative(c)) THEN sge(t, v) ELSE sle(t, Minus(v, Num(1, c.w)))
AddConstNoSOverflow(t, c) == InSRange(t, c, Minus(IntSMin(t.w), c))
add_no_soverflow(l, r) ==
  IF min_leading_zeros(l) >= 2 /\ min_leading_zeros(r) >= 2 THEN True
  ELSE IF isConst(r) THEN AddConstNoSOverflow(l, r)
  ELSE IF isConst(l) THEN AddConstNoSOverflow(r, l)
  ELSE Eq(Plus(sext(l, 1), sext(r, 1)), sext(Plus(l, r), 1))

add_no_usoverflow(l, r) ==
  IF min_leading_zeros(l) >= 1 /\ min_leading_zeros(r) >= 1 THEN True
  ELSE Eq(sign(Plus(zext(l, 1), sext(r, 1))), Num(0, 1))

sub_no_soverflow(l, r) ==
  IF min_leading_zeros(l) >= 1 /\ min_leading_zeros(r) >= 1 THEN True
  ELSE Eq(Minus(sext(l, 1), sext(r, 1)), sext(Minus(l, r), 1))

sub_no_uoverflow(l, r) == Eq(sign(Minus(zext(l, 1), zext(r, 1))), Num(0, 1))

mul_no_soverflow(l, r) == Eq(Times(sext(l, l.w), sext(r, l.w)), sext(Times(l, r), l.w))

mul_no_uoverflow(l, r) ==
  Eq(extract(Times(zext(l, l.w), zext(r, l.w)), 2 * l.w - 1, l.w), Num(0, l.w))

shl_no_soverflow(l, r) == Eq(ashr(Shl(l, r), r), l)
shl_no_uoverflow(l, r) == Eq(lshr(Shl(l, r), r), l)
ashr_exact(l, r)       == Eq(Shl(ashr(l, r), r), l)
lshr_exact(l, r)       == Eq(Shl(lshr(l, r), r), l)
sdiv_exact(l, r)       == Eq(Times(sdiv(l, r), r), l)
udiv_exact(l, r)       == Eq(Times(udiv(l, r), r), l)

(***************************************************************************)
(* Saturating, funnel-shift and fixed-point arithmetic.                    *)
(***************************************************************************)
\* Both saturating signed operators clamp the sum or difference of w+1 bits.
Clamp(ext, same, w) ==
  mkIf(sle(ext, sext(IntSMin(w), 1)), IntSMin(w),
       mkIf(sge(ext, sext(IntSMax(w), 1)), IntSMax(w), same))
sadd_sat(l, r) == Clamp(Plus(sext(l, 1), sext(r, 1)), Plus(l, r), l.w)
ssub_sat(l, r) == Clamp(Minus(sext(l, 1), sext(r, 1)), Minus(l, r), l.w)
uadd_sat(l, r) == mkIf(add_no_uoverflow(l, r), Plus(l, r), IntUMax(l.w))
usub_sat(l, r) == mkIf(uge(r, l), Num(0, l.w), Minus(l, r))
sshl_sat(l, r) == mkIf(shl_no_soverflow(l, r), Shl(l, r),
                       mkIf(isNegative(l), IntSMin(l.w), IntSMax(l.w)))
ushl_sat(l, r) == mkIf(shl_no_uoverflow(l, r), Shl(l, r), IntUMax(l.w))

\* Funnel shifts of the pair a:b.
Funnel(a, b, m, n) == Or(Shl(a, m), lshr(b, n))
fshl(a, b, c) == LET width == Num(a.w, a.w)  m == urem(c, width)
                 IN  Funnel(a, b, m, Minus(width, m))
fshr(a, b, c) == LET width == Num(a.w, a.w)  m == urem(c, width)
                 IN  Funnel(a, b, Minus(width, m), m)

smul_fix_helper(a, b, c) ==
  ashr(Times(sext(a, a.w), sext(b, a.w)), zextOrTrunc(c, 2 * a.w))
smul_fix(a, b, c) == trunc(smul_fix_helper(a, b, c), a.w)
FitsSigned(r, w) == Eq(sext(trunc(r, w), w), r)
smul_fix_no_soverflow(a, b, c) == FitsSigned(smul_fix_helper(a, b, c), a.w)
smul_fix_sat(a, b, c) ==
  mkIf(smul_fix_no_soverflow(a, b, c), smul_fix(a, b, c),
       mkIf(isNegative(smul_fix_helper(a, b, c)), IntSMin(a.w), IntSMax(a.w)))

umul_fix_helper(a, b, c) ==
  lshr(Times(zext(a, a.w), zext(b, a.w)), zextOrTrunc(c, 2 * a.w))
umul_fix(a, b, c) == trunc(umul_fix_helper(a, b, c), a.w)
umul_fix_no_uoverflow(a, b, c) ==
  Eq(extract(umul_fix_helper(a, b, c), 2 * a.w - 1, a.w), Num(0, a.w))
umul_fix_sat(a, b, c) ==
  mkIf(umul_fix_no_uoverflow(a, b, c), umul_fix(a, b, c), IntUMax(a.w))

(***************************************************************************)
(* Bit counting and permutation: loops over the bits.                      *)
(***************************************************************************)
Upto(n)    == [i \in 1..n |-> i - 1]
BitOf(t, i) == extract(t, i, i)
IsSet(t, i) == Eq(BitOf(t, i), Num(1, 1))

\* The first set bit above bit 0, 0 when there is none.
log2(t, wout) ==
  FoldLeft(LAMBDA acc, i : IF i = 0 THEN Num(0, wout) ELSE mkIf(IsSet(t, i), Num(i, wout), acc),
           Num(0, wout), Upto(t.w))
isPowerOf2(t) == AndB(NotEq(t, Num(0, t.w)),
                      Eq(And(t, Minus(t, Num(1, t.w))), Num(0, t.w)))
bitreverse(t) == FoldLeft(LAMBDA acc, i : concat(acc, BitOf(t, i)),
                          BitOf(t, 0), Tail(Upto(t.w)))
cttz(t, vzero) == FoldLeft(LAMBDA acc, i : mkIf(IsSet(t, i), Num(i, t.w), acc),
                           vzero, Reverse(Upto(t.w)))
ctlz(t) == FoldLeft(LAMBDA acc, i : mkIf(IsSet(t, i), Num(t.w - 1 - i, t.w), acc),
                    Num(t.w, t.w), Upto(t.w))
ctpop(t) == FoldLeft(LAMBDA acc, i : Plus(acc, zext(BitOf(t, i), t.w - 1)),
                     Num(0, t.w), Upto(t.w))
clmul(l, r) ==
  FoldLeft(LAMBDA acc, i : Xor(acc, And(sext(BitOf(l, i), l.w - 1), Shl(r, Num(i, l.w)))),
           Num(0, l.w), Upto(l.w))
Active(mask, i) == zext(BitOf(mask, i), mask.w - 1)
pext(t, mask) ==
  FoldLeft(LAMBDA acc, i :
             [res |-> Or(acc.res, Shl(And(Active(mask, i), zext(BitOf(t, i), t.w - 1)), acc.sh)),
              sh  |-> Plus(acc.sh, Active(mask, i))],
           [res |-> Num(0, t.w), sh |-> Num(0, t.w)], Upto(t.w)).res
pdep(t, mask) ==
  FoldLeft(LAMBDA acc, i :
             [res |-> Or(acc.res, Shl(And(Active(mask, i), lshr(t, acc.sh)), Num(i, t.w))),
              sh  |-> Plus(acc.sh, Active(mask, i))],
           [res |-> Num(0, t.w), sh |-> Num(0, t.w)], Upto(t.w)).res

umin(l, r) == mkIf(ule(l, r), l, r)
umax(l, r) == mkIf(uge(l, r), l, r)
smin(l, r) == mkIf(sle(l, r), l, r)
smax(l, r) == mkIf(sge(l, r), l, r)
abs(t)     == mkIf(sge(t, Num(0, t.w)), t, Times(AllOnes(t.w), t))
RoundUp(t, m) == And(Plus(t, m), BvNot(m))
round_up(t, pow2) == RoundUp(t, Minus(pow2, Num(1, t.w)))
round_up_bits(t, n) == round_up(t, Shl(Num(1, t.w), zextOrTrunc(n, t.w)))
round_up_bits_no_overflow(t, n) ==
  LET p == Shl(Num(1, t.w), zextOrTrunc(n, t.w))
  IN  add_no_uoverflow(t, Minus(p, Num(1, t.w)))

\* Floats encoded as bit vectors only touch the sign bit.
fneg(t) == concat(BvNot(sign(t)), extract(t, t.w - 2, 0))
fabs(t) == concat(Num(0, 1), extract(t, t.w - 2, 0))
copysign(t, s) == concat(sign(s), extract(t, t.w - 2, 0))

(***************************************************************************)
(* A call of a constructor, and the term it returns.                       *)
(***************************************************************************)
BoolOps  == {"and", "or", "implies", "notImplies"}
CmpOps   == {"ule", "ult", "ugt", "sle", "slt", "sgt", "eq"}
Unary    == {"bvnot", "isPowerOf2", "log2", "bitreverse", "ctlz", "ctpop", "abs",
             "fneg", "fabs", "sextOrTrunc", "zextOrTrunc", "half"}
Construct(k, l, r) ==
  CASE k = "bvadd" -> Plus(l, r)   [] k = "bvsub" -> Minus(l, r)
    [] k = "bvmul" -> Times(l, r)  [] k = "bvsdiv" -> sdiv(l, r)
    [] k = "bvudiv" -> udiv(l, r)  [] k = "bvsrem" -> srem(l, r)
    [] k = "bvurem" -> urem(l, r)  [] k = "bvshl" -> Shl(l, r)
    [] k = "bvashr" -> ashr(l, r)  [] k = "bvlshr" -> lshr(l, r)
    [] k = "bvand" -> And(l, r)    [] k = "bvor" -> Or(l, r)
    [] k = "bvxor" -> Xor(l, r)    [] k = "concat" -> concat(l, r)
    [] k = "ule" -> ule(l, r) [] k = "ult" -> ult(l, r) [] k = "ugt" -> ugt(l, r)
    [] k = "sle" -> sle(l, r) [] k = "slt" -> slt(l, r) [] k = "sgt" -> sgt(l, r)
    [] k = "eq" -> Eq(l, r)
    [] k = "and" -> AndB(l, r)        [] k = "or" -> OrB(l, r)
    [] k = "implies" -> implies(l, r) [] k = "notImplies" -> notImplies(l, r)
    [] k = "sadd_sat" -> sadd_sat(l, r) [] k = "uadd_sat" -> uadd_sat(l, r)
    [] k = "ssub_sat" -> ssub_sat(l, r) [] k = "usub_sat" -> usub_sat(l, r)
    [] k = "sshl_sat" -> sshl_sat(l, r) [] k = "ushl_sat" -> ushl_sat(l, r)
    [] k = "add_nsw" -> add_no_soverflow(l, r) [] k = "add_nuw" -> add_no_uoverflow(l, r)
    [] k = "add_nus" -> add_no_usoverflow(l, r)
    [] k = "sub_nsw" -> sub_no_soverflow(l, r) [] k = "sub_nuw" -> sub_no_uoverflow(l, r)
    [] k = "mul_nsw" -> mul_no_soverflow(l, r) [] k = "mul_nuw" -> mul_no_uoverflow(l, r)
    [] k = "shl_nsw" -> shl_no_soverflow(l, r) [] k = "shl_nuw" -> shl_no_uoverflow(l, r)
    [] k = "ashr_exact" -> ashr_exact(l, r) [] k = "lshr_exact" -> lshr_exact(l, r)
    [] k = "sdiv_exact" -> sdiv_exact(l, r) [] k = "udiv_exact" -> udiv_exact(l, r)
    [] k = "fshl" -> fshl(l, r, Var(2, l.w)) [] k = "fshr" -> fshr(l, r, Var(2, l.w))
    [] k = "smul_fix" -> smul_fix(l, r, Num(1, l.w))
    [] k = "smul_fix_nsw" -> smul_fix_no_soverflow(l, r, Num(1, l.w))
    [] k = "smul_fix_sat" -> smul_fix_sat(l, r, Num(1, l.w))
    [] k = "umul_fix" -> umul_fix(l, r, Num(1, l.w))
    [] k = "umul_fix_nuw" -> umul_fix_no_uoverflow(l, r, Num(1, l.w))
    [] k = "umul_fix_sat" -> umul_fix_sat(l, r, Num(1, l.w))
    [] k = "cttz" -> cttz(l, r) [] k = "clmul" -> clmul(l, r)
    [] k = "pext" -> pext(l, r) [] k = "pdep" -> pdep(l, r)
    [] k = "umin" -> umin(l, r) [] k = "umax" -> umax(l, r)
    [] k = "smin" -> smin(l, r) [] k = "smax" -> smax(l, r)
    [] k = "round_up_bits" -> round_up_bits(l, r)
    [] k = "round_up_bits_nuw" -> round_up_bits_no_overflow(l, r)
    [] k = "copysign" -> copysign(l, r)
    [] k = "bvnot" -> BvNot(l) [] k = "isPowerOf2" -> isPowerOf2(l)
    [] k = "log2" -> log2(l, l.w) [] k = "bitreverse" -> bitreverse(l)
    [] k = "ctlz" -> ctlz(l) [] k = "ctpop" -> ctpop(l) [] k = "abs" -> abs(l)
    [] k = "fneg" -> fneg(l) [] k = "fabs" -> fabs(l)
    [] k = "sextOrTrunc" -> sextOrTrunc(l, W + 1)
    [] k = "zextOrTrunc" -> zextOrTrunc(l, W + 1)
    [] k = "half" -> extract(l, l.w - 1, l.w \div 2)

Make(k, p, a) ==
  CASE k = "bvadd"   -> PlusRules(a[1], a[2])
    [] k = "bvmul"   -> TimesRules(a[1], a[2])
    [] k = "bvshl"   -> ShlRules(a[1], a[2])
    [] k = "bvand"   -> AndRules(a[1], a[2])
    [] k = "bvor"    -> OrRules(a[1], a[2])
    [] k = "bvxor"   -> XorRules(a[1], a[2])
    [] k = "eq"      -> EqRules(a[1], a[2])
    [] k = "ule"     -> uleRules(a[1], a[2])
    [] k = "concat"  -> concatRules(a[1], a[2])
    [] k = "sext"    -> sextRules(a[1], p[1])
    [] k = "ite"     -> mkIfRules(a[1], a[2], a[3])
    [] k = "extract" -> extractRules(a[1], p[1], p[2], p[3])
    [] k = "add_no_uoverflow" -> add_no_uoverflowRules(a[1], a[2])
    [] k = "call"    -> Construct(p[1], a[1], a[2])
=============================================================================
