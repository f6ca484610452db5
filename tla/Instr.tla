-------------------------------- MODULE Instr --------------------------------
(***************************************************************************)
(* Instructions of src/ir/instr.cpp that compute a value from values:      *)
(* their operations, flags, poison and undefined behaviour.  Instructions, *)
(* operands and env are as in InstrFp; env also gives what the memory      *)
(* says of pointers: ptr[p] is [addr, off, left] and int2ptr[n] a pointer. *)
(***************************************************************************)
EXTENDS InstrFp

Has(i, flag) == flag \in i.fl
\* The value of a constructor of expr, and the truth of a predicate.
E(k, w, x, y) == LET m == Meaning(k, w, x, y, 0) IN IF m = Undef THEN 0 ELSE m
Holds(k, w, x, y) == Meaning(k, w, x, y, 0) = 1
SMin(w) == 2^(w - 1)

(***************************************************************************)
(* BinOp.                                                                  *)
(***************************************************************************)
BinOpNames ==
  [Add |-> "bvadd", Sub |-> "bvsub", Mul |-> "bvmul", SDiv |-> "bvsdiv", UDiv |-> "bvudiv",
   SRem |-> "bvsrem", URem |-> "bvurem", Shl |-> "bvshl", AShr |-> "bvashr", LShr |-> "bvlshr",
   SAdd_Sat |-> "sadd_sat", UAdd_Sat |-> "uadd_sat", SSub_Sat |-> "ssub_sat",
   USub_Sat |-> "usub_sat", SShl_Sat |-> "sshl_sat", UShl_Sat |-> "ushl_sat",
   And |-> "bvand", Or |-> "bvor", Xor |-> "bvxor", Ctlz |-> "ctlz",
   SAdd_Overflow |-> "bvadd", UAdd_Overflow |-> "bvadd", SSub_Overflow |-> "bvsub",
   USub_Overflow |-> "bvsub", SMul_Overflow |-> "bvmul", UMul_Overflow |-> "bvmul",
   UMin |-> "umin", UMax |-> "umax", SMin |-> "smin", SMax |-> "smax", Abs |-> "abs",
   Clmul |-> "clmul", PExt |-> "pext", PDep |-> "pdep"]
Overflows == [SAdd_Overflow |-> "add_nsw", UAdd_Overflow |-> "add_nuw", SSub_Overflow |-> "sub_nsw",
              USub_Overflow |-> "sub_nuw", SMul_Overflow |-> "mul_nsw", UMul_Overflow |-> "mul_nuw"]
OverflowOps == DOMAIN Overflows
isDivOrRem(op) == op \in {"SDiv", "UDiv", "SRem", "URem"}

\* Mutant: divisions are taken as removable.
BinOpPure == Pure(DOMAIN BinOpNames \cup {"Cttz", "UCmp", "SCmp"})
BinOp == Class(DOMAIN BinOpNames \cup {"Cttz", "UCmp", "SCmp"},
               DOMAIN BinOpNames \cup {"Cttz", "UCmp", "SCmp"},
               {"SDiv", "UDiv", "SRem", "URem"})

\* Mutant: a poison dividend is taken at its value.
div_ubNoPoison(op, w, x, ap, y) ==
  /\ y # 0
  /\ op \in {"SDiv", "SRem"} => x # SMin(w) \/ y # Ones(w)
\* The divisor is well defined already; with a poison dividend the signed
\* overflow is possible.
div_ub(op, w, x, ap, y) ==
  /\ y # 0
  /\ op \in {"SDiv", "SRem"} => (ap = 1 /\ x # SMin(w)) \/ y # Ones(w)

BinOpValue(op, w, rw, x, y) ==
  CASE op \in DOMAIN BinOpNames -> E(BinOpNames[op], w, x, y)
    [] op = "Cttz" -> E("cttz", w, x, w % 2^w)
    [] op \in {"UCmp", "SCmp"} ->
         IF x = y THEN 0
         ELSE IF Holds(IF op = "UCmp" THEN "ult" ELSE "slt", w, x, y) THEN Ones(rw) ELSE 1 % 2^rw

BinOpNonPoison(op, fl, w, x, y) ==
  CASE op \in {"Add", "Sub", "Mul"} ->
         LET
             nsw == [Add |-> "add_nsw", Sub |-> "sub_nsw", Mul |-> "mul_nsw"][op]
             nuw == [Add |-> "add_nuw", Sub |-> "sub_nuw", Mul |-> "mul_nuw"][op]
         IN  ("nsw" \in fl => Holds(nsw, w, x, y)) /\ ("nuw" \in fl => Holds(nuw, w, x, y))
    [] op = "SDiv" -> "exact" \in fl => Holds("sdiv_exact", w, x, y)
    [] op = "UDiv" -> "exact" \in fl => Holds("udiv_exact", w, x, y)
    [] op = "Shl"  -> /\ y < w
                      /\ "nsw" \in fl => Holds("shl_nsw", w, x, y)
                      /\ "nuw" \in fl => Holds("shl_nuw", w, x, y)
    [] op \in {"AShr", "LShr"} ->
         y < w /\ ("exact" \in fl =>
                     Holds(IF op = "AShr" THEN "ashr_exact" ELSE "lshr_exact", w, x, y))
    [] op \in {"SShl_Sat", "UShl_Sat"} -> y < w
    [] op = "Or" -> "disjoint" \in fl => E("bvand", w, x, y) = 0
    [] op \in {"Cttz", "Ctlz"} -> y = 0 \/ x # 0
    [] op = "Abs" -> y = 0 \/ x # SMin(w)
    [] OTHER -> TRUE

\* One lane; the second operand of abs, cttz and ctlz is a scalar.
BinOpLane(i, x, y, w, rw) ==
  LET np == x.np = 1 /\ y.np = 1
      wd == ~isDivOrRem(i.op) \/ (y.np = 1 /\ div_ub(i.op, w, x.v, x.np, y.v))
  IN  Out(SV(BinOpValue(i.op, w, rw, x.v, y.v),
             BoolBit(np /\ BinOpNonPoison(i.op, i.fl, w, x.v, y.v))), wd)
\* vertical_zip: a struct of the results and the overflow bits.
BinOpZip(i, a) ==
  LET ty == i.tys[1]  w == scalarSize(ty)
      v2 == IF i.ty.pad[2] THEN 3 ELSE 2
      val(x, y) == SV(BinOpValue(i.op, w, w, x.v, y.v), BoolBit(x.np = 1 /\ y.np = 1))
      ovf(x, y) == SV(BoolBit(~Holds(Overflows[i.op], w, x.v, y.v)), BoolBit(x.np = 1 /\ y.np = 1))
      all(F(_, _), t) == IF isVec(ty)
                         THEN aggregateVals(t, [k \in 1..Len(ty.ch) |-> F(Elem(ty, a[1], k), Elem(ty, a[2], k))])
                         ELSE F(a[1], a[2])
  IN  Out(aggregateVals(i.ty, <<all(val, i.ty.ch[1]), all(ovf, i.ty.ch[v2])>>), TRUE)
BinOp_toSMT(i, a) ==
  IF i.op \in OverflowOps THEN {BinOpZip(i, a)}
  ELSE Lanes(i.tys[1], i.ty, LAMBDA k :
         {BinOpLane(i, Elem(i.tys[1], a[1], k), Elem(i.tys[2], a[2], k),
                    scalarSize(i.tys[1]), scalarSize(i.ty))})

BinOp_typing(i) ==
  LET ty == i.ty  l == i.tys[1]  r == i.tys[2]
  IN  CASE i.op \in OverflowOps ->
             /\ enforceStructType(ty) /\ enforceIntOrVectorType(l, 0) /\ l = r
             /\ numElementsExcludingPadding(ty) = 2 /\ ty.ch[1] = l
             /\ LET second == ty.ch[IF ty.pad[2] THEN 3 ELSE 2]
                IN  enforceIntOrVectorType(second, 1) /\ enforceVectorTypeEquiv(second, l)
        [] i.op \in {"Cttz", "Ctlz", "Abs"} ->
             enforceIntOrVectorType(ty, 0) /\ ty = l /\ enforceIntType(r, 1)
        [] i.op \in {"UCmp", "SCmp"} ->
             /\ enforceScalarOrVectorType(ty, LAMBDA t : t.k = "int" /\ t.w >= 2)
             /\ enforceVectorTypeEquiv(ty, l) /\ enforceIntOrVectorType(l, 0) /\ l = r
        [] OTHER -> enforceIntOrVectorType(ty, 0) /\ ty = l /\ ty = r

(***************************************************************************)
(* UnaryOp, UnaryReductionOp, TernaryOp.                                   *)
(***************************************************************************)
UnaryOp == Class({"Copy", "BitReverse", "BSwap", "Ctpop", "IsConstant", "FFS"},
                 {"Copy", "BitReverse", "BSwap", "Ctpop", "FFS"}, {})
\* The bytes of a value are bits_byte bits wide here.
BSwap(x, w) ==
  LET n == w \div bits_byte
  IN  SumFunctionOnSet([k \in 0..(n - 1) |->
        BitsOf(x, (k + 1) * bits_byte - 1, k * bits_byte) * 2^((n - 1 - k) * bits_byte)], 0..(n - 1))
UnaryFn(op, x, w) ==
  CASE op = "BitReverse" -> E("bitreverse", w, x, 0) [] op = "BSwap" -> BSwap(x, w)
    [] op = "Ctpop" -> E("ctpop", w, x, 0) % 2^w
    [] op = "FFS" -> (E("cttz", w, x, Ones(w)) + 1) % 2^w
\* i.x says whether the operand of is.constant is a constant.
UnaryOp_toSMT(i, a) ==
  CASE i.op = "Copy" -> {Out(a[1], TRUE)}
    [] i.op = "IsConstant" -> IF i.x = 1 THEN {Out(SV(1, 1), TRUE)} ELSE {Out(SV(b, 1), TRUE) : b \in 0..1}
    [] OTHER -> Lanes(i.ty, i.ty, LAMBDA k :
                  LET x == Elem(i.ty, a[1], k)
                  IN  {Out(SV(UnaryFn(i.op, x.v, scalarSize(i.ty)), x.np), TRUE)})
UnaryOp_typing(i) ==
  CASE i.op = "Copy" -> i.ty = i.tys[1]
    [] i.op = "BSwap" -> /\ i.ty = i.tys[1]
                         /\ enforceScalarOrVectorType(i.ty,
                              LAMBDA t : t.k = "int" /\ t.w % (2 * bits_byte) = 0)
    [] i.op = "IsConstant" -> enforceIntType(i.ty, 1)
    [] OTHER -> i.ty = i.tys[1] /\ enforceIntOrVectorType(i.ty, 0)

ReductionNames == [Add |-> "bvadd", Mul |-> "bvmul", And |-> "bvand", Or |-> "bvor", Xor |-> "bvxor",
                   SMax |-> "smax", SMin |-> "smin", UMax |-> "umax", UMin |-> "umin"]
UnaryReductionOp == Pure(DOMAIN ReductionNames)
UnaryReductionOp_toSMT(i, a) ==
  LET els == Elements(i.tys[1], a[1])
      step(acc, x) == SV(E(ReductionNames[i.op], i.ty.w, acc.v, x.v), BoolBit(acc.np = 1 /\ x.np = 1))
  IN  {Out(FoldLeft(step, els[1], Tail(els)), TRUE)}
UnaryReductionOp_typing(i) ==
  enforceIntType(i.ty, 0) /\ enforceVectorType(i.tys[1], LAMBDA t : t = i.ty)

TernaryOp == Pure({"FShl", "FShr", "SMulFix", "UMulFix", "SMulFixSat", "UMulFixSat", "ObjectSize"})
TernaryValue(op, w, x, y, z) ==
  CASE op = "FShl" -> Meaning("fshl", w, x, y, z)         [] op = "FShr" -> Meaning("fshr", w, x, y, z)
    [] op = "SMulFix" -> Meaning("smul_fix", w, x, y, z)  [] op = "UMulFix" -> Meaning("umul_fix", w, x, y, z)
    [] op = "SMulFixSat" -> Meaning("smul_fix_sat", w, x, y, z)
    [] op = "UMulFixSat" -> Meaning("umul_fix_sat", w, x, y, z)
TernaryLane(i, x, y, z, w) ==
  LET np == x.np = 1 /\ y.np = 1 /\ z.np = 1
      fits == CASE i.op = "SMulFix" -> Meaning("smul_fix_nsw", w, x.v, y.v, z.v) = 1
                [] i.op = "UMulFix" -> Meaning("umul_fix_nuw", w, x.v, y.v, z.v) = 1
                [] OTHER -> TRUE
  IN  {Out(SV(TernaryValue(i.op, w, x.v, y.v, z.v), BoolBit(np /\ fits)), TRUE)}
\* Any bound of the right kind for the bytes left behind the pointer.
ObjectSize(i, a, env) ==
  LET p == env.ptr[a[1].v]
      real == p.left % 2^i.ty.w
      ok(v) == IF a[2].v = 0 \/ (a[1].v = 0 /\ a[3].v = 1) THEN v >= real ELSE v <= real
  IN  {Out(SV(v, BoolBit(AllNP(a))), TRUE) : v \in {u \in 0..Ones(i.ty.w) : ok(u)}}
TernaryOp_toSMT(i, a, env) ==
  IF i.op = "ObjectSize" THEN ObjectSize(i, a, env)
  ELSE Lanes(i.ty, i.ty, LAMBDA k :
         TernaryLane(i, Elem(i.ty, a[1], k), Elem(i.ty, a[2], k),
                     IF i.op \in {"FShl", "FShr"} THEN Elem(i.ty, a[3], k) ELSE a[3], scalarSize(i.ty)))
\* The scale is x bits wide (32 in the code).
TernaryOp_typing(i) ==
  CASE i.op \in {"FShl", "FShr"} -> enforceIntOrVectorType(i.ty, 0) /\ \A k \in 1..3 : i.tys[k] = i.ty
    [] i.op = "ObjectSize" -> /\ enforceIntType(i.ty, 0) /\ enforcePtrType(i.tys[1])
                              /\ enforceIntType(i.tys[2], 1) /\ enforceIntType(i.tys[3], 1)
    [] OTHER -> /\ i.ty = i.tys[1] /\ i.ty = i.tys[2] /\ enforceIntType(i.tys[3], i.x)
                /\ enforceIntOrVectorType(i.ty, 0)

(***************************************************************************)
(* ConversionOp.                                                           *)
(***************************************************************************)
ConversionOp == Pure({"SExt", "ZExt", "Trunc", "BitCast", "Ptr2Int", "Ptr2Addr", "Int2Ptr"})
ConversionLane(i, x, from, to, env) ==
  CASE i.op = "SExt" -> SV(SVal(x.v, from.w) % 2^to.w, x.np)
    [] i.op = "ZExt" -> SV(x.v, BoolBit(x.np = 1 /\ (Has(i, "nneg") => SVal(x.v, from.w) >= 0)))
    [] i.op = "Trunc" -> LET t == x.v % 2^to.w
                         IN  SV(t, BoolBit(/\ x.np = 1
                                           /\ Has(i, "nuw") => BitsOf(x.v, from.w - 1, to.w) = 0
                                           /\ Has(i, "nsw") => SVal(t, to.w) % 2^from.w = x.v))
    [] i.op \in {"Ptr2Int", "Ptr2Addr"} -> SV(env.ptr[x.v].addr % 2^to.w, x.np)
    [] i.op = "Int2Ptr" -> SV(env.int2ptr[x.v], x.np)
ConversionOp_toSMT(i, a, env) ==
  IF i.op = "BitCast"
  THEN {Out(IF isVec(i.ty) /\ i.ty.ch[1].k = "ptr" THEN a[1] ELSE fromInt(i.ty, toInt(i.tys[1], a[1])), TRUE)}
  ELSE Lanes(i.tys[1], i.ty, LAMBDA k :
         {Out(ConversionLane(i, Elem(i.tys[1], a[1], k), ElemTy(i.tys[1], k), ElemTy(i.ty, k), env), TRUE)})
ConversionOp_typing(i) ==
  LET to == i.ty  from == i.tys[1]
  IN  /\ CASE i.op \in {"SExt", "ZExt"} -> /\ enforceIntOrVectorType(to, 0) /\ enforceIntOrVectorType(from, 0)
                                           /\ scalarSize(from) < scalarSize(to)
           [] i.op = "Trunc" -> /\ enforceIntOrVectorType(to, 0) /\ enforceIntOrVectorType(from, 0)
                                /\ scalarSize(to) < scalarSize(from)
           [] i.op = "BitCast" -> /\ enforceIntOrFloatOrPtrOrVectorType(to)
                                  /\ enforceIntOrFloatOrPtrOrVectorType(from)
                                  /\ enforcePtrOrVectorType(to) = enforcePtrOrVectorType(from)
                                  /\ bits(to) = bits(from)
           [] i.op \in {"Ptr2Int", "Ptr2Addr"} -> enforceIntOrVectorType(to, 0) /\ enforcePtrOrVectorType(from)
           [] i.op = "Int2Ptr" -> enforcePtrOrVectorType(to) /\ enforceIntOrVectorType(from, 0)
      /\ i.op = "BitCast" \/ enforceVectorTypeEquiv(to, from)

(***************************************************************************)
(* ICmp: x is the mode of a pointer comparison.  The condition Any is a    *)
(* variable the solver chooses, env.cond.                                  *)
(***************************************************************************)
Conds == {"EQ", "NE", "SLE", "SLT", "SGE", "SGT", "ULE", "ULT", "UGE", "UGT"}
ICmp == Pure(Conds \cup {"Any"})
ICmpFn(cond, w, x, y) ==
  CASE cond = "EQ" -> x = y  [] cond = "NE" -> x # y
    [] cond = "SLE" -> SVal(x, w) <= SVal(y, w) [] cond = "SLT" -> SVal(x, w) < SVal(y, w)
    [] cond = "SGE" -> SVal(x, w) >= SVal(y, w) [] cond = "SGT" -> SVal(x, w) > SVal(y, w)
    [] cond = "ULE" -> x <= y [] cond = "ULT" -> x < y [] cond = "UGE" -> x >= y [] cond = "UGT" -> x > y
isPtrCmp(i) == ElemTy(i.tys[1], 1).k = "ptr"
ICmpLane(i, x, y, w, env) ==
  LET cond == IF i.op = "Any" THEN env.cond ELSE i.op
      p == IF isPtrCmp(i) THEN env.ptr[x.v].addr ELSE x.v
      q == IF isPtrCmp(i) THEN env.ptr[y.v].addr ELSE y.v
      v == IF ~isPtrCmp(i) \/ i.x = "INTEGRAL" THEN ICmpFn(cond, w, p, q)
           ELSE IF i.x = "PROVENANCE" THEN (cond = "EQ") = (x.v = y.v)
           ELSE ICmpFn(cond, w, env.ptr[x.v].off, env.ptr[y.v].off)
  IN  {Out(SV(BoolBit(v), BoolBit(/\ x.np = 1 /\ y.np = 1
                                  /\ Has(i, "samesign") => (SVal(p, w) < 0) = (SVal(q, w) < 0))), TRUE)}
ICmp_toSMT(i, a, env) ==
  Lanes(i.tys[1], i.ty, LAMBDA k :
    ICmpLane(i, Elem(i.tys[1], a[1], k), Elem(i.tys[1], a[2], k), scalarSize(i.tys[1]), env))
ICmp_typing(i) ==
  /\ enforceIntOrVectorType(i.ty, 1) /\ enforceVectorTypeEquiv(i.ty, i.tys[1])
  /\ enforceIntOrPtrOrVectorType(i.tys[1]) /\ i.tys[1] = i.tys[2]

(***************************************************************************)
(* Select, Freeze and the instructions on aggregates.                      *)
(***************************************************************************)
\* Mutant: select is taken to propagate poison.
SelectPure == Pure({"select"})
Select == Class({"select"}, {}, {})
RECURSIVE SelectRec(_, _, _, _, _, _, _)
SelectRec(i, x, y, c, ty, cty, env) ==
  IF isAgg(ty)
  THEN LET live == SelectSeq([k \in DOMAIN ty.ch |-> k], LAMBDA k : ~ty.pad[k])
           sub(k) == SelectRec(i, extract(ty, x, k), extract(ty, y, k),
                               IF isAgg(cty) THEN extract(cty, c, k) ELSE c, ty.ch[k],
                               IF isAgg(cty) THEN cty.ch[k] ELSE cty, env)
       IN  {aggregateVals(ty, p) : p \in Picks([j \in DOMAIN live |-> sub(live[j])])}
  ELSE LET chosen == IF c.v = 1 THEN x ELSE y
           val == SV(chosen.v, BoolBit(c.np = 1 /\ chosen.np = 1))
       IN  IF ty.k # "float" THEN {val}
           ELSE LET f == fractionBits(ty)
                IN  fm_poison(<<val>>, LAMBDA z, rm : {z[1]}, f, f, i.fl, "default", TRUE, TRUE, TRUE, env)
Select_toSMT(i, a, env) == Outs(SelectRec(i, a[2], a[3], a[1], i.ty, i.tys[1], env))
Select_typing(i) ==
  /\ enforceIntOrVectorType(i.tys[1], 1) /\ enforceVectorTypeIff(i.ty, i.tys[1])
  /\ i.fl = {} \/ enforceFloatOrVectorType(i.ty)
  /\ i.ty = i.tys[2] /\ i.ty = i.tys[3]

Freeze == Class({"freeze"}, {}, {})
RECURSIVE freeze(_, _)
freeze(ty, x) ==
  IF isAgg(ty)
  THEN LET live == SelectSeq([k \in DOMAIN ty.ch |-> k], LAMBDA k : ~ty.pad[k])
       IN  {aggregateVals(ty, p) :
              p \in Picks([j \in DOMAIN live |-> freeze(ty.ch[live[j]], extract(ty, x, live[j]))])}
  ELSE IF x.np = 1 THEN {x} ELSE {SV(v, 1) : v \in 0..Ones(ty.w)}
Freeze_toSMT(i, a) == Outs(freeze(i.ty, a[1]))
Freeze_typing(i) == i.ty = i.tys[1]

\* x is the sequence of indices, 1-based.
ExtractValue == Class({"extractvalue"}, {}, {})
ExtractValue_toSMT(i, a) ==
  LET step(s, k) == [ty |-> s.ty.ch[k], v |-> extract(s.ty, s.v, k)]
  IN  {Out(FoldLeft(step, [ty |-> i.tys[1], v |-> a[1]], i.x).v, TRUE)}
\* The type at the end of the path of indices, or Void.
AtPath(ty, idxs) ==
  FoldLeft(LAMBDA t, k : IF isAgg(t) /\ k <= Len(t.ch) THEN t.ch[k] ELSE Void, ty, idxs)
ExtractValue_typing(i) == isAgg(i.tys[1]) /\ i.x # <<>> /\ AtPath(i.tys[1], i.x) = i.ty

InsertValue == Class({"insertvalue"}, {}, {})
RECURSIVE update_repack(_, _, _, _)
update_repack(ty, val, elem, idxs) ==
  LET live == SelectSeq([k \in DOMAIN ty.ch |-> k], LAMBDA k : ~ty.pad[k])
      new(k) == LET v == extract(ty, val, k)
                IN  IF k # Head(idxs) THEN v
                    ELSE IF Len(idxs) = 1 THEN elem ELSE update_repack(ty.ch[k], v, elem, Tail(idxs))
  IN  aggregateVals(ty, [j \in DOMAIN live |-> new(live[j])])
InsertValue_toSMT(i, a) == {Out(update_repack(i.tys[1], a[1], a[2], i.x), TRUE)}
InsertValue_typing(i) ==
  isAgg(i.tys[1]) /\ i.ty = i.tys[1] /\ i.x # <<>> /\ AtPath(i.tys[1], i.x) = i.tys[2]

ExtractElement == Class({"extractelement"}, {}, {})
ExtractElement_toSMT(i, a) ==
  LET r == vecExtract(i.tys[1], a[1], a[2].v)
  IN  {Out(SV(r.v, BoolBit(a[2].np = 1 /\ a[2].v < Len(i.tys[1].ch) /\ r.np = 1)), TRUE)}
ExtractElement_typing(i) ==
  enforceVectorType(i.tys[1], LAMBDA t : t = i.ty) /\ enforceIntType(i.tys[2], 0)

InsertElement == Class({"insertelement"}, {}, {})
InsertElement_toSMT(i, a) ==
  LET r == vecUpdate(i.tys[1], a[1], a[2], a[3].v)
  IN  {Out(SV(r.v, IF a[3].np = 1 /\ a[3].v < Len(i.tys[1].ch) THEN r.np ELSE 0), TRUE)}
InsertElement_typing(i) ==
  /\ i.ty = i.tys[1] /\ enforceVectorType(i.tys[1], LAMBDA t : t = i.tys[2])
  /\ enforceIntType(i.tys[3], 0)

\* x is the mask; an index past both vectors gives poison.
ShuffleVector == Class({"shufflevector"}, {}, {})
ShuffleVector_toSMT(i, a) ==
  LET sz == Len(i.tys[1].ch)
      lane(m) == IF m >= 2 * sz THEN SV(0, 0)
                 ELSE extract(i.tys[1], a[IF m < sz THEN 1 ELSE 2], (m % sz) + 1)
  IN  {Out(aggregateVals(i.ty, [k \in DOMAIN i.x |-> lane(i.x[k])]), TRUE)}
ShuffleVector_typing(i) ==
  /\ isVec(i.tys[1]) /\ isAgg(i.ty) /\ enforceVectorTypeSameChildTy(i.ty, i.tys[1])
  /\ Len(i.ty.ch) = Len(i.x) /\ i.tys[1] = i.tys[2]

(***************************************************************************)
(* Dispatch.                                                               *)
(***************************************************************************)
Classes ==
  [BinOp |-> BinOp, FpBinOp |-> FpBinOp, UnaryOp |-> UnaryOp, FpUnaryOp |-> FpUnaryOp,
   FpUnaryOpVerticalZip |-> FpUnaryOpVerticalZip, UnaryReductionOp |-> UnaryReductionOp,
   FpUnaryReductionOp |-> FpUnaryReductionOp, TernaryOp |-> TernaryOp,
   FpTernaryOp |-> FpTernaryOp, TestOp |-> TestOp, ConversionOp |-> ConversionOp,
   FpConversionOp |-> FpConversionOp, Select |-> Select, ExtractValue |-> ExtractValue,
   InsertValue |-> InsertValue, ICmp |-> ICmp, FCmp |-> FCmp, Freeze |-> Freeze,
   ExtractElement |-> ExtractElement, InsertElement |-> InsertElement,
   ShuffleVector |-> ShuffleVector]
propagatesPoison(i) == i.op \in Classes[i.cls].propagatesPoison
hasSideEffects(i)   == i.op \in Classes[i.cls].hasSideEffects

toSMT(i, a, env) ==
  CASE i.cls = "BinOp" -> BinOp_toSMT(i, a)          [] i.cls = "FpBinOp" -> FpBinOp_toSMT(i, a, env)
    [] i.cls = "UnaryOp" -> UnaryOp_toSMT(i, a)      [] i.cls = "FpUnaryOp" -> FpUnaryOp_toSMT(i, a, env)
    [] i.cls = "FpUnaryOpVerticalZip" -> FpUnaryOpVerticalZip_toSMT(i, a, env)
    [] i.cls = "UnaryReductionOp" -> UnaryReductionOp_toSMT(i, a)
    [] i.cls = "FpUnaryReductionOp" -> FpUnaryReductionOp_toSMT(i, a, env)
    [] i.cls = "TernaryOp" -> TernaryOp_toSMT(i, a, env)
    [] i.cls = "FpTernaryOp" -> FpTernaryOp_toSMT(i, a, env)
    [] i.cls = "TestOp" -> TestOp_toSMT(i, a)        [] i.cls = "ConversionOp" -> ConversionOp_toSMT(i, a, env)
    [] i.cls = "FpConversionOp" -> FpConversionOp_toSMT(i, a, env)
    [] i.cls = "Select" -> Select_toSMT(i, a, env)   [] i.cls = "ExtractValue" -> ExtractValue_toSMT(i, a)
    [] i.cls = "InsertValue" -> InsertValue_toSMT(i, a) [] i.cls = "ICmp" -> ICmp_toSMT(i, a, env)
    [] i.cls = "FCmp" -> FCmp_toSMT(i, a, env)       [] i.cls = "Freeze" -> Freeze_toSMT(i, a)
    [] i.cls = "ExtractElement" -> ExtractElement_toSMT(i, a)
    [] i.cls = "InsertElement" -> InsertElement_toSMT(i, a)
    [] i.cls = "ShuffleVector" -> ShuffleVector_toSMT(i, a)

typing(i) ==
  /\ getTypeConstraints(i.ty)
  /\ CASE i.cls = "BinOp" -> BinOp_typing(i)         [] i.cls = "FpBinOp" -> FpBinOp_typing(i)
       [] i.cls = "UnaryOp" -> UnaryOp_typing(i)     [] i.cls = "FpUnaryOp" -> FpUnaryOp_typing(i)
       [] i.cls = "FpUnaryOpVerticalZip" -> FpUnaryOpVerticalZip_typing(i)
       [] i.cls = "UnaryReductionOp" -> UnaryReductionOp_typing(i)
       [] i.cls = "FpUnaryReductionOp" -> FpUnaryReductionOp_typing(i)
       [] i.cls = "TernaryOp" -> TernaryOp_typing(i) [] i.cls = "FpTernaryOp" -> FpTernaryOp_typing(i)
       [] i.cls = "TestOp" -> TestOp_typing(i)       [] i.cls = "ConversionOp" -> ConversionOp_typing(i)
       [] i.cls = "FpConversionOp" -> FpConversionOp_typing(i)
       [] i.cls = "Select" -> Select_typing(i)       [] i.cls = "ExtractValue" -> ExtractValue_typing(i)
       [] i.cls = "InsertValue" -> InsertValue_typing(i) [] i.cls = "ICmp" -> ICmp_typing(i)
       [] i.cls = "FCmp" -> FCmp_typing(i)           [] i.cls = "Freeze" -> Freeze_typing(i)
       [] i.cls = "ExtractElement" -> ExtractElement_typing(i)
       [] i.cls = "InsertElement" -> InsertElement_typing(i)
       [] i.cls = "ShuffleVector" -> ShuffleVector_typing(i)
=============================================================================
