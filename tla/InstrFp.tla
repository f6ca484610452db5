------------------------------- MODULE InstrFp -------------------------------
(***************************************************************************)
(* Floating-point instructions of src/ir/instr.cpp: toSMT of the FpBinOp,  *)
(* FpUnaryOp, FpUnaryOpVerticalZip, FpUnaryReductionOp, FpTernaryOp,       *)
(* TestOp, FpConversionOp and FCmp classes.  An instruction is             *)
(* [cls, op, ty, tys, fl, rm, x]: class, operation, result type, operand   *)
(* types, flags, rounding mode and class-specific data; a is the tuple of  *)
(* operand values and env what the function and the state give: the        *)
(* rounding and denormal modes, the denormal attributes and the target's   *)
(* preferred quiet NaN.                                                    *)
(***************************************************************************)
EXTENDS Types

FastMath == {"nnan", "ninf", "nsz", "arcp", "contract", "reassoc", "afn"}
BV(b)    == SV(BoolBit(b), 1)
AllNP(xs) == \A k \in DOMAIN xs : xs[k].np = 1

(***************************************************************************)
(* Helpers.                                                                *)
(***************************************************************************)
fmin_fmax(x, y, f, min) ==
  IF isNaN(x, f) THEN {y} ELSE IF isNaN(y, f) THEN {x}
  ELSE IF feq(x, y, f) THEN {x, y}
  ELSE IF (min /\ fle(x, y, f)) \/ (~min /\ fle(y, x, f)) THEN {x} ELSE {y}

\* Ordered comparison where -0 is less than +0; NaN left to the caller.
MinMaxZero(x, y, f, min) ==
  LET negative == IF min THEN isFPNegative(x, f) \/ isFPNegative(y, f)
                         ELSE isFPNegative(x, f) /\ isFPNegative(y, f)
  IN  IF isFPZero(x, f) /\ isFPZero(y, f) THEN Zero(BoolBit(negative), f)
      ELSE IF (min /\ fle(x, y, f)) \/ (~min /\ fle(y, x, f)) THEN x ELSE y
fminimum_fmaximum(x, y, f, min) ==
  {IF isNaN(x, f) THEN x ELSE IF isNaN(y, f) THEN y ELSE MinMaxZero(x, y, f, min)}
fminnum(x, y, f, min) ==
  {IF isNaN(x, f) THEN y ELSE IF isNaN(y, f) THEN x ELSE MinMaxZero(x, y, f, min)}

any_fp_zero(x, f) == IF isFPZero(x, f) THEN {x, fneg(x, f)} ELSE {x}

handle_subnormal(attr, mode, x, f) ==
  IF ~isFPSubNormal(x, f) THEN {x}
  ELSE CASE attr = "IEEE"         -> {x}
         [] attr = "PositiveZero" -> {x, Zero(0, f)}
         [] attr = "PreserveSign" -> {x, Zero(Sign(x, f), f)}
         [] attr = "Dynamic"      ->
              IF mode = "IEEE" THEN {x}
              ELSE {x, Zero(IF mode = "PreserveSign" THEN Sign(x, f) ELSE 0, f)}

\* The rounding mode that is used, and whether the state is in it.
round_value(rm, env) ==
  CASE rm = "default" -> <<"rne", TRUE>>
    [] rm = "dynamic" -> <<env.rm, TRUE>>
    [] OTHER          -> <<rm, env.rm = rm>>

\* FloatType::fromFloat: the bit patterns a result may have, given the
\* operands ins (patterns with g fraction bits).
QuietedFraction(e, g, f) ==
  LET cut  == IF g > f THEN BitsOf(Frac(e, g), g - 1, g - f) ELSE Frac(e, g) * 2^(f - g)
      quiet(q) == IF g > f /\ cut = 0 THEN 1 ELSE BoolBit(Bit(cut, f - 1) = 1 \/ q = 1)
  IN  {quiet(q) * 2^(f - 1) + (cut % 2^(f - 1)) : q \in 0..1}
fromFloat(x, f, ins, g, env) ==
  IF ~isNaN(x, f) THEN {x}
  ELSE LET fractions == {2^(f - 1), 2^(f - 1) + (env.qnan % 2^(f - 1))} \cup
             UNION {QuietedFraction(ins[k], g, f) : k \in {j \in DOMAIN ins : isNaN(ins[j], g)}}
       IN  {Pack(s, InfMag(f) + q, f) : s \in 0..1, q \in fractions}

\* arcp, contract, reassoc and afn make the value an uninterpreted one (and
\* the verdict an approximation).
Approximated(fl, x, f) ==
  IF fl \cap {"arcp", "contract", "reassoc", "afn"} = {} THEN {x} ELSE 0..Ones(FBits(f))

(***************************************************************************)
(* fm_poison: fast-math flags, denormals, rounding and NaN patterns around *)
(* the operation F(operands, rounding mode).  isfp says whether F returns  *)
(* a float (of g fraction bits), bitwise whether it works on bit patterns. *)
(***************************************************************************)
Clean(vals, fl, f) ==
  \A k \in DOMAIN vals : /\ "nnan" \in fl => ~isNaN(vals[k], f)
                         /\ "ninf" \in fl => ~isInf(vals[k], f)
\* The operands: any zero under nsz (z), then without subnormals (y).
FmOperands(xs, f, fl, bitwise, env) ==
  LET zs == Picks([k \in DOMAIN xs |-> IF "nsz" \in fl THEN any_fp_zero(xs[k].v, f) ELSE {xs[k].v}])
      ys(z) == Picks([k \in DOMAIN z |->
                          IF bitwise THEN {z[k]} ELSE handle_subnormal(env.din, env.dmode, z[k], f)])
  IN  UNION {{[z |-> z, y |-> y] : y \in ys(z)} : z \in zs}
\* The bit patterns of a result.
FmResults(z, r, f, g, fl, bitwise, isfp, env) ==
  IF bitwise \/ ~isfp THEN {r}
  ELSE UNION {fromFloat(q, g, z, f, env) : q \in
         UNION {handle_subnormal(env.dout, env.dmode, p, g) : p \in Approximated(fl, r, g)}}
fm_poison(xs, F(_, _), f, g, fl, rm, bitwise, in_only, isfp, env) ==
  LET mode == round_value(rm, env)
      np0  == AllNP(xs) /\ (bitwise \/ mode[2])
      result(o, r) ==
        {SV(q, BoolBit(np0 /\ Clean(o.y, fl, f) /\
                       (in_only \/ bitwise \/ ~isfp \/ Clean(<<r>>, fl, g)))) :
           q \in FmResults(o.z, r, f, g, fl, bitwise, isfp, env)}
  IN  UNION {UNION {result(o, r) : r \in F(o.y, mode[1])} : o \in FmOperands(xs, f, fl, bitwise, env)}

Outs(svs) == {Out(sv, TRUE) : sv \in svs}

(***************************************************************************)
(* The instructions.                                                       *)
(***************************************************************************)
\* Mutant: the IEEE remainder is not moved to the dividend's side.
FRemIeee(x, y, f, rm) ==
  IF isInf(x, f) THEN MkNaN(f) ELSE copysign(frem(fabs(x, f), fabs(y, f), f), x, f)
FRem(x, y, f, rm) ==
  LET r   == frem(fabs(x, f), fabs(y, f), f)
      res == IF Sign(r, f) = 1 THEN fadd(r, fabs(y, f), f, rm) ELSE r
  IN  IF isInf(x, f) \/ y = Zero(0, f) THEN MkNaN(f)
      ELSE IF isInf(y, f) THEN x ELSE copysign(res, x, f)

FpBinOpFn(op, y, f, rm) ==
  CASE op = "FAdd" -> {fadd(y[1], y[2], f, rm)} [] op = "FSub" -> {fsub(y[1], y[2], f, rm)}
    [] op = "FMul" -> {fmul(y[1], y[2], f, rm)} [] op = "FDiv" -> {fdiv(y[1], y[2], f, rm)}
    [] op = "FRem" -> {FRem(y[1], y[2], f, rm)}
    [] op \in {"FMin", "FMax"} -> fmin_fmax(y[1], y[2], f, op = "FMin")
    [] op \in {"FMinimum", "FMaximum"} -> fminimum_fmaximum(y[1], y[2], f, op = "FMinimum")
    [] op \in {"FMinimumnum", "FMaximumnum"} -> fminnum(y[1], y[2], f, op = "FMinimumnum")
    [] op = "CopySign" -> {copysign(y[1], y[2], f)}
FpBinOp_toSMT(i, a, env) ==
  Lanes(i.ty, i.ty, LAMBDA k :
    LET f == fractionBits(ElemTy(i.ty, k))
    IN  Outs(fm_poison(<<Elem(i.ty, a[1], k), Elem(i.ty, a[2], k)>>,
                       LAMBDA y, rm : FpBinOpFn(i.op, y, f, rm),
                       f, f, i.fl, i.rm, i.op = "CopySign", FALSE, TRUE, env)))

FpUnaryFn(op, x, f, rm) ==
  CASE op = "FAbs" -> fabs(x, f)   [] op = "FNeg" -> fneg(x, f)
    [] op = "Canonicalize" -> x
    [] op = "Ceil" -> round(x, f, "rtp") [] op = "Floor" -> round(x, f, "rtn")
    [] op \in {"RInt", "NearbyInt"} -> round(x, f, rm)
    [] op = "Round" -> round(x, f, "rna") [] op = "RoundEven" -> round(x, f, "rne")
    [] op = "Trunc" -> round(x, f, "rtz") [] op = "Sqrt" -> fsqrt(x, f, rm)
FpUnaryOp_toSMT(i, a, env) ==
  Lanes(i.ty, i.ty, LAMBDA k :
    LET f == fractionBits(ElemTy(i.ty, k))
    IN  Outs(fm_poison(<<Elem(i.ty, a[1], k)>>, LAMBDA y, rm : {FpUnaryFn(i.op, y[1], f, rm)},
                       f, f, i.fl, i.rm, i.op \in {"FAbs", "FNeg"}, FALSE, TRUE, env)))

\* frexp returns a struct of the fraction and the exponent (x.w bits).
FrExpLane(x, f, w, env) ==
  LET special(y) == isNaN(y, f) \/ isInf(y, f)
      frac(y) == fm_poison(<<SV(y, x.np)>>,
                   LAMBDA z, rm : {IF special(y) THEN y ELSE frexp(y, f)[1]},
                   f, f, {}, "default", FALSE, FALSE, TRUE, [env EXCEPT !.din = "IEEE"])
      exps(y) == IF special(y) THEN 0..Ones(w) ELSE {frexp(y, f)[2] % 2^w}
  IN  UNION {{<<v, SV(e, x.np)>> : v \in frac(y), e \in exps(y)} :
               y \in handle_subnormal(env.din, env.dmode, x.v, f)}
FpUnaryOpVerticalZip_toSMT(i, a, env) ==
  LET f == fractionBits(ElemTy(i.tys[1], 1))
      v2 == CHOOSE k \in 2..Len(i.ty.ch) : ~i.ty.pad[k]
      w == scalarSize(i.ty.ch[v2])
      n == IF isVec(i.tys[1]) THEN Len(i.tys[1].ch) ELSE 1
      join(c, j) == IF isVec(i.tys[1])
                    THEN aggregateVals(i.ty.ch[IF j = 1 THEN 1 ELSE v2], [k \in 1..n |-> c[k][j]])
                    ELSE c[1][j]
  IN  {Out(aggregateVals(i.ty, <<join(c, 1), join(c, 2)>>), TRUE) :
         c \in Picks([k \in 1..n |-> FrExpLane(Elem(i.tys[1], a[1], k), f, w, env)])}

FpUnaryReductionOp_toSMT(i, a, env) ==
  LET f == fractionBits(i.ty)
      min == i.op \in {"FMin", "FMinimum"}
      Fn(y, rm) == IF i.op \in {"FMin", "FMax"} THEN fmin_fmax(y[1], y[2], f, min)
                   ELSE fminimum_fmaximum(y[1], y[2], f, min)
      step(acc, x) == UNION {fm_poison(<<r, x>>, Fn, f, f, i.fl, i.rm, FALSE, FALSE, TRUE, env) : r \in acc}
      els == Elements(i.tys[1], a[1])
  IN  Outs(FoldLeft(step, {els[1]}, Tail(els)))

\* fmuladd may or may not be fused.
FpTernaryFn(op, y, f, rm) ==
  {fma(y[1], y[2], y[3], f, rm)} \cup
  (IF op = "FMA" THEN {} ELSE {fadd(fmul(y[1], y[2], f, rm), y[3], f, rm)})
FpTernaryOp_toSMT(i, a, env) ==
  Lanes(i.ty, i.ty, LAMBDA k :
    LET f == fractionBits(ElemTy(i.ty, k))
    IN  Outs(fm_poison([j \in 1..3 |-> Elem(i.ty, a[j], k)],
                       LAMBDA y, rm : FpTernaryFn(i.op, y, f, rm),
                       f, f, i.fl, i.rm, FALSE, FALSE, TRUE, env)))

\* Bits of the mask: 0 snan, 1 qnan, then -inf -normal -subnormal -0 +0
\* +subnormal +normal +inf.
FNaN(x, f, signalling) ==
  LET top == BitsOf(x, f + ExpBits - 1, f - 1)
  IN  IF signalling THEN top = Ones(ExpBits + 1) - 1 /\ x % 2^(f - 1) # 0
                    ELSE top = Ones(ExpBits + 1)
isfpclass(x, f, mask) ==
  LET has(b) == Bit(mask, b) = 1
      check(n, p, test) == test /\ \/ has(n) /\ has(p)
                                   \/ has(n) /\ ~has(p) /\ isFPNegative(x, f)
                                   \/ has(p) /\ ~has(n) /\ ~isFPNegative(x, f)
  IN  \/ mask = 1023
      \/ has(0) /\ FNaN(x, f, TRUE)
      \/ has(1) /\ FNaN(x, f, FALSE)
      \/ check(5, 6, isFPZero(x, f))    \/ check(4, 7, isFPSubNormal(x, f))
      \/ check(3, 8, isFPNormal(x, f))  \/ check(2, 9, isInf(x, f))
TestOp_toSMT(i, a) ==
  Lanes(i.tys[1], i.ty, LAMBDA k :
    LET x == Elem(i.tys[1], a[1], k)
        f == fractionBits(ElemTy(i.tys[1], k))
    IN  {Out(SV(BoolBit(isfpclass(x.v, f, a[2].v)), x.np), TRUE)})

\* Conversion to an integer in lo..hi (as w bits): the value and no_overflow.
ToIntegers(x, f, rm, lo, hi, w) ==
  LET whole == round(x, f, rm)
  IN  {<<n % 2^w, isFPZero(whole, f) \/ int2fp(n, f, rm) = whole>> : n \in fp2int(x, f, rm, lo, hi)}
FpToInt(op, x, f, w, rm) ==
  LET signed == op \notin {"FPToUInt", "FPToUInt_Sat"}
      lo == IF signed THEN -(2^(w - 1)) ELSE 0
      hi == IF signed THEN 2^(w - 1) - 1 ELSE 2^w - 1
      mode == IF op = "LRInt" THEN rm ELSE IF op = "LRound" THEN "rna" ELSE "rtz"
      conv == ToIntegers(x, f, mode, lo, hi, w)
  IN  CASE op \in {"FPToSInt", "FPToUInt"} -> {SV(c[1], BoolBit(c[2])) : c \in conv}
        [] op \in {"LRInt", "LRound"} ->
             UNION {IF c[2] THEN {SV(c[1], 1)} ELSE {SV(n, 1) : n \in 0..Ones(w)} : c \in conv}
        [] op \in {"FPToSInt_Sat", "FPToUInt_Sat"} ->
             {SV(IF isNaN(x, f) \/ (~signed /\ isFPNegative(x, f)) THEN 0
                 ELSE IF c[2] THEN c[1]
                 ELSE (IF isFPNegative(x, f) THEN lo ELSE hi) % 2^w, 1) : c \in conv}
FpConversionLane(i, x, from, to, env) ==
  LET f == fractionBits(from)  g == fractionBits(to)
      mode == round_value(i.rm, env)
  IN  CASE i.op \in {"FPExt", "FPTrunc"} ->
             fm_poison(<<x>>, LAMBDA y, rm : {float2Float(y[1], f, g, rm)},
                       f, g, i.fl, i.rm, FALSE, FALSE, TRUE, env)
        [] i.op \in {"SIntToFP", "UIntToFP"} ->
             LET n == IF i.op = "SIntToFP" THEN SVal(x.v, from.w) ELSE x.v
             IN  {SV(int2fp(n, g, mode[1]),
                     BoolBit(x.np = 1 /\ mode[2] /\ ("nneg" \in i.fl => SVal(x.v, from.w) >= 0)))}
        [] OTHER -> {SV(r.v, BoolBit(r.np = 1 /\ x.np = 1)) :
                       r \in FpToInt(i.op, x.v, f, to.w, IF i.rm = "default" THEN "rne" ELSE i.rm)}
FpConversionOp_toSMT(i, a, env) ==
  Lanes(i.tys[1], i.ty, LAMBDA k :
    Outs(FpConversionLane(i, Elem(i.tys[1], a[1], k), ElemTy(i.tys[1], k), ElemTy(i.ty, k), env)))

FCmpFn(op, x, y, f) ==
  LET uno == AnyNaN(x, y, f)
  IN  CASE op = "OEQ" -> feq(x, y, f)        [] op = "ONE" -> ~uno /\ ~feq(x, y, f)
        [] op = "OGT" -> flt(y, x, f)        [] op = "OGE" -> fle(y, x, f)
        [] op = "OLT" -> flt(x, y, f)        [] op = "OLE" -> fle(x, y, f)
        [] op = "ORD" -> ~uno                [] op = "UNO" -> uno
        [] op = "UEQ" -> uno \/ feq(x, y, f) [] op = "UNE" -> uno \/ ~feq(x, y, f)
        [] op = "UGT" -> uno \/ flt(y, x, f) [] op = "UGE" -> uno \/ fle(y, x, f)
        [] op = "ULT" -> uno \/ flt(x, y, f) [] op = "ULE" -> uno \/ fle(x, y, f)
        [] op = "TRUE" -> TRUE               [] op = "FALSE" -> FALSE
FCmp_toSMT(i, a, env) ==
  Lanes(i.tys[1], i.ty, LAMBDA k :
    LET f == fractionBits(ElemTy(i.tys[1], k))
    IN  Outs(fm_poison(<<Elem(i.tys[1], a[1], k), Elem(i.tys[1], a[2], k)>>,
                       LAMBDA y, rm : {BoolBit(FCmpFn(i.op, y[1], y[2], f))},
                       f, f, i.fl, "default", FALSE, TRUE, FALSE, env)))

(***************************************************************************)
(* The classes: their operations, those that propagate poison and those    *)
(* with side effects; and their type constraints.                          *)
(***************************************************************************)
Class(ops, propagatesPoison, hasSideEffects) ==
  [ops |-> ops, propagatesPoison |-> propagatesPoison, hasSideEffects |-> hasSideEffects]
Pure(ops) == Class(ops, ops, {})

FpBinOp == Pure({"FAdd", "FSub", "FMul", "FDiv", "FRem", "FMax", "FMin", "FMaximum",
                 "FMinimum", "FMaximumnum", "FMinimumnum", "CopySign"})
FpUnaryOp == Pure({"FAbs", "FNeg", "Canonicalize", "Ceil", "Floor", "RInt", "NearbyInt",
                   "Round", "RoundEven", "Trunc", "Sqrt"})
FpUnaryOpVerticalZip == Pure({"FrExp"})
FpUnaryReductionOp == Pure({"FMin", "FMax", "FMinimum", "FMaximum"})
FpTernaryOp == Pure({"FMA", "MulAdd"})
TestOp == Pure({"Is_FPClass"})
FpConversionOp == Pure({"SIntToFP", "UIntToFP", "FPToSInt", "FPToSInt_Sat", "FPToUInt",
                        "FPToUInt_Sat", "FPExt", "FPTrunc", "LRInt", "LRound"})
FCmp == Pure({"OEQ", "OGT", "OGE", "OLT", "OLE", "ONE", "ORD", "UEQ", "UGT", "UGE",
              "ULT", "ULE", "UNE", "UNO", "TRUE", "FALSE"})

SameFloats(i) == enforceFloatOrVectorType(i.ty) /\ \A k \in DOMAIN i.tys : i.tys[k] = i.ty
FpBinOp_typing(i)     == SameFloats(i)
FpUnaryOp_typing(i)   == SameFloats(i)
FpTernaryOp_typing(i) == SameFloats(i)
\* The exponent is x bits wide (32 in the code).
FpUnaryOpVerticalZip_typing(i) ==
  /\ enforceFloatOrVectorType(i.tys[1]) /\ enforceStructType(i.ty)
  /\ numElementsExcludingPadding(i.ty) = 2 /\ i.ty.ch[1] = i.tys[1]
  /\ enforceIntOrVectorType(i.ty.ch[IF i.ty.pad[2] THEN 3 ELSE 2], i.x)
FpUnaryReductionOp_typing(i) ==
  enforceFloatType(i.ty) /\ enforceVectorType(i.tys[1], LAMBDA t : t = i.ty)
\* The mask is x bits wide (32 in the code).
TestOp_typing(i) ==
  /\ enforceFloatOrVectorType(i.tys[1]) /\ enforceIntType(i.tys[2], i.x)
  /\ enforceIntOrVectorType(i.ty, 1) /\ enforceVectorTypeEquiv(i.ty, i.tys[1])
FCmp_typing(i) ==
  /\ enforceIntOrVectorType(i.ty, 1) /\ enforceVectorTypeEquiv(i.ty, i.tys[1])
  /\ enforceFloatOrVectorType(i.tys[1]) /\ i.tys[1] = i.tys[2]
FpConversionOp_typing(i) ==
  LET to == i.ty  from == i.tys[1]
  IN  CASE i.op \in {"SIntToFP", "UIntToFP"} ->
             enforceFloatOrVectorType(to) /\ enforceIntOrVectorType(from, 0)
        [] i.op \in {"FPExt", "FPTrunc"} ->
             /\ enforceFloatOrVectorType(to) /\ enforceFloatOrVectorType(from)
             /\ IF i.op = "FPExt" THEN scalarSize(from) < scalarSize(to)
                                  ELSE scalarSize(from) > scalarSize(to)
        [] OTHER -> enforceIntOrVectorType(to, 0) /\ enforceFloatOrVectorType(from)
=============================================================================
