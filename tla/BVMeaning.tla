------------------------------ MODULE BVMeaning ------------------------------
(***************************************************************************)
(* What the bit-vector constructors of src/smt/expr.cpp mean, on integers: *)
(* the reference of ExprOps and the arithmetic of Instr.  l and r are the  *)
(* operands of width w, y the third operand of the ternary operations or   *)
(* the width a value is extended or truncated to; Undef where the encoder  *)
(* makes the program undefined before it uses the value.                   *)
(***************************************************************************)
EXTENDS Integers, Sequences, FiniteSets, FiniteSetsExt

Bit(n, i)   == (n \div 2^i) % 2
SVal(n, w)  == IF Bit(n, w - 1) = 1 THEN n - 2^w ELSE n
AbsVal(n)   == IF n < 0 THEN -n ELSE n
\* Division that truncates towards zero, and its remainder.
TDiv(x, y)  == IF (x < 0) = (y < 0) THEN AbsVal(x) \div AbsVal(y)
                                    ELSE -(AbsVal(x) \div AbsVal(y))
TRem(x, y)  == x - y * TDiv(x, y)
ToInt(b)    == IF b THEN 1 ELSE 0

Undef == -1
InRange(n, w) == -(2^(w - 1)) <= n /\ n < 2^(w - 1)
Clip(n, lo, hi) == IF n < lo THEN lo ELSE IF n > hi THEN hi ELSE n
Floor(n, d) == n \div d
BitSet(x, w)  == {i \in 0..(w - 1) : Bit(x, i) = 1}
SumPow(S)     == MapThenSumSet(LAMBDA i : 2^i, S)
Rank(S, i)    == Cardinality({j \in S : j < i})
MinOf(S)      == CHOOSE i \in S : \A j \in S : i <= j
MaxOf(S)      == CHOOSE i \in S : \A j \in S : i >= j
Odd(S)        == Cardinality(S) % 2 = 1

Meaning(k, w, l, r, y) ==
  LET sl == SVal(l, w)  sr == SVal(r, w)
      smin_ == -(2^(w - 1))  smax_ == 2^(w - 1) - 1  umax_ == 2^w - 1
      L == BitSet(l, w)  R == BitSet(r, w)
      sh == y % w
      \* A fixed-point product is rounded down, as ashr does; the comment above
      \* smul_fix_helper says towards zero, and LLVM allows both.
      fx == Floor(sl * sr, 2^y)  ux == Floor(l * r, 2^y)
      up == 2^r
  IN
  CASE k = "bvadd" -> (l + r) % 2^w  [] k = "bvsub" -> (l - r) % 2^w
    [] k = "bvmul" -> (l * r) % 2^w
    [] k = "bvsdiv" -> IF r = 0 \/ (sl = smin_ /\ sr = -1) THEN Undef ELSE TDiv(sl, sr) % 2^w
    [] k = "bvsrem" -> IF r = 0 \/ (sl = smin_ /\ sr = -1) THEN Undef ELSE TRem(sl, sr) % 2^w
    [] k = "bvudiv" -> IF r = 0 THEN Undef ELSE l \div r
    [] k = "bvurem" -> IF r = 0 THEN Undef ELSE l % r
    [] k = "bvshl" -> IF r >= w THEN 0 ELSE (l * 2^r) % 2^w
    [] k = "bvlshr" -> IF r >= w THEN 0 ELSE l \div 2^r
    [] k = "bvashr" -> IF r >= w THEN ToInt(sl < 0) * umax_ ELSE Floor(sl, 2^r) % 2^w
    [] k = "bvand" -> SumPow(L \cap R)  [] k = "bvor" -> SumPow(L \cup R)
    [] k = "bvxor" -> SumPow((L \cup R) \ (L \cap R))
    [] k = "bvnot" -> umax_ - l
    [] k = "ule" -> ToInt(l <= r)   [] k = "ult" -> ToInt(l < r)   [] k = "ugt" -> ToInt(l > r)
    [] k = "sle" -> ToInt(sl <= sr) [] k = "slt" -> ToInt(sl < sr) [] k = "sgt" -> ToInt(sl > sr)
    [] k = "eq" -> ToInt(l = r)
    [] k = "sadd_sat" -> Clip(sl + sr, smin_, smax_) % 2^w
    [] k = "ssub_sat" -> Clip(sl - sr, smin_, smax_) % 2^w
    [] k = "uadd_sat" -> Clip(l + r, 0, umax_) [] k = "usub_sat" -> Clip(l - r, 0, umax_)
    [] k = "sshl_sat" -> IF r >= w THEN Undef ELSE Clip(sl * 2^r, smin_, smax_) % 2^w
    [] k = "ushl_sat" -> IF r >= w THEN Undef ELSE Clip(l * 2^r, 0, umax_)
    [] k = "add_nsw" -> ToInt(InRange(sl + sr, w)) [] k = "add_nuw" -> ToInt(l + r <= umax_)
    [] k = "add_nus" -> ToInt(l + sr \in 0..umax_)
    [] k = "sub_nsw" -> ToInt(InRange(sl - sr, w)) [] k = "sub_nuw" -> ToInt(l >= r)
    [] k = "mul_nsw" -> ToInt(InRange(sl * sr, w)) [] k = "mul_nuw" -> ToInt(l * r <= umax_)
    [] k = "shl_nsw" -> IF r >= w THEN Undef ELSE ToInt(InRange(sl * 2^r, w))
    [] k = "shl_nuw" -> IF r >= w THEN Undef ELSE ToInt(l * 2^r <= umax_)
    [] k \in {"ashr_exact", "lshr_exact"} -> IF r >= w THEN Undef ELSE ToInt(l % 2^r = 0)
    [] k = "sdiv_exact" -> IF r = 0 \/ (sl = smin_ /\ sr = -1) THEN Undef
                           ELSE ToInt(TRem(sl, sr) = 0)
    [] k = "udiv_exact" -> IF r = 0 THEN Undef ELSE ToInt(l % r = 0)
    [] k = "fshl" -> Floor((l * 2^w + r) * 2^sh, 2^w) % 2^w
    [] k = "fshr" -> Floor(l * 2^w + r, 2^sh) % 2^w
    [] k = "smul_fix" -> fx % 2^w  [] k = "smul_fix_nsw" -> ToInt(InRange(fx, w))
    [] k = "smul_fix_sat" -> Clip(fx, smin_, smax_) % 2^w
    [] k = "umul_fix" -> ux % 2^w  [] k = "umul_fix_nuw" -> ToInt(ux <= umax_)
    [] k = "umul_fix_sat" -> Clip(ux, 0, umax_)
    [] k = "cttz" -> IF L = {} THEN r ELSE MinOf(L)
    [] k = "ctlz" -> IF L = {} THEN w ELSE w - 1 - MaxOf(L)
    [] k = "ctpop" -> Cardinality(L)
    [] k = "clmul" -> SumPow({n \in 0..(w - 1) : Odd({i \in L : n - i \in R})})
    [] k = "pext" -> SumPow({Rank(R, i) : i \in L \cap R})
    [] k = "pdep" -> SumPow({i \in R : Rank(R, i) \in L})
    [] k = "umin" -> IF l < r THEN l ELSE r     [] k = "umax" -> IF l > r THEN l ELSE r
    [] k = "smin" -> IF sl < sr THEN l ELSE r   [] k = "smax" -> IF sl > sr THEN l ELSE r
    [] k = "round_up_bits" -> IF r >= w \/ l + up - 1 > umax_ THEN Undef
                              ELSE up * Floor(l + up - 1, up)
    [] k = "round_up_bits_nuw" -> IF r >= w THEN Undef ELSE ToInt(l + up - 1 <= umax_)
    [] k = "abs" -> AbsVal(sl) % 2^w
    [] k = "isPowerOf2" -> ToInt(Cardinality(L) = 1)
    [] k = "log2" -> IF L = {} THEN 0 ELSE MaxOf(L)
    [] k = "bitreverse" -> SumPow({w - 1 - i : i \in L})
    [] k = "fneg" -> SumPow((L \ {w - 1}) \cup ({w - 1} \ L))
    [] k = "fabs" -> SumPow(L \ {w - 1})
    [] k = "copysign" -> SumPow((L \ {w - 1}) \cup (R \cap {w - 1}))
    [] k = "sextOrTrunc" -> SVal(l, w) % 2^y [] k = "zextOrTrunc" -> l % 2^y
    [] k = "half" -> Floor(l, 2^(w \div 2))
    [] k = "and" -> l * r  [] k = "or" -> ToInt(l + r > 0)
    [] k = "implies" -> ToInt(l <= r)  [] k = "notImplies" -> ToInt(l > r)
=============================================================================
