------------------------------- MODULE TvRange -------------------------------
(***************************************************************************)
(* The straight-line range analysis of alive-tv-next (src/tv-next/         *)
(* range.cpp).  An instruction is [name, op, fl, w, a]: w is the width of  *)
(* its result and a its operands, a constant [k |-> "c", v, w] or a named  *)
(* value [k |-> "v", n, w].  A KnownRange holds closed unsigned and signed *)
(* intervals, known bits and two flags; an absent part is None.            *)
(***************************************************************************)
EXTENDS BVMeaning, SequencesExt

None == <<>>
KnownRange(u, s, bits, uf, pf) == [u |-> u, s |-> s, bits |-> bits, undef_free |-> uf, poison_free |-> pf]
well_defined(r) == r.undef_free /\ r.poison_free

SLe(x, y, w) == SVal(x, w) <= SVal(y, w)
NonNeg(x, w) == SVal(x, w) >= 0
UMinOf(x, y) == IF x < y THEN x ELSE y
UMaxOf(x, y) == IF x > y THEN x ELSE y
ActiveBits(x) == IF x = 0 THEN 0 ELSE 1 + Meaning("log2", 8, x, 0, 0)

(***************************************************************************)
(* llvm::KnownBits: the bits known to be zero and those known to be one.   *)
(***************************************************************************)
Unknown      == [z |-> {}, o |-> {}]
Vals(kb, w)  == {x \in 0..(2^w - 1) : kb.o \subseteq BitSet(x, w) /\ kb.z \cap BitSet(x, w) = {}}
\* The bits common to all of S.
Common(S, w) == IF S = {} THEN Unknown
                ELSE [z |-> {b \in 0..(w - 1) : \A x \in S : Bit(x, b) = 0},
                      o |-> {b \in 0..(w - 1) : \A x \in S : Bit(x, b) = 1}]
\* Bits of an operation, over the operands with known bits that satisfy P.
KBOp(k, x, y, w, P(_, _)) ==
  Common({Meaning(k, w, p[1], p[2], 0) :
            p \in {q \in Vals(x, w) \X Vals(y, w) : P(q[1], q[2])}} \ {Undef}, w)
NoWrap(op, fl, w, x, y) ==
  LET holds(k) == Meaning(k, w, x, y, 0) = 1
      k == [Add |-> <<"add_nsw", "add_nuw">>, Sub |-> <<"sub_nsw", "sub_nuw">>,
            Mul |-> <<"mul_nsw", "mul_nuw">>, Shl |-> <<"shl_nsw", "shl_nuw">>][op]
  IN  ("nsw" \in fl => holds(k[1])) /\ ("nuw" \in fl => holds(k[2]))
\* ConstantRange(lo, hi + 1).toKnownBits(): the common high bits.
ConstantRangeBits(lo, hi, w) ==
  LET high == {b \in 0..(w - 1) : \A c \in b..(w - 1) : Bit(lo, c) = Bit(hi, c)}
  IN  [z |-> {b \in high : Bit(lo, b) = 0}, o |-> {b \in high : Bit(lo, b) = 1}]

(***************************************************************************)
(* The helpers.                                                            *)
(***************************************************************************)
crossDerive(r, w) ==
  IF r.u # None /\ r.s = None /\ NonNeg(r.u[2], w) THEN [r EXCEPT !.s = r.u]
  ELSE IF r.s # None /\ r.u = None /\ NonNeg(r.s[1], w) THEN [r EXCEPT !.u = r.s]
  ELSE r
knownBitsOf(v, map) ==
  IF v.k = "c" THEN Common({v.v}, v.w)
  ELSE IF v.n \in DOMAIN map /\ map[v.n].bits # None THEN map[v.n].bits ELSE Unknown
deriveBitsFromIntervals(r, w) ==
  LET add(a, kb) == [z |-> a.z \cup kb.z, o |-> a.o \cup kb.o]
      a0 == IF r.bits = None THEN Unknown ELSE r.bits
      a1 == IF r.u # None /\ r.u[1] <= r.u[2] THEN add(a0, ConstantRangeBits(r.u[1], r.u[2], w)) ELSE a0
      a2 == IF r.s # None /\ SLe(r.s[1], r.s[2], w) /\ r.s[1] <= (r.s[2] + 1) % 2^w
            THEN add(a1, ConstantRangeBits(r.s[1], r.s[2], w)) ELSE a1
  IN  IF a2 = Unknown THEN r ELSE [r EXCEPT !.bits = a2]
rangeOf(v, map) ==
  IF v.k = "v" THEN IF v.n \in DOMAIN map THEN map[v.n] ELSE None
  ELSE KnownRange(<<v.v, v.v>>, <<v.v, v.v>>, Common({v.v}, v.w), TRUE, TRUE)
\* <<whether the amount is below w, the constant amount or w>>
shiftInRange(amt, w, r) ==
  IF amt.k = "c" THEN <<amt.v < w, UMinOf(amt.v, w)>>
  ELSE <<r # None /\ r.u # None /\ r.u[2] < w, w>>

HasU(r) == r # None /\ r.u # None
HasS(r) == r # None /\ r.s # None
Done(r, w) == deriveBitsFromIntervals(crossDerive(r, w), w)
\* A result with nothing known is no result.
Useful(r, w) ==
  IF r.u = None /\ r.s = None /\ ~well_defined(r) /\ r.bits = Unknown THEN None ELSE Done(r, w)
DefFlags(rs) == <<\A k \in DOMAIN rs : rs[k] # None /\ rs[k].undef_free,
                  \A k \in DOMAIN rs : rs[k] # None /\ rs[k].poison_free>>
Always(x, y) == TRUE

(***************************************************************************)
(* The transfer functions.                                                 *)
(***************************************************************************)
transferSelect(i, map) ==
  LET w == i.w  c == rangeOf(i.a[1], map)  t == rangeOf(i.a[2], map)  f == rangeOf(i.a[3], map)
      u == IF HasU(t) /\ HasU(f) THEN <<UMinOf(t.u[1], f.u[1]), UMaxOf(t.u[2], f.u[2])>> ELSE None
      s == IF HasS(t) /\ HasS(f)
           THEN <<IF SLe(t.s[1], f.s[1], w) THEN t.s[1] ELSE f.s[1],
                  IF SLe(t.s[2], f.s[2], w) THEN f.s[2] ELSE t.s[2]>> ELSE None
      tb == knownBitsOf(i.a[2], map)  fb == knownBitsOf(i.a[3], map)
      bits == [z |-> tb.z \cap fb.z, o |-> tb.o \cap fb.o]
      d == DefFlags(<<c, t, f>>)
  IN  IF (t = None /\ f = None) \/ (u = None /\ s = None /\ bits = Unknown) THEN None
      ELSE Done(KnownRange(u, s, bits, d[1], d[2]), w)
\* The bounds of the operand are kept, its poison is not.
transferFreeze(i, map) ==
  LET r == rangeOf(i.a[1], map)
  IN  deriveBitsFromIntervals(
        IF r = None THEN KnownRange(None, None, None, TRUE, TRUE)
        ELSE KnownRange(r.u, r.s, r.bits, TRUE, TRUE), i.w)

\* l and r are the ranges of the operands, lb and rb their bits, d the flags.
transferAnd(i, l, r, lb, rb, d) ==
  LET w == i.w
      u == IF HasU(r) /\ NonNeg(r.u[2], w) THEN <<0, r.u[2]>>
           ELSE IF HasU(l) /\ NonNeg(l.u[2], w) THEN <<0, l.u[2]>>
           ELSE IF HasU(l) /\ HasU(r) THEN <<0, UMinOf(l.u[2], r.u[2])>> ELSE None
      bits == KBOp("bvand", lb, rb, w, Always)
  IN  IF u = None /\ bits = Unknown THEN None ELSE Done(KnownRange(u, None, bits, d[1], d[2]), w)
transferOr(i, l, r, lb, rb, d) ==
  LET w == i.w
      top == UMaxOf(ActiveBits(l.u[2]), ActiveBits(r.u[2]))
      u == IF HasU(l) /\ HasU(r) THEN <<UMaxOf(l.u[1], r.u[1]), 2^top - 1>> ELSE None
      bits == KBOp("bvor", lb, rb, w, Always)
  IN  IF u = None /\ bits = Unknown THEN None ELSE Done(KnownRange(u, None, bits, d[1], d[2]), w)
transferXor(i, lb, rb, d) ==
  LET bits == KBOp("bvxor", lb, rb, i.w, Always)
  IN  IF bits = Unknown THEN None
      ELSE deriveBitsFromIntervals(KnownRange(None, None, bits, d[1], d[2]), i.w)
transferURem(i, l, r, lb, rb, d) ==
  IF ~HasU(r) \/ r.u[1] = 0 THEN None
  ELSE Done(KnownRange(<<0, (r.u[2] - 1) % 2^i.w>>, None, KBOp("bvurem", lb, rb, i.w, Always), d[1], d[2]), i.w)
\* APInt::udiv stops the program when the upper bound wrapped to 0.
DividesByZero(i, map) ==
  /\ i.op = "UDiv" /\ HasU(rangeOf(i.a[1], map)) /\ HasU(rangeOf(i.a[2], map))
  /\ rangeOf(i.a[2], map).u[1] # 0 /\ rangeOf(i.a[2], map).u[2] = 0
transferUDiv(i, l, r, lb, rb, d) ==
  IF ~HasU(r) \/ ~HasU(l) \/ r.u[1] = 0 THEN None
  ELSE Done(KnownRange(<<IF r.u[2] = 0 THEN 0 ELSE l.u[1] \div r.u[2], l.u[2] \div r.u[1]>>, None,
                  KBOp("bvudiv", lb, rb, i.w, Always), d[1], d[2]), i.w)
transferLShr(i, l, r, lb, rb, d) ==
  LET w == i.w  sh == shiftInRange(i.a[2], w, r)
      lo == IF sh[2] < w THEN sh[2] ELSE r.u[1]
      hi == IF sh[2] < w THEN sh[2] ELSE r.u[2]
      u == IF HasU(l) THEN <<l.u[1] \div 2^hi, l.u[2] \div 2^lo>> ELSE None
  IN  IF ~sh[1] THEN None
      ELSE Useful(KnownRange(u, None, KBOp("bvlshr", lb, rb, w, LAMBDA x, y : y < w), d[1], d[2]), w)
\* A variable amount counts with its lower bound on both ends.
transferAShr(i, l, r, lb, rb, d) ==
  LET w == i.w  sh == shiftInRange(i.a[2], w, r)
      n == IF sh[2] < w THEN sh[2] ELSE r.u[1]
      shifted(x) == Meaning("bvashr", w, x, n, 0)
      s == IF HasS(l) THEN <<shifted(l.s[1]), shifted(l.s[2])>> ELSE None
  IN  IF ~sh[1] THEN None
      ELSE Useful(KnownRange(None, s, KBOp("bvashr", lb, rb, w, LAMBDA x, y : y < w), d[1], d[2]), w)
transferShl(i, l, r, lb, rb, d) ==
  LET w == i.w  sh == shiftInRange(i.a[2], w, r)
      by(p) == <<(p[1] * 2^sh[2]) % 2^w, (p[2] * 2^sh[2]) % 2^w>>
      u == IF sh[2] < w /\ "nuw" \in i.fl /\ HasU(l) THEN by(l.u) ELSE None
      s == IF sh[2] < w /\ "nsw" \in i.fl /\ HasS(l) THEN by(l.s) ELSE None
      bits == KBOp("bvshl", lb, rb, w, LAMBDA x, y : y < w /\ NoWrap("Shl", i.fl, w, x, y))
  IN  IF ~sh[1] THEN None ELSE Useful(KnownRange(u, s, bits, d[1], d[2]), w)

\* add, sub and mul: bounds only under nuw or nsw, computed modulo 2^w.
WrapU(i, l, r) ==
  IF ~("nuw" \in i.fl /\ HasU(l) /\ HasU(r)) THEN None
  ELSE CASE i.op = "Add" -> <<(l.u[1] + r.u[1]) % 2^i.w, (l.u[2] + r.u[2]) % 2^i.w>>
         [] i.op = "Sub" -> IF l.u[2] < r.u[1] THEN None ELSE <<0, l.u[2] - r.u[1]>>
         [] i.op = "Mul" -> <<(l.u[1] * r.u[1]) % 2^i.w, (l.u[2] * r.u[2]) % 2^i.w>>
WrapS(i, l, r) ==
  IF ~("nsw" \in i.fl /\ HasS(l) /\ HasS(r)) THEN None
  ELSE CASE i.op = "Add" -> <<(l.s[1] + r.s[1]) % 2^i.w, (l.s[2] + r.s[2]) % 2^i.w>>
         [] i.op = "Sub" -> IF NonNeg(l.s[1], i.w) /\ NonNeg(r.s[2], i.w) /\ SLe(r.s[1], l.s[2], i.w)
                            THEN <<0, (l.s[2] - r.s[1]) % 2^i.w>> ELSE None
         [] i.op = "Mul" -> IF NonNeg(l.s[1], i.w) /\ NonNeg(r.s[1], i.w)
                            THEN <<(l.s[1] * r.s[1]) % 2^i.w, (l.s[2] * r.s[2]) % 2^i.w>> ELSE None
transferWrap(i, l, r, lb, rb, d) ==
  LET u == WrapU(i, l, r)  s == WrapS(i, l, r)
      k == [Add |-> "bvadd", Sub |-> "bvsub", Mul |-> "bvmul"][i.op]
      bits == KBOp(k, lb, rb, i.w, LAMBDA x, y : i.op = "Mul" \/ NoWrap(i.op, i.fl, i.w, x, y))
      pf == (i.fl \cap {"nuw", "nsw"} = {} \/ u # None \/ s # None) /\ d[2]
  IN  Useful(KnownRange(u, s, bits, d[1], pf), i.w)

transferCast(i, map) ==
  LET v == i.a[1]  src == rangeOf(v, map)  w == i.w
      kb == knownBitsOf(v, map)
      each(p, F(_)) == <<F(p[1]), F(p[2])>>
      same(x) == x  sext(x) == SVal(x, v.w) % 2^w  trunc(x) == x % 2^w
      u == CASE i.op = "ZExt" -> IF src.u # None THEN src.u
                                 ELSE IF src.s # None /\ NonNeg(src.s[1], v.w) THEN src.s ELSE None
             [] i.op = "SExt" -> None
             [] i.op = "Trunc" -> IF src.u # None /\ ActiveBits(src.u[2]) <= w
                                  THEN each(src.u, trunc) ELSE None
      s == IF i.op # "SExt" THEN None
           ELSE IF src.s # None THEN each(src.s, sext)
           ELSE IF src.u # None /\ NonNeg(src.u[2], v.w) THEN each(src.u, sext) ELSE None
      F(x) == CASE i.op = "ZExt" -> x [] i.op = "SExt" -> sext(x) [] i.op = "Trunc" -> trunc(x)
      bits == Common({F(x) : x \in Vals(kb, v.w)}, w)
  IN  IF src = None THEN None
      ELSE IF u = None /\ s = None /\ bits = Unknown THEN None
      ELSE Done(KnownRange(u, s, bits, src.undef_free, src.poison_free), w)

transfer(i, map) ==
  IF i.op = "Select" THEN transferSelect(i, map)
  ELSE IF i.op = "Freeze" THEN transferFreeze(i, map)
  ELSE IF i.op \in {"ZExt", "SExt", "Trunc"} THEN transferCast(i, map)
  ELSE LET l == rangeOf(i.a[1], map)  r == rangeOf(i.a[2], map)
           lb == knownBitsOf(i.a[1], map)  rb == knownBitsOf(i.a[2], map)
           d == DefFlags(<<l, r>>)
       IN  CASE i.op = "And" -> transferAnd(i, l, r, lb, rb, d)
             [] i.op = "Or" -> transferOr(i, l, r, lb, rb, d)
             [] i.op = "Xor" -> transferXor(i, lb, rb, d)
             [] i.op = "URem" -> transferURem(i, l, r, lb, rb, d)
             [] i.op = "UDiv" -> transferUDiv(i, l, r, lb, rb, d)
             [] i.op = "LShr" -> transferLShr(i, l, r, lb, rb, d)
             [] i.op = "AShr" -> transferAShr(i, l, r, lb, rb, d)
             [] i.op = "Shl" -> transferShl(i, l, r, lb, rb, d)
             [] i.op \in {"Add", "Sub", "Mul"} -> transferWrap(i, l, r, lb, rb, d)
             [] OTHER -> None

\* The ranges, and whether the analysis got to the end.
RangeSet(s, name, r) ==
  IF r = None THEN s
  ELSE [s EXCEPT !.map = [n \in DOMAIN s.map \cup {name} |-> IF n = name THEN r ELSE s.map[n]]]
computeRanges(insts, seed) ==
  FoldLeft(LAMBDA s, i : IF ~s.ok \/ DividesByZero(i, s.map) THEN [s EXCEPT !.ok = FALSE]
                         ELSE RangeSet(s, i.name, transfer(i, s.map)),
           [map |-> seed, ok |-> TRUE], insts)
=============================================================================
