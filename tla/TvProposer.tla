------------------------------ MODULE TvProposer ------------------------------
(***************************************************************************)
(* Units and the assumptions proposed for them (src/tv-next/unit.cpp,      *)
(* proposer.cpp and back.cpp).                                             *)
(*                                                                         *)
(* A function is [args, body, ret]: a set of named operands (their order   *)
(* says nothing), a sequence of instructions and the operand returned.  A  *)
(* unit is a pair of such functions with the same arguments; assumes is    *)
(* what is injected at the entry of both: facts about an argument and      *)
(* claims of flags.                                                        *)
(***************************************************************************)
EXTENDS TvRange

Names(insts)  == {insts[k].name : k \in DOMAIN insts}
Const(v)      == v.k = "c"
InstOf(name, insts) == insts[CHOOSE k \in DOMAIN insts : insts[k].name = name]

(***************************************************************************)
(* Lifting a region.                                                       *)
(***************************************************************************)
\* The external operands of one side.
Operands(insts) == UNION {Range(insts[k].a) : k \in DOMAIN insts}
collectExternalOperands(insts) == {v \in Operands(insts) : ~Const(v) /\ v.n \notin Names(insts)}
\* A name with two types has no unit.
TypeClash(X, Y) == \E x \in X, y \in Y : x.n = y.n /\ x.w # y.w
unionNamedOperands(X, Y) == X \cup Y

\* A clone that has the name of a parameter gets another one.
CloneName(name, params) == IF \E v \in params : v.n = name THEN name \o "1" ELSE name
buildHalf(insts, params) ==
  LET clone(i) == [i EXCEPT !.name = CloneName(i.name, params),
                            !.a = [k \in DOMAIN i.a |->
                                     IF ~Const(i.a[k]) /\ i.a[k].n \in Names(insts)
                                     THEN [i.a[k] EXCEPT !.n = CloneName(i.a[k].n, params)]
                                     ELSE i.a[k]]]
      body == [k \in DOMAIN insts |-> clone(insts[k])]
  IN  [args |-> params, body |-> body,
       ret |-> [k |-> "v", n |-> Last(body).name, w |-> Last(body).w]]

NoUnit == [ok |-> FALSE]
LiftUnit(s, t) ==
  LET xs == collectExternalOperands(s)  ys == collectExternalOperands(t)
      params == unionNamedOperands(xs, ys)
  IN  IF TypeClash(xs, ys) THEN NoUnit
      ELSE [ok |-> TRUE, src |-> buildHalf(s, params), tgt |-> buildHalf(t, params), assumes |-> {}]
\* Terminators are never part of a region, and a straight-line integer
\* instruction is never void.
buildAsymTvUnit(s, t) ==
  IF s = <<>> \/ t = <<>> THEN NoUnit
  ELSE IF Last(s).w # Last(t).w THEN NoUnit ELSE LiftUnit(s, t)
buildTvUnit(region) ==
  LET s == region.src  t == region.tgt
  IN  IF region.is_asymmetric THEN buildAsymTvUnit(s, t)
      ELSE IF \E k \in DOMAIN s : s[k].w # t[k].w THEN NoUnit ELSE LiftUnit(s, t)

(***************************************************************************)
(* Obligations: flags of the target that the ranges show harmless.         *)
(***************************************************************************)
FullRange(w) == KnownRange(<<0, 2^w - 1>>, <<2^(w - 1), 2^(w - 1) - 1>>, None, FALSE, FALSE)
rangeForOperand(v, facts) ==
  IF Const(v) THEN rangeOf(v, [n \in {} |-> 0])
  ELSE IF \E f \in facts : f.name = v.n
       THEN LET f == CHOOSE f \in facts : f.name = v.n
            IN  KnownRange(f.u, f.s, f.bits, FALSE, f.poison_free)
       ELSE FullRange(v.w)

combineCorners(S, T, F(_, _)) == {F(x, y) : x \in S, y \in T}
fitsSignedRange(S, w)   == \A x \in S : InRange(x, w)
fitsUnsignedRange(S, w) == \A x \in S : x \in 0..(2^w - 1)
CountrOne(z) == MaxOf({n \in 0..32 : 0..(n - 1) \subseteq z})
canProveSafe(kind, a, b, w) ==
  LET Corners(p) == {SVal(p[1], w), SVal(p[2], w)}
      arith(x, y) == CASE kind[1] = "Add" -> x + y [] kind[1] = "Sub" -> x - y [] kind[1] = "Mul" -> x * y
  IN
  CASE kind[1] \in {"Add", "Sub", "Mul"} /\ kind[2] = "nsw" ->
         a.s # None /\ b.s # None /\ fitsSignedRange(combineCorners(Corners(a.s), Corners(b.s), arith), w)
    [] kind \in {<<"Add", "nuw">>, <<"Mul", "nuw">>} ->
         /\ a.u # None /\ b.u # None
         /\ fitsUnsignedRange({arith(a.u[1], b.u[1]), arith(a.u[2], b.u[2])}, w)
    [] kind = <<"Sub", "nuw">> ->
         /\ a.u # None /\ b.u # None /\ a.u[1] >= b.u[2]
         /\ fitsUnsignedRange({a.u[1] - b.u[2], a.u[2] - b.u[1]}, w)
    [] kind = <<"Shl", "nsw">> ->
         /\ a.s # None /\ b.u # None /\ b.u[2] < w
         /\ \A k \in 1..2 : InRange(SVal(a.s[k], w), w - b.u[2])
    [] kind = <<"Shl", "nuw">> -> a.u # None /\ b.u # None /\ b.u[2] < w /\ a.u[2] < 2^(w - b.u[2])
    [] kind = <<"ZExt", "nneg">> -> a.s # None /\ a.s[1] < 2^(w - 1)
    [] kind = <<"Or", "disjoint">> ->
         a.bits # None /\ b.bits # None /\ (0..(w - 1)) \subseteq (a.bits.z \cup b.bits.z)
    [] kind[1] \in {"LShr", "AShr"} ->
         /\ a.bits # None /\ b.u # None
         /\ b.u[2] = 0 \/ (b.u[2] < w /\ CountrOne(a.bits.z) >= b.u[2])
    [] kind[1] \in {"UDiv", "SDiv"} ->
         /\ a.bits # None /\ b.bits # None /\ b.bits.z \cup b.bits.o = 0..(w - 1)
         /\ LET c == SumPow(b.bits.o)
                m == IF kind[1] = "SDiv" /\ SVal(c, w) < 0 THEN 2^w - c ELSE c
            IN  \E k \in 0..w : m = 2^k /\ CountrOne(a.bits.z) >= k
    [] OTHER -> FALSE

\* Whether the flag is harmless for these operands: the predicate built for
\* the obligation (a shift or a division that has no value makes it poison).
buildFlagClaim(kind, x, y, w) ==
  LET e(k, a, b) == Meaning(k, w, a, b, 0)
      claim == [nsw |-> [Add |-> "add_nsw", Sub |-> "sub_nsw", Mul |-> "mul_nsw"],
                nuw |-> [Add |-> "add_nuw", Sub |-> "sub_nuw", Mul |-> "mul_nuw"]]
  IN
  CASE kind[1] \in {"Add", "Sub", "Mul"} -> e(claim[kind[2]][kind[1]], x, y)
    [] kind[1] = "Shl" -> IF y >= w THEN Undef
                          ELSE ToInt(e(IF kind[2] = "nsw" THEN "bvashr" ELSE "bvlshr", e("bvshl", x, y), y) = x)
    [] kind[1] = "ZExt" -> ToInt(SVal(x, w) >= 0)
    [] kind[1] = "Or"   -> ToInt(e("bvand", x, y) = 0)
    [] kind[1] \in {"LShr", "AShr"} ->
         IF y >= w THEN Undef
         ELSE ToInt(e("bvshl", e(IF kind[1] = "LShr" THEN "bvlshr" ELSE "bvashr", x, y), y) = x)
    [] kind[1] \in {"UDiv", "SDiv"} ->
         LET q == e(IF kind[1] = "UDiv" THEN "bvudiv" ELSE "bvsdiv", x, y)
         IN  IF q = Undef THEN Undef ELSE ToInt(e("bvmul", q, y) = x)

keyForOperand(v) == IF Const(v) THEN <<"c", v.v>> ELSE <<"v", v.n>>
Commutative == {"Add", "Mul", "And", "Or", "Xor"}
StructuralMatches(t, fn) ==
  LET keys(i) == [k \in DOMAIN i.a |-> keyForOperand(i.a[k])]
  IN  {k \in DOMAIN fn.body :
         LET i == fn.body[k]
         IN  /\ i.op = t.op /\ i.w = t.w /\ Len(i.a) = Len(t.a)
             /\ \/ keys(i) = keys(t)
                \/ t.op \in Commutative /\ keys(i) = Reverse(keys(t))}
\* The first one.
findStructuralMatch(t, fn) == fn.body[MinOf(StructuralMatches(t, fn))]
FlagsOf == [Add |-> {"nsw", "nuw"}, Sub |-> {"nsw", "nuw"}, Mul |-> {"nsw", "nuw"}, Shl |-> {"nsw", "nuw"},
            ZExt |-> {"nneg"}, UDiv |-> {"exact"}, SDiv |-> {"exact"}, LShr |-> {"exact"},
            AShr |-> {"exact"}, Or |-> {"disjoint"}]
collectAddedFlags(t, s) ==
  IF t.op \in DOMAIN FlagsOf THEN {<<t.op, f>> : f \in (FlagsOf[t.op] \cap t.fl) \ s.fl} ELSE {}

(***************************************************************************)
(* Facts.                                                                  *)
(***************************************************************************)
\* The instructions a value depends on, by name: none for an argument, else
\* the least set with the value and what its members take from the body.
DependsOnly(S, fn) ==
  \A k \in DOMAIN fn.body : fn.body[k].name \in S =>
    \A j \in DOMAIN fn.body[k].a :
       LET v == fn.body[k].a[j] IN ~Const(v) /\ v.n \in Names(fn.body) => v.n \in S
collectBackwardSlice(name, fn) ==
  {n \in Names(fn.body) : /\ name \in Names(fn.body)
                          /\ \A S \in SUBSET Names(fn.body) : name \in S /\ DependsOnly(S, fn) => n \in S}
FactOf(name, w, r) ==
  [name |-> name, w |-> w,
   u |-> IF r.u # None /\ r.u[2] # 2^w - 1 THEN r.u ELSE None,
   s |-> IF r.s # None /\ r.s # <<2^(w - 1), 2^(w - 1) - 1>> THEN r.s ELSE None,
   bits |-> IF r.bits # None /\ r.bits # Unknown THEN r.bits ELSE None,
   poison_free |-> r.poison_free]
Empty(f) == f.u = None /\ f.s = None /\ ~f.poison_free /\ f.bits = None
\* The predicate of a fact on a value that is not poison.
buildFactPredicate(f, x) ==
  /\ f.u # None => f.u[1] <= x /\ x <= f.u[2]
  /\ f.s # None => SLe(f.s[1], x, f.w) /\ SLe(x, f.s[2], f.w)
  /\ f.bits # None => x \in Vals(f.bits, f.w)

\* What the ranges of one parent say of the arguments of a unit.
FactsOf(unit, fn, map) ==
  {f \in {FactOf(v.n, v.w, map[v.n]) : v \in {p \in unit.src.args : p.n \in DOMAIN map}} :
     ~Empty(f) /\ collectBackwardSlice(f.name, fn) # {}}
\* The facts are enough to allow a flag.
SafeWith(t, kind, facts) ==
  canProveSafe(kind, rangeForOperand(t.a[1], facts),
               IF Len(t.a) >= 2 THEN rangeForOperand(t.a[2], facts)
               ELSE KnownRange(None, None, None, FALSE, FALSE),
               IF kind[1] = "ZExt" THEN t.a[1].w ELSE t.w)
\* The flags of the target that the facts allow.
ObligationsOf(unit, facts) ==
  UNION {{[kind |-> k, ops |-> t.a, w |-> t.a[1].w] :
            k \in {q \in collectAddedFlags(t, findStructuralMatch(t, unit.src)) : SafeWith(t, q, facts)}} :
         t \in {i \in Range(unit.tgt.body) :
                  /\ StructuralMatches(i, unit.src) # {}
                  /\ \A j \in DOMAIN i.a : Const(i.a[j]) \/ \E f \in facts : f.name = i.a[j].n}}
SideOf(unit, ok, facts) == [ok |-> ok, facts |-> facts, obligations |-> ObligationsOf(unit, facts)]
SideFrom(unit, fn, ranges) == SideOf(unit, ranges.ok, FactsOf(unit, fn, ranges.map))
\* The arguments of the parent are taken to be well defined.
SeedOf(fn) ==
  [n \in {v.n : v \in fn.args} |->
     LET w == (CHOOSE v \in fn.args : v.n = n).w
     IN  [FullRange(w) EXCEPT !.undef_free = TRUE, !.poison_free = TRUE]]
collectFromParent(unit, fn) == SideFrom(unit, fn, computeRanges(fn.body, SeedOf(fn)))

\* injectFactAssumes and injectObligationAssume: only on arguments.
Injected(side, unit) ==
  LET arg(n) == \E p \in unit.src.args : p.n = n
  IN  {[fact |-> f] : f \in {g \in side.facts : arg(g.name)}} \cup
      {[claim |-> o] : o \in {q \in side.obligations :
                                \A k \in DOMAIN q.ops : Const(q.ops[k]) \/ arg(q.ops[k].n)}}

\* The standalone check of one side: on well-defined arguments of the parent
\* the slices of the facts, in the order of the body, make every fact and
\* obligation true.
buildCombinedFactCheck(side, fn) ==
  LET inSlices == UNION {collectBackwardSlice(f.name, fn) : f \in side.facts}
      resolvable(v) == Const(v) \/ v.n \in inSlices
  IN  [args |-> fn.args, body |-> fn.body, slice |-> inSlices,
       claims |-> {[fact |-> f] : f \in side.facts} \cup
                  {[claim |-> o] : o \in {q \in side.obligations : \A k \in DOMAIN q.ops : resolvable(q.ops[k])}}]

NothingProposed == [some |-> FALSE, ok |-> TRUE]
Nothing(x) == x.facts = {} /\ x.obligations = {}
CheckOf(x, fn) == IF Nothing(x) THEN <<>> ELSE <<buildCombinedFactCheck(x, fn)>>
ProposalOf(unit, psrc, s, ptgt, t) ==
  IF ~s.ok \/ ~t.ok THEN [some |-> FALSE, ok |-> FALSE]
  ELSE IF Nothing(s) /\ Nothing(t) THEN NothingProposed
  ELSE [some |-> TRUE, ok |-> TRUE,
        modified |-> [unit EXCEPT !.assumes = Injected(s, unit) \cup Injected(t, unit)],
        checks |-> CheckOf(s, psrc) \o CheckOf(t, ptgt)]
proposeFromRanges(unit, psrc, ptgt) ==
  ProposalOf(unit, psrc, collectFromParent(unit, psrc), ptgt, collectFromParent(unit, ptgt))
=============================================================================
