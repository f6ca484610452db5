-------------------------------- MODULE Types --------------------------------
(***************************************************************************)
(* Alive2's types (src/ir/type.cpp) and the bit-vector layout of values.   *)
(*                                                                         *)
(* A type is [k, w, ch, pad]: k is its kind, w the width of an integer,    *)
(* float or pointer, ch the types of the elements of an aggregate and pad  *)
(* which of them are padding.  A symbolic type is the choice among the     *)
(* types the solver's model may pick, so it is represented by them.        *)
(*                                                                         *)
(* A StateValue is [v, np]: one bit vector of value bits and one of        *)
(* non-poison bits, the first element of an aggregate in the high bits.    *)
(***************************************************************************)
EXTENDS BVMeaning, SequencesExt, Floats

CONSTANTS bits_byte, bits_poison_per_byte, PtrBits

\* The byte order of the module being verified, a global of the process.
VARIABLE little_endian

Type(k, w, ch, pad) == [k |-> k, w |-> w, ch |-> ch, pad |-> pad]
IntTy(w)      == Type("int", w, <<>>, <<>>)
Float(f)      == Type("float", FBits(f), <<>>, <<>>)
Ptr           == Type("ptr", PtrBits, <<>>, <<>>)
Void          == Type("void", 0, <<>>, <<>>)
Vec(n, ty)    == Type("vector", 0, [i \in 1..n |-> ty], [i \in 1..n |-> FALSE])
Array(n, ty, padTy) ==
  IF padTy = Void THEN Type("array", 0, [i \in 1..n |-> ty], [i \in 1..n |-> FALSE])
  ELSE Type("array", 0, [i \in 1..(2 * n) |-> IF i % 2 = 1 THEN ty ELSE padTy],
                        [i \in 1..(2 * n) |-> i % 2 = 0])
Struct(ch, pad) == Type("struct", 0, ch, pad)

isAgg(ty)       == ty.k \in {"vector", "array", "struct"}
isVec(ty)        == ty.k = "vector"
fractionBits(ty) == ty.w - ExpBits - 1
SV(v, np)       == [v |-> v, np |-> np]
BoolBit(b)      == IF b THEN 1 ELSE 0
Ones(w)         == 2^w - 1
divide_up(n, d) == (n + d - 1) \div d
Smaller(a, b)   == IF a < b THEN a ELSE b
BitsOf(x, h, l) == (x \div 2^l) % 2^(h - l + 1)

SumTo(f, n) == SumFunctionOnSet(f, 1..n)

RECURSIVE bits(_)
bits(ty) ==
  IF ~isAgg(ty) THEN ty.w
  ELSE IF ty.ch = <<>> THEN 1
  ELSE SumTo([i \in DOMAIN ty.ch |-> bits(ty.ch[i])], Len(ty.ch))

RECURSIVE np_bits(_, _)
np_bits(ty, fromInt) ==
  IF isAgg(ty)
  THEN IF ty.ch = <<>> THEN 1
       ELSE SumTo([i \in DOMAIN ty.ch |-> np_bits(ty.ch[i], fromInt)], Len(ty.ch))
  ELSE IF ~fromInt \/ ty.k = "ptr" THEN 1
  ELSE Smaller(ty.w, divide_up(ty.w * bits_poison_per_byte, bits_byte))

numElements(ty)         == Len(ty.ch)
countPaddings(ty, to)   == Cardinality({i \in 1..to : ty.pad[i]})
numElementsExcludingPadding(ty) == Len(ty.ch) - countPaddings(ty, Len(ty.ch))

Concat(a, b, wb) == a * 2^wb + b        \* b is wb bits wide

(***************************************************************************)
(* Aggregates: building one, taking element i (1-based), replacing it.     *)
(***************************************************************************)
\* Padding is poison; vals holds the other elements.
aggregateVals(ty, vals) ==
  IF ty.ch = <<>> THEN SV(0, 0)
  ELSE LET el(i) == IF ty.pad[i] THEN SV(0, 0) ELSE vals[i - countPaddings(ty, i)]
       IN  FoldLeftDomain(
             LAMBDA acc, i : SV(Concat(acc.v, el(i).v, bits(ty.ch[i])),
                                Concat(acc.np, el(i).np, np_bits(ty.ch[i], FALSE))),
             SV(0, 0), ty.ch)

\* Type::fromInt on the non-poison bits: any clear bit poisons the whole value.
fromIntScalar(ty, x) == SV(x.v, BoolBit(x.np = Ones(np_bits(ty, TRUE))))

extract(ty, x, i) ==
  LET before  == SumTo([j \in DOMAIN ty.ch |-> bits(ty.ch[j])], i - 1)
      beforeN == SumTo([j \in DOMAIN ty.ch |-> np_bits(ty.ch[j], FALSE)], i - 1)
      h == bits(ty) - before
      hn == np_bits(ty, FALSE) - beforeN
  IN  SV(BitsOf(x.v, h - 1, h - bits(ty.ch[i])),
         BitsOf(x.np, hn - 1, hn - np_bits(ty.ch[i], FALSE)))

\* Mutant: the byte order is forgotten.
extractIntBig(ty, x, i) == LET e == extract(ty, x, i) IN fromIntScalar(ty.ch[i], e)
\* extract(..., fromInt = true): the layout of an integer of the same size.
extractInt(ty, x, i) ==
  LET before  == SumTo([j \in DOMAIN ty.ch |-> bits(ty.ch[j])], i - 1)
      beforeN == SumTo([j \in DOMAIN ty.ch |-> np_bits(ty.ch[j], TRUE)], i - 1)
      b == bits(ty.ch[i])  n == np_bits(ty.ch[i], TRUE)
      l == IF little_endian THEN before ELSE bits(ty) - before - b
      ln == IF little_endian THEN beforeN ELSE np_bits(ty, TRUE) - beforeN - n
  IN  fromIntScalar(ty.ch[i], SV(BitsOf(x.v, l + b - 1, l), BitsOf(x.np, ln + n - 1, ln)))

Elements(ty, x) == [i \in 1..Len(ty.ch) |-> extract(ty, x, i)]

\* VectorType::extract and update with a computed index (0-based), by shifts.
ShiftLeft(x, n, w) == IF n >= w THEN 0 ELSE (x * 2^n) % 2^w
\* The bit position of element idx in a vector of w bits, computed in w bits.
Position(idx, e, w) == ((idx % 2^w) * e) % 2^w
vecExtract(ty, x, idx) ==
  LET get(y, e, w) == BitsOf(ShiftLeft(y, Position(idx, e, w), w), w - 1, w - e)
  IN  SV(get(x.v, bits(ty.ch[1]), bits(ty)),
         get(x.np, np_bits(ty.ch[1], FALSE), np_bits(ty, FALSE)))
\* Mutant: the old element is not cleared.
vecUpdateOr(ty, x, val, idx) ==
  LET put(old, new, e, w) == old + ((new * 2^(w - e)) \div 2^Position(idx, e, w))
  IN  SV(put(x.v, val.v, bits(ty.ch[1]), bits(ty)),
         put(x.np, val.np, np_bits(ty.ch[1], FALSE), np_bits(ty, FALSE)))
vecUpdate(ty, x, val, idx) ==
  LET put(old, new, e, w) ==
        LET s == Position(idx, e, w)
            l == IF s > w - e THEN 0 ELSE w - e - s
        IN  IF s >= w THEN old
            ELSE old - BitsOf(old, w - 1 - s, l) * 2^l + ((new * 2^(w - e)) \div 2^s)
  IN  IF Len(ty.ch) = 1 THEN val
      ELSE SV(put(x.v, val.v, bits(ty.ch[1]), bits(ty)),
              put(x.np, val.np, np_bits(ty.ch[1], FALSE), np_bits(ty, FALSE)))

(***************************************************************************)
(* Values as the integer a bitcast sees, and back.                         *)
(***************************************************************************)
toIntScalar(ty, x) == SV(x.v, IF x.np = 1 THEN Ones(np_bits(ty, TRUE)) ELSE 0)
toInt(ty, x) ==
  IF ~isAgg(ty) THEN toIntScalar(ty, x)
  ELSE LET el(i) == toIntScalar(ty.ch[i], extract(ty, x, i))
           join(acc, i) ==
             IF little_endian
             THEN [w |-> acc.w + bits(ty.ch[i]), n |-> acc.n + np_bits(ty.ch[i], TRUE),
                   v |-> Concat(el(i).v, acc.v, acc.w),
                   np |-> Concat(el(i).np, acc.np, acc.n)]
             ELSE [w |-> acc.w + bits(ty.ch[i]), n |-> acc.n + np_bits(ty.ch[i], TRUE),
                   v |-> Concat(acc.v, el(i).v, bits(ty.ch[i])),
                   np |-> Concat(acc.np, el(i).np, np_bits(ty.ch[i], TRUE))]
           all == FoldLeftDomain(join, [w |-> 0, n |-> 0, v |-> 0, np |-> 0], ty.ch)
       IN  SV(all.v, all.np)
fromInt(ty, x) ==
  IF ~isAgg(ty) THEN fromIntScalar(ty, x)
  ELSE aggregateVals(ty, [i \in 1..Len(ty.ch) |-> extractInt(ty, x, i)])

(***************************************************************************)
(* Instructions work on every lane of a vector.  Their encoding uses fresh *)
(* nondeterministic variables, so a result is a set of outcomes: a value   *)
(* and whether the program is still well defined.                          *)
(***************************************************************************)
Out(sv, wd)     == [sv |-> sv, wd |-> wd]
Elem(ty, x, i)  == IF isVec(ty) THEN extract(ty, x, i) ELSE x
ElemTy(ty, i)   == IF isVec(ty) THEN ty.ch[i] ELSE ty
Picks(sets)   == FoldLeft(LAMBDA acc, S : {Append(s, x) : s \in acc, x \in S}, {<<>>}, sets)
\* F(i) is the set of outcomes of lane i of an operation on operands of type ty.
Lanes(ty, retty, F(_)) ==
  IF ~isVec(ty) THEN F(1)
  ELSE {Out(aggregateVals(retty, [i \in DOMAIN c |-> c[i].sv]), \A i \in DOMAIN c : c[i].wd) :
          c \in Picks([i \in 1..Len(ty.ch) |-> F(i)])}

(***************************************************************************)
(* Refinement of a value of type ty: the poison part and the value part.   *)
(***************************************************************************)
RECURSIVE refines(_, _, _)
refines(ty, src, tgt) ==
  IF isAgg(ty)
  THEN LET r(i) == refines(ty.ch[i], extract(ty, src, i), extract(ty, tgt, i))
       IN  <<\A i \in 1..Len(ty.ch) : r(i)[1], \A i \in 1..Len(ty.ch) : r(i)[2]>>
  ELSE IF ty.k = "void" THEN <<TRUE, TRUE>>
  ELSE <<src.np = 1 => tgt.np = 1, (src.np = 1 /\ tgt.np = 1) => src.v = tgt.v>>
Refined(ty, src, tgt) == refines(ty, src, tgt) = <<TRUE, TRUE>>

\* The values an undef of type ty may take: every one, element by element.
mkUndef(ty) == IF isAgg(ty) /\ ty.ch = <<>> THEN {SV(0, 0)}
               ELSE {SV(v, Ones(np_bits(ty, FALSE))) : v \in 0..Ones(bits(ty))}

(***************************************************************************)
(* What the type constraints of the instructions ask of a type.            *)
(***************************************************************************)
enforceIntType(ty, w)  == ty.k = "int" /\ (w = 0 \/ ty.w = w)
enforceFloatType(ty)   == ty.k = "float"
enforcePtrType(ty)     == ty.k = "ptr"
enforceVectorType(ty, P(_)) == ty.k = "vector" /\ P(ty.ch[1])
enforceScalarOrVectorType(ty, P(_)) == P(ty) \/ enforceVectorType(ty, P)
enforceIntOrVectorType(ty, w) ==
  enforceScalarOrVectorType(ty, LAMBDA t : enforceIntType(t, w))
enforceFloatOrVectorType(ty) == enforceScalarOrVectorType(ty, enforceFloatType)
enforcePtrOrVectorType(ty)   == enforceScalarOrVectorType(ty, enforcePtrType)
enforceIntOrPtrOrVectorType(ty) ==
  enforceScalarOrVectorType(ty, LAMBDA t : t.k \in {"int", "ptr"})
enforceIntOrFloatOrPtrOrVectorType(ty) ==
  enforceScalarOrVectorType(ty, LAMBDA t : t.k \in {"int", "ptr", "float"})
enforceVectorTypeIff(ty, other) ==
  isVec(other) => isVec(ty) /\ Len(ty.ch) = Len(other.ch)
enforceVectorTypeEquiv(ty, other) ==
  enforceVectorTypeIff(ty, other) /\ enforceVectorTypeIff(other, ty)
enforceVectorTypeSameChildTy(ty, other) ==
  isAgg(ty) /\ isAgg(other) /\ ty.ch[1] = other.ch[1]
enforceStructType(ty) == ty.k = "struct"
scalarSize(ty)        == IF isVec(ty) THEN bits(ty.ch[1]) ELSE bits(ty)

\* The constraints of the type itself.
getTypeConstraints(ty) ==
  CASE ty.k = "int"    -> ty.w # 0
    [] ty.k = "vector" -> /\ Len(ty.ch) # 0
                          /\ ty.ch[1].k \in {"int", "float", "ptr"}
                          /\ \A i \in 2..Len(ty.ch) : ty.ch[i] = ty.ch[1]
    [] OTHER           -> TRUE

RECURSIVE hasPtr(_)
hasPtr(ty) == ty.k = "ptr" \/ \E i \in DOMAIN ty.ch : hasPtr(ty.ch[i])
isNonPtrVector(ty) == isVec(ty) /\ ty.ch[1].k # "ptr"
=============================================================================
