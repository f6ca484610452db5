------------------------------ MODULE InstrSpec ------------------------------
(***************************************************************************)
(* The encoder applied to one instruction of a well-typed program: an      *)
(* instruction of Catalog is chosen whose types satisfy its constraints,   *)
(* its operands get values, poison or not, and toSMT gives its outcomes.   *)
(***************************************************************************)
EXTENDS Instr

CONSTANTS Catalog,        \* instructions
          TriedValues(_), \* the values tried for a scalar type
          Envs(_)         \* the environments tried for an instruction

VARIABLES ins, args, env, outs
vars == <<ins, args, env, outs, little_endian>>

None == [cls |-> "none"]
\* The values of a scalar; a poison one has a value too, as in a StateValue.
Scalars(ty) == {SV(v, 1) : v \in TriedValues(ty)} \cup {SV(0, 0)}
RECURSIVE Values(_)
Values(ty) ==
  IF ~isAgg(ty) THEN Scalars(ty)
  ELSE LET live == SelectSeq([k \in DOMAIN ty.ch |-> k], LAMBDA k : ~ty.pad[k])
       IN  {aggregateVals(ty, p) : p \in Picks([j \in DOMAIN live |-> Values(ty.ch[live[j]])])}
Operands(i) == Picks([k \in DOMAIN i.tys |-> Values(i.tys[k])])

Init == ins = None /\ args = <<>> /\ env = None /\ outs = {} /\ little_endian \in BOOLEAN

\* Instructions that do not type are never encoded; the mask of is.fpclass
\* and the scale of a fixed-point product are constants.
Constant(i, k) == \/ i.cls = "TestOp" /\ k = 2
                  \/ i.cls = "TernaryOp" /\ i.op # "FShl" /\ i.op # "FShr" /\ k = 3
ChooseInstr ==
  /\ ins = None
  /\ \E i \in Catalog : typing(i) /\ ins' = i /\ env' \in Envs(i)
  /\ UNCHANGED <<args, outs, little_endian>>
ChooseOperands ==
  /\ ins # None /\ args = <<>>
  /\ \E a \in Operands(ins) :
       /\ \A k \in DOMAIN a : Constant(ins, k) => a[k].np = 1
       /\ args' = a
       /\ outs' = toSMT(ins, a, env)
  /\ UNCHANGED <<ins, env, little_endian>>
Next == ChooseInstr \/ ChooseOperands
Spec == Init /\ [][Next]_vars

(***************************************************************************)
(* Properties.                                                             *)
(***************************************************************************)
Done == args # <<>>

\* The encoding of an instruction has an outcome, and every outcome is a
\* value of the result type with as many value bits and non-poison bits as
\* the type has.
TypeOK ==
  Done => /\ outs # {}
          /\ \A o \in outs : /\ o.sv.v \in 0..Ones(bits(ins.ty))
                             /\ o.sv.np \in 0..Ones(np_bits(ins.ty, FALSE))
                             /\ o.wd \in BOOLEAN

\* The operands that refine the chosen ones: poison elements may be anything.
RECURSIVE RefinedBy(_, _)
RefinedBy(ty, x) ==
  IF isAgg(ty)
  THEN LET live == SelectSeq([k \in DOMAIN ty.ch |-> k], LAMBDA k : ~ty.pad[k])
       IN  {aggregateVals(ty, p) :
              p \in Picks([j \in DOMAIN live |-> RefinedBy(ty.ch[live[j]], extract(ty, x, live[j]))])}
  ELSE IF x.np = 1 THEN {x} ELSE Scalars(ty)

\* Replacing an operand by a more defined one gives no new behaviour: the
\* refinement check of a function relies on this for every instruction a
\* replaced value flows into (poison, undefined behaviour and fast-math
\* flags included).
Monotone ==
  Done => \A b \in Picks([k \in DOMAIN args |->
                            IF Constant(ins, k) THEN {args[k]} ELSE RefinedBy(ins.tys[k], args[k])]) :
            b = args \/
            \A r \in toSMT(ins, b, env) :
              \E o \in outs : ~o.wd \/ (r.wd /\ Refined(ins.ty, o.sv, r.sv))

\* State::getAndAddPoisonUB walks back over propagatesPoison instructions and
\* takes their operands as non-poison once the result is: a result without
\* poison (and no undefined behaviour) needs operands without poison.
PoisonPropagates ==
  Done /\ propagatesPoison(ins) =>
    \A o \in outs : o.wd /\ o.sv.np = Ones(np_bits(ins.ty, FALSE)) =>
      \A k \in DOMAIN args : args[k].np = Ones(np_bits(ins.tys[k], FALSE))

\* Preprocessing removes unused instructions without side effects: those
\* can never be undefined.
RemovableIsDefined ==
  Done /\ ~hasSideEffects(ins) => \A o \in outs : o.wd

(***************************************************************************)
(* Reference results of the operations the encoder builds from others.     *)
(***************************************************************************)
Real(x, f) == ~isNaN(x, f) /\ ~isInf(x, f)
\* The remainder of C's fmod, as a number of units.
FModUnits(x, y, f) ==
  LET r == Mag(Val(x, f)) % Mag(Val(y, f)) IN IF Sign(x, f) = 1 THEN -r ELSE r
Clamp(x, f, w, signed) ==
  LET lo == IF signed THEN -(2^(w - 1)) ELSE 0
      hi == IF signed THEN 2^(w - 1) - 1 ELSE 2^w - 1
  IN  IF isNaN(x, f) THEN 0 ELSE IF isInf(x, f) THEN (IF Sign(x, f) = 1 THEN lo ELSE hi)
      ELSE Clip(TDiv(Val(x, f), One(f)), lo, hi)
FpResult(o) ==
  LET f == fractionBits(ins.tys[1])  x == args[1].v  r == o.sv.v
  IN  CASE ins.op = "FRem" ->
             IF Real(x, f) /\ ~isNaN(args[2].v, f) /\ ~isFPZero(args[2].v, f)
             THEN Sign(r, f) = Sign(x, f) /\
                  Val(r, f) = IF isInf(args[2].v, f) THEN Val(x, f) ELSE FModUnits(x, args[2].v, f)
             ELSE isNaN(r, f)
        [] ins.op \in {"FPToSInt_Sat", "FPToUInt_Sat"} ->
             r = Clamp(x, f, ins.ty.w, ins.op = "FPToSInt_Sat") % 2^ins.ty.w
        [] ins.op = "FrExp" ->
             LET m == extract(ins.ty, o.sv, 1).v
                 e == extract(ins.ty, o.sv, 2).v
                 n == SVal(e, ins.ty.ch[2].w)
             IN  IF ~Real(x, f) THEN isNaN(x, f) = isNaN(m, f)
                 ELSE /\ Sign(m, f) = Sign(x, f)
                      /\ IF n >= 0 THEN Val(m, f) * 2^n = Val(x, f) ELSE Val(m, f) = Val(x, f) * 2^(-n)
                      /\ isFPZero(x, f) \/ (2 * Mag(Val(m, f)) >= One(f) /\ Mag(Val(m, f)) < One(f))
        [] OTHER -> TRUE

\* With IEEE denormals, no flags and no poison: frem is C's fmod, a saturating
\* conversion is the clamp of the truncated value, and frexp splits a number
\* into a fraction in [1/2, 1) and an exponent whose product it is.
FpReferences ==
  (/\ Done /\ ins.cls \in {"FpBinOp", "FpConversionOp", "FpUnaryOpVerticalZip"} /\ ins.fl = {}
   /\ ~isAgg(ins.tys[1]) /\ env.din = "IEEE" /\ env.dout = "IEEE" /\ AllNP(args)) =>
     \A o \in outs : o.sv.np = Ones(np_bits(ins.ty, FALSE)) => FpResult(o)

\* What goes through memory or a bitcast comes back: a value survives the
\* integer of its size in either byte order, elements included, and loses at
\* most definedness; an element inserted is the one extracted, and the others
\* keep their value.
IntAndBack(ty, x) == fromInt(ty, toInt(ty, x))
OtherKept(v, o, idxs) ==
  \A k \in DOMAIN ins.ty.ch : k # idxs[1] /\ ~ins.ty.pad[k] =>
     extract(ins.ty, o, k) = extract(ins.ty, v, k)
LayoutKept ==
  Done =>
    /\ ins.cls = "ConversionOp" /\ ins.op = "BitCast" =>
         LET back == IntAndBack(ins.tys[1], args[1])
         IN  /\ Refined(ins.tys[1], back, args[1])
             /\ ~isAgg(ins.tys[1]) => back.np = args[1].np
             /\ args[1].np = Ones(np_bits(ins.tys[1], FALSE)) => back = args[1]
    /\ ins.cls = "InsertValue" =>
         \A o \in outs : /\ ExtractValue_toSMT([ins EXCEPT !.cls = "ExtractValue"], <<o.sv>>) = {Out(args[2], TRUE)}
                         /\ OtherKept(args[1], o.sv, ins.x)
    /\ ins.cls = "InsertElement" /\ args[3].v < Len(ins.ty.ch) /\ args[3].np = 1 =>
         \A o \in outs : /\ extract(ins.ty, o.sv, args[3].v + 1) = args[2]
                         /\ OtherKept(args[1], o.sv, <<args[3].v + 1>>)
    /\ ins.cls = "ExtractElement" /\ args[2].v < Len(ins.tys[1].ch) /\ args[2].np = 1 =>
         \A o \in outs : o.sv.np = 1 => o.sv = extract(ins.tys[1], args[1], args[2].v + 1)
=============================================================================
