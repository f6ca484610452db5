------------------------------- MODULE MCInstr -------------------------------
(* An instance of InstrSpec for TLC. *)
EXTENDS InstrSpec

I(cls, op, ty, tys, fl, rm, x) ==
  [cls |-> cls, op |-> op, ty |-> ty, tys |-> tys, fl |-> fl, rm |-> rm, x |-> x]
i1 == IntTy(1)
i2 == IntTy(2)
i3 == IntTy(3)
i4 == IntTy(4)
v2 == Vec(2, i2)
b2 == Vec(2, i1)
F2 == Float(2)
F3 == Float(3)
vF == Vec(2, F2)
NP1 == Struct(<<i2, i1>>, <<FALSE, FALSE>>)
SP  == Struct(<<i2, i1, i1>>, <<FALSE, TRUE, FALSE>>)
BinOps == BinOp.ops \ (OverflowOps \cup {"Abs", "Cttz", "Ctlz", "UCmp", "SCmp"})

MCCatalog ==
  {I("BinOp", op, i3, <<i3, i3>>, {}, "default", 0) : op \in BinOps} \cup
  {I("BinOp", op, i3, <<i3, i3>>, fl, "default", 0) : op \in {"Add", "Sub", "Mul", "Shl"}, fl \in {{"nsw"}, {"nuw"}}} \cup
  {I("BinOp", op, i3, <<i3, i3>>, {"exact"}, "default", 0) : op \in {"SDiv", "UDiv", "AShr", "LShr"}} \cup
  {I("BinOp", "Or", i3, <<i3, i3>>, {"disjoint"}, "default", 0)} \cup
  {I("BinOp", op, i3, <<i3, i1>>, {}, "default", 0) : op \in {"Abs", "Cttz", "Ctlz"}} \cup
  {I("BinOp", op, i2, <<i3, i3>>, {}, "default", 0) : op \in {"UCmp", "SCmp"}} \cup
  {I("BinOp", op, v2, <<v2, v2>>, {}, "default", 0) : op \in {"Add", "UDiv"}} \cup
  {I("BinOp", op, ty, <<i2, i2>>, {}, "default", 0) : op \in OverflowOps, ty \in {NP1, SP}} \cup
  {I("UnaryOp", op, i4, <<i4>>, {}, "default", x) : op \in UnaryOp.ops, x \in {0}} \cup
  {I("UnaryOp", "IsConstant", i1, <<i3>>, {}, "default", x) : x \in 0..1} \cup
  {I("UnaryReductionOp", op, i2, <<v2>>, {}, "default", 0) : op \in UnaryReductionOp.ops} \cup
  {I("TernaryOp", op, i2, <<i2, i2, i2>>, {}, "default", 2) : op \in TernaryOp.ops} \cup
  {I("TernaryOp", "ObjectSize", i2, <<Ptr, i1, i1>>, {}, "default", 0)} \cup
  {I("ConversionOp", op, t[1], <<t[2]>>, fl, "default", 0) :
     op \in ConversionOp.ops, fl \in {{}, {"nneg"}, {"nuw"}, {"nsw"}},
     t \in {<<i4, i2>>, <<i2, i4>>, <<i4, v2>>, <<v2, i4>>, <<F2, v2>>, <<IntTy(6), F2>>, <<i3, Ptr>>, <<Ptr, i2>>,
            <<v2, b2>>, <<Ptr, Ptr>>}} \cup
  {I("ICmp", op, i1, <<ty, ty>>, fl, "default", x) :
     op \in ICmp.ops, ty \in {i2, Ptr}, fl \in {{}, {"samesign"}}, x \in {"INTEGRAL"}} \cup
  {I("ICmp", op, i1, <<Ptr, Ptr>>, {}, "default", x) : op \in {"EQ", "ULT"}, x \in {"PROVENANCE", "OFFSETONLY"}} \cup
  {I("ICmp", "ULT", b2, <<v2, v2>>, {}, "default", "INTEGRAL")} \cup
  {I("Select", "select", t[1], <<t[2], t[1], t[1]>>, {}, "default", 0) :
     t \in {<<i2, i1>>, <<b2, b2>>, <<b2, i1>>, <<F2, i1>>}} \cup
  {I("Select", "select", F2, <<i1, F2, F2>>, {"nnan"}, "default", 0)} \cup
  {I("Freeze", "freeze", ty, <<ty>>, {}, "default", 0) : ty \in {i3, v2, SP, Ptr}} \cup
  {I("ExtractValue", "extractvalue", ty, <<SP>>, {}, "default", <<k>>) : ty \in {i1, i2}, k \in 1..3} \cup
  {I("InsertValue", "insertvalue", SP, <<SP, ty>>, {}, "default", <<k>>) : ty \in {i1, i2}, k \in {1, 3}} \cup
  {I("InsertValue", "insertvalue", Array(2, b2, Void), <<Array(2, b2, Void), i1>>, {}, "default", <<2, k>>) : k \in 1..2} \cup
  {I("ExtractElement", "extractelement", i1, <<Vec(3, i1), i3>>, {}, "default", 0)} \cup
  {I("InsertElement", "insertelement", Vec(n, i1), <<Vec(n, i1), i1, i3>>, {}, "default", 0) : n \in {1, 3}} \cup
  {I("ShuffleVector", "shufflevector", Vec(Len(m), i1), <<b2, b2>>, {}, "default", m) : m \in {<<0, 3, 2>>, <<1, 4>>}}

MCFpCatalog ==
  {I("FpBinOp", op, F2, <<F2, F2>>, fl, "default", 0) : op \in FpBinOp.ops, fl \in {{}, {"nnan", "ninf", "nsz"}}} \cup
  {I("FpBinOp", op, F2, <<F2, F2>>, {}, rm, 0) : op \in {"FAdd", "FMul", "FRem"}, rm \in {"dynamic", "rtp"}} \cup
  {I("FpUnaryOp", op, F2, <<F2>>, fl, rm, 0) : op \in FpUnaryOp.ops, fl \in {{}, {"nnan"}}, rm \in {"default", "dynamic"}} \cup
  {I("FpUnaryOp", "Sqrt", F2, <<F2>>, {"afn"}, "default", 0)} \cup
  {I("FpUnaryOpVerticalZip", "FrExp", Struct(<<F2, i4>>, <<FALSE, FALSE>>), <<F2>>, {}, "default", 4)} \cup
  {I("FpUnaryReductionOp", op, F2, <<vF>>, {}, "default", 0) : op \in FpUnaryReductionOp.ops} \cup
  {I("FpTernaryOp", op, Float(1), <<Float(1), Float(1), Float(1)>>, {}, "default", 0) : op \in FpTernaryOp.ops} \cup
  {I("TestOp", "Is_FPClass", i1, <<F2, IntTy(10)>>, {}, "default", 10)} \cup
  {I("FpConversionOp", op, t[1], <<t[2]>>, {}, "default", 0) : op \in FpConversionOp.ops,
     t \in {<<F2, i3>>, <<i3, F2>>, <<F2, F3>>, <<F3, F2>>}} \cup
  {I("FCmp", op, i1, <<F2, F2>>, fl, "default", 0) : op \in FCmp.ops, fl \in {{}, {"nnan"}}}
MCAll == MCCatalog \cup MCFpCatalog

\* +-0, a subnormal, 1, -1.5, the largest number, both infinities, a
\* signalling and a quiet NaN; masks of is.fpclass are 10 bits wide.
MCTriedValues(ty) ==
  IF ty.k # "float" THEN IF ty.w < 10 THEN 0..Ones(ty.w) ELSE {2^b : b \in 0..9} \cup {3, 96, 1023}
  ELSE LET f == fractionBits(ty)
       IN  IF f = 1 THEN {0, Zero(1, f), 7, InfMag(f), MkNaN(f)}
           ELSE {0, Zero(1, f), 1, 3 * 2^f, Pack(1, 3 * 2^f + 2^(f - 1), f), InfMag(f) - 1,
                 InfMag(f), Pack(1, InfMag(f), f), InfMag(f) + 1, MkNaN(f)}
MCptr == [p \in 0..3 |-> [addr |-> <<0, 2, 3, 7>>[p + 1], off |-> <<0, 0, 1, 1>>[p + 1], left |-> 3 - p]]
MCenv(rm, dm, din, dout) ==
  [rm |-> rm, dmode |-> dm, din |-> din, dout |-> dout, qnan |-> 1, ptr |-> MCptr,
   int2ptr |-> [n \in 0..7 |-> n % 4], cond |-> "SLT"]
MCIeee == MCenv("rne", "IEEE", "IEEE", "IEEE")
MCEnvs(i) ==
  IF i \in MCFpCatalog /\ i.cls \in {"FpUnaryOp", "FpBinOp"} /\ i.fl = {}
  THEN {MCIeee, MCenv("rtp", "PreserveSign", "Dynamic", "PositiveZero")}
  ELSE {MCIeee}
=============================================================================
