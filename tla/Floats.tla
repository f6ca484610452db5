------------------------------- MODULE Floats -------------------------------
(***************************************************************************)
(* The floating-point layer under the instructions: what the functions of  *)
(* src/smt/expr.cpp that build Z3 floating-point terms stand for, on small *)
(* IEEE formats.  A float is its bit pattern: a sign bit, ExpBits bits of  *)
(* exponent and f bits of fraction.  Magnitudes are counted in units of    *)
(* the smallest subnormal number.                                          *)
(***************************************************************************)
EXTENDS Integers, FiniteSets

CONSTANT ExpBits     \* exponent bits of every format

Bias         == 2^(ExpBits - 1) - 1
Sign(x, f)   == x \div 2^(ExpBits + f)
Exp(x, f)    == (x \div 2^f) % 2^ExpBits
Frac(x, f)   == x % 2^f
FBits(f)     == 1 + ExpBits + f
Pack(s, m, f) == s * 2^(ExpBits + f) + m          \* m: exponent and fraction
InfMag(f)    == (2^ExpBits - 1) * 2^f
MkNaN(f)     == InfMag(f) + 2^(f - 1)
Zero(s, f)   == Pack(s, 0, f)

isNaN(x, f)         == Exp(x, f) = 2^ExpBits - 1 /\ Frac(x, f) # 0
isInf(x, f)         == Exp(x, f) = 2^ExpBits - 1 /\ Frac(x, f) = 0
isFPZero(x, f)      == x % 2^(ExpBits + f) = 0
isFPNegative(x, f)  == Sign(x, f) = 1 /\ ~isNaN(x, f)
isFPSubNormal(x, f) == Exp(x, f) = 0 /\ Frac(x, f) # 0
isFPNormal(x, f)    == Exp(x, f) \in 1..(2^ExpBits - 2)

fabs(x, f)        == x % 2^(ExpBits + f)
fneg(x, f)        == Pack(1 - Sign(x, f), fabs(x, f), f)
copysign(x, y, f) == Pack(Sign(y, f), fabs(x, f), f)

\* The units in the magnitude with bit pattern m, infinity counting as the
\* next power of two; the unit itself is 1 / One(f).
Units(m, f) == IF m \div 2^f = 0 THEN m
               ELSE (2^f + (m % 2^f)) * 2^(m \div 2^f - 1)
One(f)      == 2^(Bias - 1 + f)
Val(x, f)   == (IF Sign(x, f) = 1 THEN -1 ELSE 1) * Units(fabs(x, f), f)

(***************************************************************************)
(* Rounding.  The exact magnitude is given by Cmp(u, k), the sign of its   *)
(* difference with u / k units.                                            *)
(***************************************************************************)
Modes == {"rne", "rna", "rtp", "rtn", "rtz"}

Rounded(s, f, rm, Cmp(_, _)) ==
  LET lo  == CHOOSE m \in 0..(InfMag(f) - 1) :
               /\ Cmp(Units(m, f), 1) >= 0
               /\ (m + 1 = InfMag(f) \/ Cmp(Units(m + 1, f), 1) < 0)
      mid == Cmp(Units(lo, f) + Units(lo + 1, f), 2)
      up  == CASE rm = "rne" -> mid > 0 \/ (mid = 0 /\ lo % 2 = 1)
               [] rm = "rna" -> mid >= 0
               [] rm = "rtp" -> s = 0
               [] rm = "rtn" -> s = 1
               [] rm = "rtz" -> FALSE
  IN  Pack(s, IF Cmp(Units(lo, f), 1) = 0 THEN lo ELSE IF up THEN lo + 1 ELSE lo, f)

Signum(i) == IF i > 0 THEN 1 ELSE IF i < 0 THEN -1 ELSE 0
Mag(i)    == IF i < 0 THEN -i ELSE i

\* n / d units; an exact zero has sign s0.
RoundQ(n, d, s0, f, rm) ==
  IF n = 0 THEN Zero(s0, f)
  ELSE LET C(u, k) == Signum(Mag(n) * k - u * Mag(d))
       IN  Rounded(IF (n < 0) = (d < 0) THEN 0 ELSE 1, f, rm, C)

AnyNaN(x, y, f) == isNaN(x, f) \/ isNaN(y, f)
SignXor(x, y, f) == (Sign(x, f) + Sign(y, f)) % 2
\* The sign of an exact sum that is zero.
SumSign(x, y, f, rm) ==
  IF Sign(x, f) = Sign(y, f) THEN Sign(x, f) ELSE IF rm = "rtn" THEN 1 ELSE 0

fadd(x, y, f, rm) ==
  IF AnyNaN(x, y, f) \/ (isInf(x, f) /\ isInf(y, f) /\ x # y) THEN MkNaN(f)
  ELSE IF isInf(x, f) THEN x ELSE IF isInf(y, f) THEN y
  ELSE RoundQ(Val(x, f) + Val(y, f), 1, SumSign(x, y, f, rm), f, rm)

fsub(x, y, f, rm) == IF isNaN(y, f) THEN MkNaN(f) ELSE fadd(x, fneg(y, f), f, rm)

fmul(x, y, f, rm) ==
  IF AnyNaN(x, y, f) \/ (isInf(x, f) /\ isFPZero(y, f)) \/ (isInf(y, f) /\ isFPZero(x, f))
  THEN MkNaN(f)
  ELSE IF isInf(x, f) \/ isInf(y, f) THEN Pack(SignXor(x, y, f), InfMag(f), f)
  ELSE RoundQ(Val(x, f) * Val(y, f), One(f), SignXor(x, y, f), f, rm)

fdiv(x, y, f, rm) ==
  IF AnyNaN(x, y, f) \/ (isInf(x, f) /\ isInf(y, f)) \/ (isFPZero(x, f) /\ isFPZero(y, f))
  THEN MkNaN(f)
  ELSE IF isInf(x, f) \/ isFPZero(y, f) THEN Pack(SignXor(x, y, f), InfMag(f), f)
  ELSE IF isInf(y, f) THEN Zero(SignXor(x, y, f), f)
  ELSE RoundQ(Val(x, f) * One(f), Val(y, f), SignXor(x, y, f), f, rm)

fma(x, y, z, f, rm) ==
  LET p == fmul(x, y, f, rm)
      s == SignXor(x, y, f)
  IN  IF isNaN(p, f) \/ isNaN(z, f) \/ isInf(x, f) \/ isInf(y, f) \/ isInf(z, f)
      THEN IF isInf(x, f) \/ isInf(y, f) \/ isNaN(p, f) THEN fadd(p, z, f, rm)
           ELSE z
      ELSE RoundQ(Val(x, f) * Val(y, f) + Val(z, f) * One(f), One(f),
                  IF s = Sign(z, f) THEN s ELSE IF rm = "rtn" THEN 1 ELSE 0, f, rm)

\* The integer nearest to n / d, ties to even.
NearestEven(n, d) ==
  LET q == n \div d  r == n % d
  IN  IF 2 * r > d \/ (2 * r = d /\ q % 2 = 1) THEN q + 1 ELSE q

\* Z3's remainder: the quotient is rounded to the nearest integer.
frem(x, y, f) ==
  IF AnyNaN(x, y, f) \/ isInf(x, f) \/ isFPZero(y, f) THEN MkNaN(f)
  ELSE IF isInf(y, f) THEN x
  ELSE LET b == Mag(Val(y, f))
       IN  RoundQ(Val(x, f) - b * NearestEven(Val(x, f), b), 1, Sign(x, f), f, "rne")

fsqrt(x, f, rm) ==
  IF isNaN(x, f) \/ (isFPNegative(x, f) /\ ~isFPZero(x, f)) THEN MkNaN(f)
  ELSE IF isInf(x, f) \/ isFPZero(x, f) THEN x
  ELSE LET C(u, k) == Signum(Val(x, f) * One(f) * k * k - u * u)
       IN  Rounded(0, f, rm, C)

\* An integer and the sign of the value it approximates, rounded mode rm.
IntRound(n, d, s, rm) ==
  LET q == Mag(n) \div d  r == Mag(n) % d
      up == CASE rm = "rne" -> 2 * r > d \/ (2 * r = d /\ q % 2 = 1)
              [] rm = "rna" -> 2 * r >= d
              [] rm = "rtp" -> r > 0 /\ s = 0
              [] rm = "rtn" -> r > 0 /\ s = 1
              [] rm = "rtz" -> FALSE
  IN  IF up THEN q + 1 ELSE q

round(x, f, rm) ==
  IF isNaN(x, f) THEN MkNaN(f) ELSE IF isInf(x, f) THEN x
  ELSE RoundQ((IF Sign(x, f) = 1 THEN -1 ELSE 1) *
                IntRound(Val(x, f), One(f), Sign(x, f), rm) * One(f), 1, Sign(x, f), f, rm)

feq(x, y, f) == ~AnyNaN(x, y, f) /\ Val(x, f) = Val(y, f)
flt(x, y, f) == ~AnyNaN(x, y, f) /\ Val(x, f) < Val(y, f)
fle(x, y, f) == ~AnyNaN(x, y, f) /\ Val(x, f) <= Val(y, f)

int2fp(n, f, rm)     == RoundQ(n * One(f), 1, 0, f, rm)
\* Conversions to a w-bit integer; Z3 leaves the others open.
fp2int(x, f, rm, lo, hi) ==
  LET n == (IF Sign(x, f) = 1 THEN -1 ELSE 1) * IntRound(Val(x, f), One(f), Sign(x, f), rm)
  IN  IF isNaN(x, f) \/ isInf(x, f) \/ n < lo \/ n > hi THEN lo..hi ELSE {n}
float2Float(x, f, g, rm) ==
  IF isNaN(x, f) THEN MkNaN(g)
  ELSE IF isInf(x, f) THEN Pack(Sign(x, f), InfMag(g), g)
  ELSE RoundQ(Val(x, f) * One(g), One(f), Sign(x, f), g, rm)

\* expr::frexp: a fraction in [1/2, 1) and an exponent.
frexp(x, f) ==
  LET shift == CHOOSE k \in 1..f : Frac(x, f) * 2^k \in 2^f..(2^(f + 1) - 1)
      sub   == Exp(x, f) = 0
      mant  == IF sub THEN Frac(x, f) * 2^shift ELSE 2^f + Frac(x, f)
      man   == fdiv(int2fp(mant, f, "rne"), int2fp(2^(f + 1), f, "rne"), f, "rne")
  IN  IF isFPZero(x, f) THEN <<x, 0>>
      ELSE <<Pack(Sign(x, f), man, f),
             (IF sub THEN 1 - Bias - shift ELSE Exp(x, f) - Bias) + 1>>
=============================================================================
