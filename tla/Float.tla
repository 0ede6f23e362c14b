-------------------------------- MODULE Float --------------------------------
(***************************************************************************)
(* How the ppc comparison looks at a floating point register: the          *)
(* predicates and the exponent(), mantissa() and normalize() functions of  *)
(* src/risu_reginfo_ppc64.c, on bit patterns of any format.  The code has  *)
(* EXP = 11, FRAC = 52 for a double and SEXP = 8, SFRAC = 23 for a float.  *)
(***************************************************************************)
EXTENDS Integers

CONSTANTS EXP, FRAC,     \* exponent and fraction bits of a double
          SEXP, SFRAC    \* and of a float

ASSUME FormatAssumption ==
  /\ SEXP \in Nat /\ SEXP >= 3 /\ EXP \in Nat /\ EXP > SEXP
  /\ SFRAC \in Nat \ {0} /\ FRAC \in Nat /\ FRAC > SFRAC

SignBit == 2 ^ (EXP + FRAC)          \* 1LL << 63
Float == 0 .. 2 * SignBit - 1        \* uint64_t
Hidden == 2 ^ FRAC                   \* 1LL << 52
INF == (2 ^ EXP - 1) * Hidden        \* 0x7ff0000000000000
QNAN == INF + Hidden \div 2          \* 0x7ff8000000000000

Magnitude(n) == n % SignBit          \* n & ~(1LL << 63)
Field(n) == Magnitude(n) \div Hidden \* (n >> 52) & 0x7ff
Fraction(n) == n % Hidden            \* n & ((1LL << 52) - 1)

denormalized(n) == Field(n) = 0 /\ Magnitude(n) # 0
zero(n) == Magnitude(n) = 0
signz(n) == n - Magnitude(n)
signinf(n) == signz(n) + INF
negative(n) == n >= SignBit
infinite(n) == Magnitude(n) = INF

is_nan(n) == Magnitude(n) > INF
isqnan(n) == Magnitude(n) = QNAN

\* (Mutant: every NaN, and an infinity, is quiet.)
anyqnan_Infinite(n) == Magnitude(n) >= INF

anyqnan(n) == Magnitude(n) >= QNAN
neganyqnan(n) == n >= SignBit + QNAN

\* int64_t of an unsigned difference: two's complement.
Int64(x) == IF x % (2 * SignBit) >= SignBit
              THEN (x % (2 * SignBit)) - 2 * SignBit ELSE x % (2 * SignBit)

\* The numbers of the code that come from the two formats.
Bias == 2 ^ (EXP - 1) - 1            \* 1023
DMIN == 1 - Bias                     \* -1022
SBIG == 2 ^ (SEXP - 1) - 2           \* 126
SMIN == -SBIG                        \* -126
SADJUST == 3 * 2 ^ (SEXP - 2)        \* 192
DADJUST == 3 * 2 ^ (EXP - 2)         \* 1536
FAR == 2 ^ (EXP + 1)                 \* 4096
SULP == 2 ^ (FRAC - SFRAC)           \* 0x20000000
FLT_MIN == (Bias + SMIN) * Hidden
FLT_MAX == (Bias + SBIG + 2) * Hidden - SULP

\* How often the loops of exponent and normalize shift a denormalized
\* number's fraction before it reaches the hidden bit.
Shifts(n) == CHOOSE k \in 0 .. FRAC : Fraction(n) * 2 ^ k \in Hidden .. 2 * Hidden - 1

\* (Mutant: the loop counts up.)
exponent_Up(n) ==
  IF zero(n) THEN -FAR
  ELSE IF Field(n) = 2 ^ EXP - 1 THEN FAR
  ELSE IF Field(n) = 0 THEN Shifts(n) - Bias
  ELSE Field(n) - Bias

exponent(n) ==
  IF zero(n) THEN -FAR
  ELSE IF Field(n) = 2 ^ EXP - 1 THEN FAR
  ELSE IF Field(n) = 0 THEN -Shifts(n) - Bias
  ELSE Field(n) - Bias

mantissa(n) == Fraction(n) + IF Field(n) = 0 THEN Hidden ELSE 0

normalize(n) ==
  IF ~denormalized(n) THEN n
  ELSE signz(n) + (DADJUST + 1 - Shifts(n)) * Hidden
         + Fraction(Fraction(n) * 2 ^ Shifts(n))
=============================================================================
