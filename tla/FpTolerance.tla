----------------------------- MODULE FpTolerance -----------------------------
(***************************************************************************)
(* When reginfo_is_eq lets a floating point register of the apprentice     *)
(* differ from the master's (src/risu_reginfo_ppc64.c:694-1650): one       *)
(* operator per --fp_opts bit, over the instruction before the checkpoint. *)
(* An instruction is [op, rt, ra, rb, rc]; the patterns of the code demand *)
(* that a field the instruction does not use is 0.                         *)
(***************************************************************************)
EXTENDS Float

CONSTANTS
  Fpr,         \* the floating point registers
  EstSlack,    \* 1LL << 47: difference allowed to an estimate
  SingleSlack, \* 0x800000000: to a result in single precision
  DenormSlack, \* 0x800000000000: to one below the range of a float
  NormSlack,   \* 0x20000: to a denormalized result, normalized
  AbsWraps     \* undefined behaviour: what ABS(INT64_MIN) <= d is in this build

ASSUME SlackAssumption ==
  /\ Fpr \subseteq Nat
  /\ {EstSlack, SingleSlack, DenormSlack, NormSlack} \subseteq Nat
  /\ SingleSlack <= DenormSlack
  /\ AbsWraps \in BOOLEAN

Fma == {"fmadd", "fmsub", "fnmadd", "fnmsub"}
Fmas == {"fmadds", "fmsubs", "fnmadds", "fnmsubs"}
DoubleOps == {"fadd", "fsub", "fmul", "fdiv"} \cup Fma
SingleOps == {"fadds", "fsubs", "fmuls", "fdivs"} \cup Fmas
MulOps == {"fmul", "fmuls"} \cup Fma \cup Fmas
UnaryOps == {"frsp", "fres", "frsqrte"}
FpOps == DoubleOps \cup SingleOps \cup UnaryOps
LoadSingle == {"lfs", "lfsu", "lfsx", "lfsux"}

FpOpts == {"QNaN_signs", "QNaN_values", "QNaN_diffs", "QNaN_load_float",
  "NaN_operand", "opposite_inf_operands", "inf_x_0_operands", "div_zero",
  "underflow", "overflow", "round", "round_s", "rsqrt_negative",
  "rsqrt_negative_zero", "rsqrt_zero", "qnan_from_inf", "qnan_from_unknown",
  "inf_from_unknown", "zero_signs", "inf_div_inf", "QNaN_SNaN",
  "NaN_unknown_operands"}

Operands(in) == IF in.op \in Fma \cup Fmas THEN {in.ra, in.rb, in.rc}
                ELSE IF in.op \in MulOps THEN {in.ra, in.rc}
                ELSE IF in.op \in UnaryOps THEN {in.rb} ELSE {in.ra, in.rb}

Abs(x) == IF x < 0 THEN -x ELSE x
Tiny(n) == exponent(n) < SMIN
SameSign(x, y) == negative(x) = negative(y)
E(m, r) == exponent(m[r])

\* ABS((int64_t)(x - y)) <= d, for a signed and for an unsigned d.
SignedWithin(x, y, d) ==
  IF Int64(x - y) = -SignBit THEN AbsWraps ELSE Abs(Int64(x - y)) <= d
UnsignedWithin(x, y, d) == Abs(Int64(x - y)) <= d

-----------------------------------------------------------------------------
(* The rules.  m and a are the registers of the two sides, i the one that  *)
(* differs, in the previous instruction and second the one before it.      *)

QNaN_load_float(second, i, m, a) ==
  /\ second.op \in LoadSingle /\ second.rt = i
  /\ m[i] % (Hidden \div 2) = a[i] % (Hidden \div 2)
  /\ m[i] \div Hidden = a[i] \div Hidden
  /\ Fraction(m[i]) < Hidden \div 2

NaN_operand(in, i, m) ==
  /\ in.op \in FpOps \ {"fres"}
  /\ i \notin Operands(in)
  /\ \E r \in Operands(in) : is_nan(m[r])

opposite_inf_operands(in, i, m) ==
  /\ i \notin Operands(in)
  /\ \/ /\ in.op \in {"fadd", "fadds", "fsub", "fsubs"}
        /\ infinite(m[in.ra]) /\ infinite(m[in.rb])
        /\ SameSign(m[in.ra], m[in.rb]) <=> in.op \in {"fsub", "fsubs"}
     \/ /\ in.op \in Fma \cup Fmas
        /\ E(m, in.ra) + E(m, in.rc) >= 2 ^ EXP
        /\ infinite(m[in.rb])
        /\ (~SameSign(m[in.ra], m[in.rc]) <=> negative(m[in.rb]))
             <=> in.op \in {"fmsub", "fmsubs", "fnmsub", "fnmsubs"}

inf_x_0_operands(in, i, m) ==
  /\ in.op \in MulOps
  /\ i \notin {in.ra, in.rc}
  /\ \/ infinite(m[in.ra]) /\ zero(m[in.rc])
     \/ zero(m[in.ra]) /\ infinite(m[in.rc])

div_zero(in, i, m) ==
  in.op \in {"fdiv", "fdivs", "fres"} /\ in.rb # i /\ zero(m[in.rb])

\* Both results are small, or one is zero.
UnderflowTiny(in, i, m, a) ==
  LET faint == SameSign(a[i], m[i]) /\ Tiny(a[i])
      sums == {"fadds", "fsubs"}
  IN
  \/ in.op \in SingleOps \cup {"frsp", "fres"} /\ Magnitude(m[i]) < FLT_MIN /\ faint
  \/ /\ in.op \in Fmas \cup {"fmuls"} /\ faint
     /\ i \in {in.ra, in.rc} \/ E(m, in.ra) + E(m, in.rc) < SMIN
  \/ /\ in.op = "fdivs" /\ faint
     /\ i \in {in.ra, in.rb} \/ E(m, in.ra) - E(m, in.rb) <= SMIN
  \/ /\ in.op = "frsp" /\ faint
     /\ E(m, in.rb) < IF in.rb # i THEN SMIN ELSE SMIN + SADJUST
  \/ /\ in.op \in {"fmadd", "fnmadd", "fnmsub", "fsub", "fadd"}
     /\ m[i] = signz(a[i]) /\ exponent(a[i]) < DMIN
  \/ in.op \in sums /\ m[i] = signz(a[i]) /\ Tiny(a[i])
  \/ in.op \in sums /\ faint /\ \A r \in {in.ra, in.rb} : r = i \/ E(m, r) < SMIN
  \/ in.op \in sums /\ faint /\ Abs(E(m, i) - E(a, i) - SADJUST) <= 1

\* The operands say that the result is small, or the target is an operand and
\* their values are gone.
UnderflowOperands(in, i, m, a) ==
  LET sum == E(m, in.ra) + E(m, in.rc)
      diff == E(m, in.ra) - E(m, in.rb)
      gone == a[i] = signz(m[i])
  IN
  \/ /\ in.op \in Fma \cup {"fmul"} /\ i \notin {in.ra, in.rc} /\ sum < DMIN
     /\ Tiny(a[i]) \/ (m[i] = signz(a[i]) /\ denormalized(a[i]))
  \/ /\ in.op = "fmul" /\ i \in {in.ra, in.rc}
     /\ Tiny(a[i]) /\ E(m, in.ra) < 2 ^ (EXP - 2)
  \/ /\ in.op = "fdiv" /\ i \notin {in.ra, in.rb} /\ diff < DMIN
     /\ gone \/ (SameSign(a[i], m[i]) /\ denormalized(a[i]))
  \/ in.op = "fdiv" /\ in.ra # i /\ in.rb = i /\ gone /\ E(a, in.ra) < SMIN
  \/ in.op \in {"fdiv", "fdivs"} /\ in.ra = i /\ in.rb # i /\ gone
  \/ /\ in.op = "fdiv" /\ i \in {in.ra, in.rb}
     /\ E(a, i) < DMIN /\ E(m, i) < DMIN + DADJUST
  \/ /\ in.op = "fdivs" /\ i \notin {in.ra, in.rb} /\ diff < SMIN
     /\ gone \/ m[i] = signz(a[i])
  \/ in.op = "fdivs" /\ in.ra # i /\ in.rb = i /\ gone /\ denormalized(a[in.ra])
  \/ in.op = "fres" /\ Tiny(a[i]) /\ (in.rb = i \/ E(m, in.rb) >= SBIG)
  \/ in.op = "fres" /\ Tiny(a[i]) /\ in.rb = i /\ E(m, i) = E(a, i) + SADJUST

\* One result is the other with the exponent that a trapped underflow wraps.
UnderflowWrapped(in, i, m, a) ==
  \/ /\ in.op \in DoubleOps /\ SameSign(a[i], m[i]) /\ denormalized(a[i])
     /\ SignedWithin(normalize(a[i]), m[i], NormSlack)
  \/ /\ denormalized(a[i]) /\ m[i] = signz(a[i])
     /\ in.op = "fmsub" \/ (in.op = "fadd" /\ i \in {in.ra, in.rb})
  \/ /\ in.op \in {"fnmsubs", "fsubs", "fadds"}
     /\ Tiny(a[i]) /\ E(m, i) = E(a, i) + SADJUST
     /\ Abs(mantissa(a[i]) - mantissa(m[i])) <= SULP
  \/ /\ in.op = "fmadds" /\ i \notin {in.ra, in.rb, in.rc}
     /\ \/ zero(m[in.ra]) /\ denormalized(m[in.rc])
        \/ zero(m[in.rc]) /\ denormalized(m[in.ra])
     /\ zero(m[i]) /\ a[i] = m[in.rb]
  \/ in.op \in Fmas /\ \A r \in {in.ra, in.rb, in.rc} : r = i \/ E(a, r) < SMIN

OverflowSingle(in, i, m, a) ==
  LET inf == a[i] = signinf(m[i]) IN
  \/ /\ in.op \in Fma \cup Fmas /\ i \in Operands(in)
     /\ infinite(m[i]) /\ isqnan(a[i])
  \/ /\ in.op \in SingleOps \cup {"fres"}
     /\ Magnitude(m[i]) \in FLT_MAX .. INF /\ E(a, i) > SBIG
  \/ /\ in.op \in SingleOps \ {"fdivs"} /\ inf
     /\ \/ \E r \in {in.ra, in.rb} : r # i /\ E(m, r) > SBIG
        \/ i \in {in.ra, in.rb}
  \/ /\ in.op \in Fmas \cup {"fmuls"} /\ i \notin {in.ra, in.rc} /\ inf
     /\ E(m, in.ra) + E(m, in.rc) >= SBIG
  \/ /\ in.op \in Fmas /\ in.rb # i /\ SameSign(a[i], m[i])
     /\ E(a, i) >= SBIG /\ E(m, in.rb) >= SBIG

OverflowDouble(in, i, m, a) ==
  /\ a[i] = signinf(m[i])
  /\ \/ /\ in.op \in Fma \cup {"fmul"} /\ i \notin {in.ra, in.rc}
        /\ E(m, in.ra) + E(m, in.rc) >= Bias
     \/ in.op \in Fma /\ i \in {in.ra, in.rb}
     \/ in.op = "fnmadd" /\ in.ra # i /\ in.rc = i /\ E(m, in.ra) > 0
     \/ /\ in.op \in {"fdiv", "fdivs"} /\ i \notin {in.ra, in.rb}
        /\ E(m, in.ra) - E(m, in.rb) >= IF in.op = "fdiv" THEN Bias ELSE SBIG
     \/ in.op = "fdiv" /\ i \in {in.ra, in.rb}
     \/ in.op = "fres" /\ (in.rb = i \/ -E(m, in.rb) >= SBIG)
     \/ in.op = "frsp" /\ (in.rb = i \/ E(m, in.rb) >= SBIG)

Round(in, i, m, a) ==
  /\ ~anyqnan(a[i]) /\ ~anyqnan(m[i])
  /\ \/ in.op \in DoubleOps /\ SignedWithin(a[i], m[i], 1)
     \/ in.op \in {"frsqrte", "fres"} /\ SignedWithin(a[i], m[i], EstSlack)

\* (Mutant: the wide slack is for every result.)
Round_s_Wide(in, i, m, a) ==
  /\ ~anyqnan(a[i]) /\ ~anyqnan(m[i])
  /\ in.op \in SingleOps \cup {"frsp"}
  /\ UnsignedWithin(a[i], m[i], DenormSlack)

Round_s(in, i, m, a) ==
  LET small == Tiny(a[i]) /\ Tiny(m[i]) IN
  /\ ~anyqnan(a[i]) /\ ~anyqnan(m[i])
  /\ \/ /\ in.op \in SingleOps \cup {"frsp"}
        /\ UnsignedWithin(a[i], m[i], IF small THEN DenormSlack ELSE SingleSlack)
     \/ /\ in.op \in {"fadds", "fsubs"} /\ i \notin {in.ra, in.rb} /\ small
        /\ E(a, in.ra) < SMIN /\ E(m, in.rb) < SMIN

qnan_from_inf(in, i, a) ==
  /\ in.op \in Fma \cup {"fmul", "fnmadds"} /\ isqnan(a[i])
  /\ \E r \in {in.ra, in.rc} : r # i /\ infinite(a[r])

inf_from_unknown(in, i, a) ==
  /\ infinite(a[i])
  /\ \/ in.op \in {"frsqrte", "fres"} /\ in.rb = i
     \/ in.op = "fdivs" /\ i \in {in.ra, in.rb}
     \/ in.op \in MulOps /\ i \in {in.ra, in.rc}

\* The rules that look at the target of the previous instruction only.
AtTarget(o, in, i, m, a) ==
  \/ o = "NaN_operand" /\ NaN_operand(in, i, m)
  \/ o = "opposite_inf_operands" /\ opposite_inf_operands(in, i, m)
  \/ o = "inf_x_0_operands" /\ inf_x_0_operands(in, i, m)
  \/ o = "div_zero" /\ div_zero(in, i, m)
  \/ /\ o = "underflow"
     /\ \/ UnderflowTiny(in, i, m, a) \/ UnderflowOperands(in, i, m, a)
        \/ UnderflowWrapped(in, i, m, a)
  \/ o = "overflow" /\ (OverflowSingle(in, i, m, a) \/ OverflowDouble(in, i, m, a))
  \/ o = "round" /\ Round(in, i, m, a)
  \/ o = "round_s" /\ Round_s(in, i, m, a)
  \/ /\ o = "rsqrt_negative" /\ in.op = "frsqrte" /\ isqnan(a[i])
     /\ in.rb = i \/ negative(m[in.rb])
  \/ /\ o = "rsqrt_negative_zero" /\ in.op = "frsqrte" /\ in.rb # i
     /\ m[in.rb] = SignBit /\ a[i] = signinf(SignBit)
  \/ /\ o = "rsqrt_zero" /\ in.op = "frsqrte" /\ in.rb # i
     /\ m[in.rb] = 0 /\ a[i] = INF
  \/ o = "qnan_from_inf" /\ qnan_from_inf(in, i, a)
  \/ /\ o = "qnan_from_unknown" /\ in.op = "fdiv"
     /\ isqnan(a[i]) /\ i \in {in.ra, in.rb}
  \/ o = "inf_from_unknown" /\ inf_from_unknown(in, i, a)
  \/ /\ o = "inf_div_inf" /\ in.op \in {"fdiv", "fdivs"}
     /\ infinite(a[in.ra]) /\ infinite(a[in.rb])
  \/ o = "QNaN_SNaN" /\ in.op = "fdiv" /\ is_nan(a[i]) /\ is_nan(m[i])
  \/ /\ o = "NaN_unknown_operands" /\ in.op \in Fma \cup Fmas
     /\ is_nan(a[i]) /\ i \in Operands(in)

\* (Mutant: the target register is not asked for.)
Tolerates_Anywhere(o, in, second, i, m, a) == AtTarget(o, in, i, m, a)

\* What option o alone tolerates in register i.
Tolerates(o, in, second, i, m, a) ==
  \/ /\ o = "QNaN_signs" /\ anyqnan(a[i]) /\ anyqnan(m[i])
     /\ Magnitude(a[i]) = Magnitude(m[i])
  \/ o = "QNaN_values" /\ neganyqnan(a[i]) /\ neganyqnan(m[i])
  \/ o = "QNaN_diffs" /\ anyqnan(a[i]) /\ anyqnan(m[i])
  \/ o = "QNaN_load_float" /\ QNaN_load_float(second, i, m, a)
  \/ o = "zero_signs" /\ zero(a[i]) /\ zero(m[i])
  \/ in.rt = i /\ AtTarget(o, in, i, m, a)
=============================================================================
