----------------------------- MODULE FpCompare ------------------------------
(***************************************************************************)
(* The loop of reginfo_is_eq over the floating point registers: one        *)
(* register after the other is equal, or tolerated and overwritten with    *)
(* the master's value, or the end of the comparison.  The rules of         *)
(* FpTolerance read the registers while the loop overwrites them.          *)
(***************************************************************************)
EXTENDS FpTolerance, FiniteSets

CONSTANTS
  Masks, OptSets, \* the values fpregs_mask and fp_opts may have
  Previous,       \* the floating point instructions that may come before
  OperandValues, Results,  \* what registers hold before and after them
  Unmasked        \* what a register that is not compared holds on both sides

VARIABLES
  prev_insn, second_prev_insn,
  fpregs_mask,    \* the registers that are compared
  fp_opts,
  m, a,           \* the fpregs of the master's and the apprentice's reginfo
  i, verdict,
  sent            \* history: the apprentice's registers before the loop

inputs == <<prev_insn, second_prev_insn, fpregs_mask, fp_opts, m, sent>>
vars == <<inputs, a, i, verdict>>

Insn(op, rt, ra, rb, rc) ==
  [op |-> op, rt |-> rt, ra |-> ra, rb |-> rb, rc |-> rc]
OtherInsn == Insn("other", 0, 0, 0, 0)

\* Elsewhere than in the target the two sides agree, or have zeros of opposite
\* sign, or NaNs of opposite sign; or register 0 has been loaded just before, and
\* the apprentice has a quiet NaN there.
Opposite(n) == IF ~zero(n) /\ ~is_nan(n) THEN n
               ELSE IF negative(n) THEN n - SignBit ELSE n + SignBit
Load == Insn("lfs", 0, 0, 0, 0)
Theirs(how, r, n) == IF how = "opposite" THEN Opposite(n)
                     ELSE IF how = "loaded" /\ r = 0 THEN QNAN ELSE n

AfterFp ==
  /\ prev_insn \in Previous
  /\ \E f \in [fpregs_mask \ {prev_insn.rt} -> OperandValues],
        w \in [Fpr \ fpregs_mask -> Unmasked], x, y \in Results,
        how \in {"same", "opposite", "loaded"} :
       /\ second_prev_insn = IF how = "loaded" THEN Load ELSE OtherInsn
       /\ m = [r \in Fpr |-> IF r = prev_insn.rt THEN x
                             ELSE IF r \in fpregs_mask THEN f[r] ELSE w[r][1]]
       /\ sent = [r \in Fpr |-> IF r = prev_insn.rt THEN y
                                ELSE IF r \in fpregs_mask THEN Theirs(how, r, f[r])
                                ELSE w[r][2]]

\* After another instruction, perhaps with a load before it, when all registers
\* are compared.
AfterOther ==
  /\ fpregs_mask = Fpr
  /\ prev_insn = OtherInsn
  /\ second_prev_insn \in {OtherInsn, Load}
  /\ \E x, y \in Float : /\ m = [r \in Fpr |-> IF r = 0 THEN x ELSE 0]
                         /\ sent = [r \in Fpr |-> IF r = 0 THEN y ELSE 0]

Init ==
  /\ fpregs_mask \in Masks
  /\ AfterFp \/ AfterOther
  /\ fp_opts \in OptSets
  /\ a = sent /\ i = 0 /\ verdict = "none"

Differing == {r \in Fpr : r >= i /\ m[r] # a[r]}
First == CHOOSE r \in Differing : \A s \in Differing : r <= s

Tolerated(r, x) ==
  \/ r \notin fpregs_mask
  \/ \E o \in fp_opts : Tolerates(o, prev_insn, second_prev_insn, r, m, x)

Heal ==
  /\ verdict = "none" /\ Differing # {} /\ Tolerated(First, a)
  /\ a' = [a EXCEPT ![First] = m[First]]
  /\ i' = First + 1
  /\ UNCHANGED <<inputs, verdict>>

Mismatch ==
  /\ verdict = "none" /\ Differing # {} /\ ~Tolerated(First, a)
  /\ verdict' = "mismatch"
  /\ UNCHANGED <<inputs, a, i>>

Equal ==
  /\ verdict = "none" /\ Differing = {}
  /\ verdict' = "equal"
  /\ UNCHANGED <<inputs, a, i>>

Next == Heal \/ Mismatch \/ Equal
Spec == Init /\ [][Next]_vars

-----------------------------------------------------------------------------
(* Properties.                                                             *)

\* A number of ordinary size, also in single precision.
Ordinary(n) == exponent(n) \in SMIN .. SBIG - 1

Slack(op) == IF op \in DoubleOps THEN 1
             ELSE IF op \in {"frsqrte", "fres"} THEN EstSlack ELSE SingleSlack

\* Whatever tolerances are asked for, a result of ordinary size computed from
\* operands of ordinary size is accepted only within the rounding slack of its
\* instruction.  Two exceptions are the code's: ABS of INT64_MIN may pass for
\* small (x against -x, after a double precision operation or an estimate), and
\* a single precision multiply-add of its own target is taken for an underflow.
OrdinaryCompared ==
  LET rt == prev_insn.rt IN
  /\ verdict = "equal" /\ prev_insn.op \in FpOps /\ rt \in fpregs_mask
  /\ Ordinary(m[rt]) /\ Ordinary(sent[rt])
  /\ \A r \in Operands(prev_insn) : Ordinary(m[r])
  /\ ~(prev_insn.op \in Fmas /\ Operands(prev_insn) = {rt})
  => \/ Abs(sent[rt] - m[rt]) <= Slack(prev_insn.op)
     \/ AbsWraps /\ Abs(sent[rt] - m[rt]) = SignBit

\* An operand that differs between the sides in more than the sign of a zero or
\* the kind of a NaN, and still does not end the comparison: it is masked out, or
\* was loaded just before as an infinity here and a NaN there.
Unlike(r) ==
  /\ prev_insn.op \in FpOps
  /\ r \in Operands(prev_insn) \ {prev_insn.rt} /\ m[r] # sent[r]
  /\ \/ r \notin fpregs_mask
     \/ QNaN_load_float(second_prev_insn, r, m, sent)

\* The loop overwrites registers that later turns read, but the verdict is the
\* one of comparing every register with what the apprentice had: which of two
\* registers has the lower number does not matter.  The exception is an operand
\* that is unlike on the two sides: the rules see the master's value of it when
\* its number is below the target's, the apprentice's when it is above.
OrderFree ==
  LET seen(r) == [q \in Fpr |-> IF q < r /\ Unlike(q) THEN m[q] ELSE sent[q]]
  IN  verdict # "none" =>
        (verdict = "equal" <=>
           \A r \in Fpr : m[r] = sent[r] \/ Tolerated(r, seen(r)))

\* After an instruction that computes nothing in floating point, registers that
\* differ are NaNs or zeros, or were loaded just before and differ in the bit
\* that makes a NaN quiet.
OtherwiseNaNsOnly ==
  verdict = "equal" /\ prev_insn = OtherInsn =>
    \A r \in fpregs_mask :
      \/ m[r] = sent[r]
      \/ is_nan(m[r]) /\ is_nan(sent[r])
      \/ zero(m[r]) /\ zero(sent[r])
      \/ second_prev_insn.op = "lfs" /\ r = 0 /\ sent[r] = m[r] + Hidden \div 2

-----------------------------------------------------------------------------
\* IEEE 754: |value| of a finite pattern, in units of the least denormalized
\* number, whose binary exponent is DMIN - FRAC.
Value(x) == IF Field(x) = 0 THEN Fraction(x)
            ELSE (Hidden + Fraction(x)) * 2 ^ (Field(x) - 1)

Log2(v) == CHOOSE k \in 0 .. 31 : 2 ^ k <= v /\ v \div 2 ^ k < 2

\* exponent() is the binary exponent of a normal number, and one less than that
\* of a denormalized one (the loop counts from 0 where the format counts from
\* 1); normalize() scales a denormalized number by exactly 2^1536, the amount
\* "underflow adds".  A larger magnitude never has a smaller exponent(), so the
\* thresholds -126, -1022, 126 and 1023 each cut the numbers in two.
ExponentRight ==
  LET n == m[0] IN
  prev_insn = OtherInsn =>
    /\ Field(n) < 2 ^ EXP - 1 /\ ~zero(n) =>
         exponent(n) = Log2(Value(n)) + DMIN - FRAC - (IF denormalized(n) THEN 1 ELSE 0)
    /\ denormalized(n) =>
         /\ Value(normalize(n)) = Value(n) * 2 ^ DADJUST
         /\ negative(normalize(n)) = negative(n)
    /\ Magnitude(n) <= Magnitude(sent[0]) => exponent(n) <= exponent(sent[0])
=============================================================================
